----------------------------- MODULE MCWidgets -----------------------------
(***************************************************************************)
(* The widgets of components/reui, in one instance for TLC.  They share    *)
(* nothing, so a behaviour is of one widget: part names it, and the others *)
(* stay in one of their initial states.                                    *)
(***************************************************************************)
EXTENDS GanttScroll, GanttTree, GanttLanes, GanttDrag, GanttRecurrence,
        Cascader, MCFilters

VARIABLE part

Parts == {"scroll", "tree", "lanes", "drag", "recurrence", "cascader", "filters"}

(* GanttScroll: days with room to extend, weeks mounted hidden, an anchor the *)
(* parent owns, a chart without infinite scroll, one bounded to the left.     *)
MCPeriod == [day |-> 4, week |-> 8]
GsScene(scale, cap, infinite, controlled, min, hidden, acts) ==
    [scale |-> scale, date |-> 17, cap |-> cap, infinite |-> infinite,
     controlled |-> controlled, min |-> min, max |-> 999, hidden |-> hidden, acts |-> acts]
MCGsScenes ==
    {GsScene("day", 1, TRUE, FALSE, -999, FALSE, 3), GsScene("week", 2, TRUE, FALSE, -999, TRUE, 2),
     GsScene("day", 1, TRUE, TRUE, -999, FALSE, 2), GsScene("day", 1, FALSE, FALSE, -999, FALSE, 2),
     GsScene("day", 2, TRUE, FALSE, 10, FALSE, 2)}

(* GanttTree: five rows in three shapes, two of them pinned. *)
TreeOf(top, ofA, ofB) ==
    [n \in TrNodes \cup {TrRoot} |->
       CASE n = TrRoot -> top [] n = "a" -> ofA [] n = "b" -> ofB [] OTHER -> <<>>]
MCTrees == {TreeOf(<<"a", "b">>, <<"c", "d">>, <<>>), TreeOf(<<"b", "c", "a">>, <<"d">>, <<>>),
            TreeOf(<<"a", "d">>, <<"b">>, <<"c">>)}
\* The first row and the leaf c are pinned.
MCAllows(n, parent, index) == n # "c" /\ ~(parent = TrRoot /\ index = 0)
MCTrConfig == [minWidth |-> 2, maxWidth |-> 4, width |-> 3, minTimeline |-> 2]
TrScene(toggles, drags, lists, splits, scrolls) ==
    [toggles |-> toggles, drags |-> drags, lists |-> lists, splits |-> splits, scrolls |-> scrolls]
MCTrScenes == {TrScene(2, 2, 0, 0, 0), TrScene(0, 2, 1, 0, 0), TrScene(0, 0, 0, 3, 0),
               TrScene(0, 0, 0, 0, 3)}

(* GanttLanes: three bars of a packed row and one of a row with a single track. *)
Bar(i) == [n |-> i]
MCLnEvents == {Bar(i) : i \in 1..4}
MCLnRow == [e \in MCLnEvents |-> IF e.n < 4 THEN "r" ELSE "s"]
MCPlan == (Bar(1) :> <<0, 1>>) @@ (Bar(4) :> <<2, 3>>) @@ (Bar(2) :> <<4, 2>>) @@ (Bar(3) :> <<4, 4>>)
MCDeps == [e \in MCLnEvents |-> CASE e.n = 4 -> {Bar(1)} [] e.n = 2 -> {Bar(2), Bar(3)} [] OTHER -> {}]
MCDone == (Bar(1) :> 100) @@ (Bar(2) :> 50)
MCSpans == {<<0, 2>>, <<1, 4>>, <<3, 3>>, <<2, 3>>}
MCLnRanges == {<<0, 6>>, <<1, 6>>, <<2, 4>>}
LnScene(bars, range, edits, drafts, views) ==
    [events |-> {Bar(i) : i \in bars}, range |-> range, edits |-> edits, drafts |-> drafts, views |-> views]
MCLnScenes == {LnScene({1, 2, 3}, <<0, 6>>, 2, 0, 0), LnScene({1, 2}, <<0, 6>>, 1, 1, 1),
               LnScene({1, 2, 4}, <<1, 6>>, 0, 1, 1), LnScene({1, 2, 3}, <<2, 4>>, 1, 0, 1)}

(* GanttDrag: two bars of a row, a fixed one of another; a mouse and a finger. *)
MCRowOf == [e \in GdEvents |-> IF e = "c" THEN "s" ELSE "r"]
MCTimes == ("a" :> <<2, 4>>) @@ ("b" :> <<6, 6>>)
MCMetTimes == ("a" :> <<2, 6>>) @@ ("b" :> <<4, 8>>) @@ ("c" :> <<0, 2>>)
GdScene(times, overlap, enforce, paint, presses, moves, hovers, edits) ==
    [times |-> times, overlap |-> overlap, enforce |-> enforce, paint |-> paint,
     presses |-> presses, moves |-> moves, hovers |-> hovers, edits |-> edits]
MCGdScenes ==
    {GdScene(MCTimes, "clamp", FALSE, FALSE, 1, 2, 0, 0), GdScene(MCTimes, "reject", TRUE, FALSE, 1, 2, 0, 0),
     GdScene(MCTimes, "allow", TRUE, TRUE, 2, 2, 0, 0), GdScene(MCTimes, "allow", TRUE, TRUE, 1, 1, 2, 0),
     GdScene(MCMetTimes, "clamp", FALSE, FALSE, 1, 2, 0, 1), GdScene(MCMetTimes, "reject", FALSE, FALSE, 2, 2, 0, 0)}

(* GanttRecurrence: rules ended by a count, a date or nothing, with a removed *)
(* and added dates, over windows of one day and of two weeks.                 *)
MCMonths == <<4, 2, 3>>
Freq(f) == <<"FREQ", f>>
RcOne(first, long, pairs, except, added) ==
    [first |-> first, long |-> long, pairs |-> pairs, except |-> except, added |-> added]
MCSeries ==
    {RcOne(first, 4, <<Freq("weekly"), <<"BYDAY", days>>, end>>, {24}, <<>>) :
       first \in {1, 2}, days \in {{0, 2}, {1, 2}},
       end \in {<<"COUNT", 5>>, <<"UNTIL", 40>>, <<"INTERVAL", 2>>}}
    \cup {RcOne(2, long, <<Freq("daily"), <<"INTERVAL", 2>>, end>>, {24}, <<13, 24>>) :
            long \in {0, 9}, end \in {<<"COUNT", 3>>, <<"UNTIL", 40>>, <<"INTERVAL", 1>>}}
    \cup {RcOne(3, 4, <<Freq("monthly"), <<"INTERVAL", 1>>>>, {}, <<>>),
          RcOne(3, 4, <<Freq("yearly")>>, {32}, <<33>>),
          RcOne(4, 4, <<Freq("weekly")>>, {}, <<>>), RcOne(2, 4, <<>>, {}, <<>>),
          RcOne(2, 4, <<Freq("daily"), <<"BYMONTH", 1>>>>, {}, <<>>)}
MCRcRanges == {<<4 * day + off, 4 * day + off + len>> : day \in {0, 4, 8}, off \in {0, 1}, len \in {4, 14}}

(* Cascader: roots a and b; a has a1 and a2, a1 has x.  The levels come in    *)
(* pages of a loader (Paged), from the options (Full) or from both (Tops).    *)
MCNodes == {"a", "b", "a1", "a2", "x"}
MCParent == [n \in MCNodes |-> CASE n \in {"a", "b"} -> "root" [] n \in {"a1", "a2"} -> "a" [] OTHER -> "a1"]
Levels(root, ofA, ofA1) ==
    [l \in {"root"} \cup MCNodes |->
       CASE l = "root" -> root [] l = "a" -> ofA [] l = "a1" -> ofA1 [] OTHER -> <<>>]
Paged == Levels(<<<<"a">>, <<"b">>>>, <<<<"a1">>, <<"a2">>>>, <<<<"x">>>>)
Full  == Levels(<<"a", "b">>, <<"a1", "a2">>, <<"x">>)
Tops  == Levels(<<"a", "b">>, <<>>, <<>>)
NoneYet == Levels(<<>>, <<>>, <<>>)
MCMatches == ("" :> {}) @@ ("q" :> {"a1", "b"}) @@ ("w" :> {"x"})
Single(mode, pick, base, source, selected, acts, fails, kinds) ==
    [mode |-> mode, multi |-> FALSE, cascade |-> FALSE, pick |-> pick, max |-> 9, base |-> base,
     loader |-> "loader" \in source, server |-> "server" \in source, deep |-> "deep" \in source,
     resolver |-> "resolver" \in source, selected |-> selected, acts |-> acts, fails |-> fails,
     kinds |-> {"open"} \cup kinds]
Multi(mode, cascade, max, selected, acts, kinds) ==
    [Single(mode, "any", Full, {}, selected, acts, 0, kinds) EXCEPT
       !.multi = TRUE, !.cascade = cascade, !.max = max]
MCCaScenes ==
    {Single("drill", "leaf", Tops, {"loader"}, {}, 6, 1, {"press", "back", "more", "keys"}),
     Single("columns", "any", NoneYet, {"loader"}, {}, 6, 0, {"press", "hover", "highlight"}),
     Single("tree", "leaf", Tops, {"loader"}, {}, 6, 1, {"press", "more", "invalidate"}),
     Single("drill", "leaf", Full, {"server"}, {}, 6, 1, {"press", "type", "more"}),
     Single("drill", "leaf", Tops, {"loader", "server"}, {}, 5, 0, {"press", "type", "loadKey"}),
     Single("drill", "leaf", Full, {"deep"}, {}, 6, 0, {"press", "type"}),
     Single("drill", "leaf", NoneYet, {"loader", "resolver"}, {"x"}, 6, 1, {"press", "back"}),
     Single("drill", "leaf", Tops, {"loader"}, {}, 6, 0, {"press", "loadKey"}),
     Single("tree", "leaf", Tops, {"loader"}, {}, 6, 0, {"highlight", "keys"}),
     Single("drill", "any", Tops, {"loader"}, {}, 5, 0, {"highlight", "keys"}),
     Multi("tree", TRUE, 4, {"a2"}, 5, {"press", "chip", "type"}),
     Multi("columns", FALSE, 1, {}, 6, {"press", "chip"})}

-----------------------------------------------------------------------------
Still(p, choice, scenes) == IF part = p THEN TRUE ELSE choice = CHOOSE s \in scenes : TRUE

Init ==
    /\ part \in Parts
    /\ Still("scroll", gsLeft, GsScenes) /\ GsInit
    /\ Still("tree", trLeft, TrScenes) /\ Still("tree", trTree, TrTrees) /\ TrInit
    /\ Still("lanes", lnLeft, LnScenes)
    /\ IF part = "lanes" THEN TRUE ELSE lnTimes = [e \in lnLeft.events |-> <<0, 2>>]
    /\ LnInit
    /\ Still("drag", gdLeft, GdScenes) /\ GdInit
    /\ Still("recurrence", rcEvent, {EventOf(s) : s \in {s \in RcSeries : s.pairs = <<>>}})
    /\ Still("recurrence", rcRange, RcRanges) /\ RcInit
    /\ Still("cascader", caScene, CaScenes) /\ CaInit
    /\ Still("filters", fiLeft, {s \in FiScenes : s.tree = MCNoRules}) /\ FiInit

Next ==
    \/ /\ part = "scroll" /\ GsNext
       /\ UNCHANGED <<part, trVars, lnVars, gdVars, rcVars, caVars, fiVars>>
    \/ /\ part = "tree" /\ TrNext
       /\ UNCHANGED <<part, gsVars, lnVars, gdVars, rcVars, caVars, fiVars>>
    \/ /\ part = "lanes" /\ LnNext
       /\ UNCHANGED <<part, gsVars, trVars, gdVars, rcVars, caVars, fiVars>>
    \/ /\ part = "drag" /\ GdNext
       /\ UNCHANGED <<part, gsVars, trVars, lnVars, rcVars, caVars, fiVars>>
    \/ /\ part = "recurrence" /\ RcNext
       /\ UNCHANGED <<part, gsVars, trVars, lnVars, gdVars, caVars, fiVars>>
    \/ /\ part = "cascader" /\ CaNext
       /\ UNCHANGED <<part, gsVars, trVars, lnVars, gdVars, rcVars, fiVars>>
    \/ /\ part = "filters" /\ FiNext
       /\ UNCHANGED <<part, gsVars, trVars, lnVars, gdVars, rcVars, caVars>>

vars == <<part, gsVars, trVars, lnVars, gdVars, rcVars, caVars, fiVars>>

(* CaFairness, for the cascader. *)
Spec == Init /\ [][Next]_vars /\ WF_caVars(part = "cascader" /\ CaSystem)
=============================================================================
