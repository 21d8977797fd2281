------------------------------ MODULE Cascader ------------------------------
(***************************************************************************)
(* The cascader (components/reui/cascader): a tree picked from by drilling *)
(* down, in columns or in place, whose levels may come from a loader page  *)
(* by page, whose query may be answered by a server, and whose selection   *)
(* may cascade.                                                            *)
(*                                                                         *)
(* Every handler is one step from the state of the last render: what it    *)
(* changes goes through the effects of the render that follows (Became),   *)
(* and caShown is what that render puts on screen.  An aborted request may *)
(* still be answered; its signal, its id and the epoch turn it away        *)
(* together, so r.live stands for all three.                               *)
(***************************************************************************)
EXTENDS Naturals, Sequences, FiniteSets, TLC, SequencesExt

CONSTANTS
    CaNodes,     \* values of nodes
    CaRoot,      \* the key of the root level; also the node null
    CaParent,    \* node -> the level it is listed in at the source
    CaPages,     \* level -> the pages the source answers with
    CaBranches,  \* the nodes with hasChildren
    CaDisabled,  \* the disabled nodes
    CaMatches,   \* query -> the nodes it matches
    CaScenes,    \* bounds: the props, and the budget of what may happen
    CaThreshold  \* rows from which a level is windowed

VARIABLES
    ca,       \* the loader's store and refs, and the state of the root
    caShown,  \* what the last render shows
    caScene   \* the props

caVars == <<ca, caShown, caScene>>

CaNone == "none"
CaLevels == {CaRoot} \cup CaNodes

\* The source is a finite tree, and answers a level with what it lists there.
ASSUME CaAssumption ==
    /\ IsFiniteSet(CaNodes) /\ CaRoot \notin CaNodes
    /\ CaParent \in [CaNodes -> CaLevels]
    /\ \A some \in (SUBSET CaNodes) \ {{}} : \E n \in some : CaParent[n] \notin some
    /\ CaPages \in [CaLevels -> Seq(Seq(CaNodes))]
    /\ \A l \in CaLevels : \A i \in DOMAIN CaPages[l] :
         \A n \in ToSet(CaPages[l][i]) : CaParent[n] = l
    /\ \A s \in CaScenes : /\ s.base \in [CaLevels -> Seq(CaNodes)]
                           /\ \A l \in CaLevels : \A n \in ToSet(s.base[l]) : CaParent[n] = l

CaIdle == [value |-> CaNone, kind |-> "push", depth |-> 0]
CaQuiet == [loading |-> FALSE, error |-> FALSE, more |-> FALSE, cursor |-> 0]
NoSearch == [query |-> "", hits |-> {}, loading |-> FALSE, error |-> FALSE]
Without(f, keys) == [k \in DOMAIN f \ keys |-> f[k]]
Put(f, key, value) ==
    [k \in DOMAIN f \cup {key} |-> IF k = key THEN value ELSE f[k]]
\* Array.filter, as a function: the selection of some of the nodes.
Only(nodes, some) ==
    LET only[i \in 0 .. Len(nodes)] ==
          IF i = 0 THEN <<>>
          ELSE only[i - 1] \o IF nodes[i] \in some THEN <<nodes[i]>> ELSE <<>>
    IN  only[Len(nodes)]

-----------------------------------------------------------------------------
(* The index *)

PageOf(S, l) == IF l \in DOMAIN S.pages THEN S.pages[l] ELSE <<>>

\* mergeCascaderIndex: items win, pages follow.
Kids(S, l) == caScene.base[l] \o Only(PageOf(S, l), CaNodes \ ToSet(caScene.base[l]))
KidSet(S, l) == ToSet(caScene.base[l]) \cup ToSet(PageOf(S, l))

\* Detached nodes resolve by value and sit in no level.
Indexed(S) == S.detached \cup UNION {KidSet(S, l) : l \in CaLevels}
InBase == UNION {ToSet(caScene.base[l]) : l \in CaLevels}
Up(S, n) ==
    IF CaParent[n] \in Indexed(S) /\ n \in KidSet(S, CaParent[n]) THEN CaParent[n] ELSE CaRoot

\* Root first; it stops where no more is known.
ChainOf(known, up, node) ==
    LET chain[n \in CaLevels] == IF n \in known THEN Append(chain[up[n]], n) ELSE <<>>
    IN  IF node \in known THEN chain[node] ELSE <<>>
PathOf(S, node) == ChainOf(Indexed(S), [n \in CaNodes |-> Up(S, n)], node)
\* The index lost, or never had, what is above.
Cut(chain) == chain # <<>> /\ CaParent[Head(chain)] # CaRoot

IsBranch(S, n) == n \in CaBranches \/ Kids(S, n) # <<>>
IsSelectable(S, n) ==
    /\ \A a \in ToSet(PathOf(S, n)) : a \notin CaDisabled
    /\ caScene.pick = "any" \/ ~IsBranch(S, n)

Level(S) == IF S.path = <<>> THEN CaRoot ELSE Last(S.path)
OnScreen(S) ==
    CASE caScene.mode = "tree" -> {CaRoot} \cup S.expanded
      [] caScene.mode = "columns" -> {CaRoot} \cup ToSet(S.path)
      [] OTHER -> {Level(S)}

-----------------------------------------------------------------------------
(* The loader *)

LiveKeys(S) == {r.key : r \in {q \in S.reqs : q.live}}
AbortKey(S, keys) ==
    [S EXCEPT !.reqs = {[r EXCEPT !.live = @ /\ r.key \notin keys] : r \in @}]

CaAsk(key, node, kind, cursor) ==
    [key |-> key, node |-> node, kind |-> kind, cursor |-> cursor, live |-> TRUE]
Ask(S, asks) ==
    LET A == AbortKey(S, {r.key : r \in asks}) IN [A EXCEPT !.reqs = @ \cup asks]

StateOf(S, l) == IF l \in DOMAIN S.states THEN S.states[l] ELSE CaQuiet
WithState(S, l, state) == [S EXCEPT !.states = Put(@, l, state)]

\* A level whose node nobody has seen is asked for as the root.
NodeOf(S, l) == IF l \in InBase \cup S.known THEN l ELSE CaRoot
RunLoads(S, levels, kind, cursor) ==
    LET T == Ask(S, {CaAsk(l, NodeOf(S, l), kind, cursor) : l \in levels})
        Loading(l) == [StateOf(S, l) EXCEPT !.loading = TRUE, !.error = FALSE]
    IN  [T EXCEPT !.states = [l \in levels \cup DOMAIN @ |->
                                IF l \in levels THEN Loading(l) ELSE @[l]]]
RunLoad(S, l, kind, cursor) == RunLoads(S, {l}, kind, cursor)

EnsureLevels(S, levels) ==
    RunLoads(S, {l \in levels : /\ caScene.loader
                                /\ l \notin DOMAIN S.states /\ caScene.base[l] = <<>>}, "level", 0)
EnsureLevel(S, l) == EnsureLevels(S, {l})

Signature(S, l) == <<Len(PageOf(S, l)), StateOf(S, l).cursor>>
Latched(S, l) == l \in DOMAIN S.latch /\ S.latch[l] = Signature(S, l)

LoadMore(S, l) ==
    IF l \notin DOMAIN S.states \/ S.states[l].loading \/ ~S.states[l].more \/ Latched(S, l) THEN S
    ELSE RunLoad([S EXCEPT !.latch = Put(@, l, Signature(S, l))], l, "more", S.states[l].cursor)

RetryLevel(S, l) ==
    IF ~StateOf(S, l).error THEN S
    ELSE LET T == [S EXCEPT !.latch = Without(@, {l})]
         IN  IF PageOf(S, l) = <<>> THEN RunLoad(T, l, "level", 0)
             ELSE RunLoad(T, l, "more", S.states[l].cursor)

InvalidateLevel(S, l) ==
    [AbortKey(S, {l}) EXCEPT !.latch = Without(@, {l}), !.states = Without(@, {l}),
                             !.pages = Without(@, {l})]

\* withPage: a first page replaces, a further one is appended.
WithPage(S, r, items, next) ==
    LET before == IF r.kind = "more" THEN PageOf(S, r.key) ELSE <<>>
        T == [S EXCEPT !.pages =
                Put(@, r.key, before \o Only(items, CaNodes \ ToSet(before))),
              !.known = @ \cup ToSet(items),
              !.latch = IF r.kind = "more" THEN @ ELSE Without(@, {r.key})]
    IN  WithState(T, r.key, [CaQuiet EXCEPT !.more = next # 0, !.cursor = next])

\* withChain: the chain is filed into the pages, and no level counts as loaded.
WithChain(S, chain) ==
    LET levels == DOMAIN S.pages \cup {CaParent[n] : n \in ToSet(chain)}
        Filed(l) == Only(chain, {n \in CaNodes \ ToSet(PageOf(S, l)) : CaParent[n] = l})
    IN  [S EXCEPT !.pages = [l \in levels |-> PageOf(S, l) \o Filed(l)],
                  !.detached = @ \cup ToSet(chain), !.known = @ \cup ToSet(chain)]

\* Mutant of CancelAll: a level whose first page was aborted keeps its entry.
CancelAllStranding(S) ==
    [AbortKey(S, LiveKeys(S)) EXCEPT !.warm = CaNone, !.search.loading = FALSE]
\* cancelAll: an aborted first page leaves no entry at all.
CancelAll(S) ==
    LET cut == {l \in LiveKeys(S) \cap DOMAIN S.states : S.states[l].loading}
        T == AbortKey(S, LiveKeys(S))
    IN  [T EXCEPT !.states = [l \in DOMAIN @ \ {k \in cut : PageOf(S, k) = <<>>} |->
                                IF l \in cut THEN [@[l] EXCEPT !.loading = FALSE] ELSE @[l]],
                  !.warm = CaNone, !.search.loading = FALSE]

RunSearch(S) ==
    [Ask(S, {CaAsk("search", S.due, "search", 0)}) EXCEPT
       !.search = [@ EXCEPT !.query = S.due, !.loading = TRUE, !.error = FALSE], !.due = ""]

-----------------------------------------------------------------------------
(* Navigation *)

NeedsChildren(S, n) ==
    /\ caScene.loader
    /\ IF n \in DOMAIN S.states THEN S.states[n].loading \/ S.states[n].error
       ELSE caScene.base[n] = <<>>

\* crossed: the user moved on, or drilled into a hit, while a branch was held, or
\* went to a node whose place the index does not know, or the cache was dropped
\* under a level it had fetched.
Moved(S, path) ==
    [S EXCEPT !.path = path, !.query = "", !.crossed = @ \/ S.held # CaIdle, !.said = CaNone]
Toggled(S, n) ==
    [S EXCEPT !.expanded = IF n \in @ THEN @ \ {n} ELSE @ \cup {n}, !.said = n]

\* requestChildren: the branch is asked for, and the move waits.
RequestChildren(S, n, kind, depth) ==
    LET T == [S EXCEPT !.held = [value |-> n, kind |-> kind, depth |-> depth], !.said = CaNone]
    IN  EnsureLevel(RetryLevel(T, n), n)

Upto(path, depth) == SubSeq(path, 1, IF depth < Len(path) THEN depth ELSE Len(path))
GoToLevelAt(S, n, depth) == Moved(S, Append(Upto(S.path, depth), n))

NavigateAt(S, n, depth) ==
    IF caScene.mode = "tree" THEN Toggled(S, n)
    ELSE IF NeedsChildren(S, n) THEN RequestChildren(S, n, "at", depth)
    ELSE GoToLevelAt(S, n, depth)

Hits(query) == CaMatches[query] \cap CaNodes
Searching(S) == S.query # "" /\ caScene.mode # "tree" /\ (caScene.server \/ caScene.deep)
\* What the list shows of a query: the server's hits, or the deep scan.
SearchHits(S) ==
    IF ~Searching(S) THEN {}
    ELSE IF caScene.server THEN IF S.search.query = S.query THEN S.search.hits ELSE {}
    ELSE IF caScene.deep
         THEN {n \in Hits(S.query) \cap (Indexed(S) \ S.detached) :
                 S.path = <<>> \/ Contains(Front(PathOf(S, n)), Level(S))}
         ELSE {}

Navigate(S, n) ==
    IF caScene.mode = "tree"
    THEN IF n \notin S.expanded /\ NeedsChildren(S, n) THEN RequestChildren(S, n, "expand", 0)
         ELSE Toggled(S, n)
    ELSE IF Searching(S)
    THEN LET path == PathOf(S, n)
             depth == IF path = <<>> THEN 0 ELSE Len(path) - 1
             T == IF NeedsChildren(S, n)
                  THEN [RequestChildren(S, n, "at", depth) EXCEPT
                          !.crossed = @ \/ Upto(S.path, depth) # Front(path)]
                  ELSE Moved(S, path)
         IN  [T EXCEPT !.crossed = @ \/ Cut(path)]
    ELSE IF NeedsChildren(S, n) THEN RequestChildren(S, n, "push", 0)
    ELSE Moved(S, Append(S.path, n))

\* Mutant of PopLevel: the branch stays held.
PopLevelHolding(S) ==
    [S EXCEPT !.path = IF @ = <<>> THEN @ ELSE Front(@), !.query = "", !.said = CaNone]
PopLevel(S) ==
    [S EXCEPT !.path = IF @ = <<>> THEN @ ELSE Front(@), !.query = "", !.said = CaNone,
              !.held = CaIdle]
GoToDepth(S, depth) ==
    [S EXCEPT !.path = Upto(@, depth), !.query = "", !.said = CaNone, !.held = CaIdle]

\* The other half of requestChildren: the fetch settled.
Landed(S) ==
    LET h == S.held
        T == [S EXCEPT !.held = CaIdle]
    IN  IF h = CaIdle \/ h.value \notin DOMAIN S.states THEN S
        ELSE IF S.states[h.value].loading \/ S.states[h.value].error THEN S
        ELSE CASE h.kind = "expand" -> Toggled(T, h.value)
               [] h.kind = "at" -> GoToLevelAt(T, h.value, h.depth)
               [] OTHER -> Moved(T, Append(T.path, h.value))

-----------------------------------------------------------------------------
(* The selection *)

\* collectCascaderSubtree: what is loaded below n.
Subtree(S, n) == {m \in Indexed(S) : Contains(PathOf(S, m), n)}

\* A parent answers for its selectable children.
Answer(S, chosen, p) ==
    LET kids == {k \in KidSet(S, p) : IsSelectable(S, k)}
    IN  IF kids # {} /\ kids \subseteq chosen /\ IsSelectable(S, p)
        THEN chosen \cup {p} ELSE chosen \ {p}

\* The branches above a toggled row, from the bottom up.
Reconciled(S, chosen, n) ==
    FoldLeft(LAMBDA c, p : Answer(S, c, p), chosen, Reverse(Front(PathOf(S, n))))

\* applyCascadeSelection
Cascaded(S, n, on) ==
    LET swept == {n} \cup {m \in Subtree(S, n) : IsSelectable(S, m)}
        chosen == IF on THEN S.selected \cup swept ELSE S.selected \ swept
    IN  IF n \notin Indexed(S) THEN chosen ELSE Reconciled(S, chosen, n)

Refuses(S, next) ==
    Cardinality(next) > caScene.max /\ Cardinality(next) > Cardinality(S.selected)
Emit(S, next) == [S EXCEPT !.selected = next, !.query = "", !.said = CaNone]
Notice(S) == [S EXCEPT !.said = "notice"]

Closed(S) == [S EXCEPT !.open = FALSE, !.query = ""]

\* commit, also as handleComboboxValueChange reaches it.
CommitRow(S, n) ==
    IF ~caScene.multi THEN Closed([S EXCEPT !.selected = {n}])
    ELSE LET on == n \notin S.selected
             next == IF caScene.cascade THEN Cascaded(S, n, on)
                     ELSE IF on THEN S.selected \cup {n} ELSE S.selected \ {n}
         IN  IF on /\ Refuses(S, next) THEN Notice(S)
             ELSE IF caScene.cascade /\ Cardinality(next) # Cardinality(S.selected) + 1
                  THEN Notice(Emit(S, next)) ELSE Emit(S, next)

\* getCascaderCheckedValues under "parent": what the chips condense to.
Chips(S) == {n \in S.selected : Up(S, n) = CaRoot \/ Up(S, n) \notin S.selected}

\* getCascaderIndeterminateFrom: selected below, not itself.
Partial(S) ==
    (UNION {ToSet(PathOf(S, n)) : n \in S.selected}) \ S.selected

-----------------------------------------------------------------------------
(* The render *)

Matching(S, nodes) ==
    IF S.query = "" THEN nodes ELSE Only(nodes, CaMatches[S.query])

\* needsMoreRow: only the active level is filtered.
MoreRow(S, l) ==
    /\ l \in DOMAIN S.states
    /\ LET st == S.states[l]
           count == IF caScene.mode # "tree" /\ l = Level(S) THEN Matching(S, Kids(S, l))
                    ELSE Kids(S, l)
       IN  IF count # <<>> THEN st.more \/ st.loading \/ st.error
           ELSE caScene.mode = "tree" /\ (st.loading \/ st.error)

\* flattenCascaderTree; under a query every match with its ancestors.
TreeRows(S) ==
    LET keep == {n \in CaNodes : \E m \in CaMatches[S.query] \cap Indexed(S) :
                   Contains(PathOf(S, m), n)}
        opened == IF S.query = "" THEN S.expanded ELSE S.expanded \cup keep
        rows[l \in CaLevels] ==
          FlattenSeq([i \in DOMAIN Kids(S, l) |->
            <<Kids(S, l)[i]>> \o IF Kids(S, l)[i] \in opened THEN rows[Kids(S, l)[i]] ELSE <<>>])
    IN  IF S.query = "" THEN rows[CaRoot]
        ELSE SelectSeq(rows[CaRoot], LAMBDA n : n \in keep)

Rows(S) ==
    CASE caScene.mode = "tree" -> TreeRows(S)
      [] Searching(S) -> SetToSeq(SearchHits(S))
      [] OTHER -> Matching(S, Kids(S, Level(S)))

RowSet(S) ==
    CASE caScene.mode = "tree" -> ToSet(TreeRows(S))
      [] Searching(S) -> SearchHits(S)
      [] OTHER -> {n \in KidSet(S, Level(S)) : S.query = "" \/ n \in CaMatches[S.query]}

\* treeSentinels, and the paging row of a level or a column.
MoreRows(S) ==
    IF S.query # "" /\ (caScene.mode = "tree" \/ Searching(S)) THEN {}
    ELSE {l \in OnScreen(S) : MoreRow(S, l)}

\* The columns behind the active one: their parents' open values.
Trail(S) == IF caScene.mode = "columns" THEN S.path ELSE <<>>

\* CascaderBreadcrumb: the path, what the index cannot name left out.
Crumbs(S) == SelectSeq(S.path, LAMBDA n : n \in Indexed(S))

SearchLoading(S) == S.search.query # S.query \/ S.search.loading
SearchError(S) == S.search.query = S.query /\ S.search.error

\* The state of what is on screen: CascaderEmpty, and the announcement.
Standing(S) ==
    IF S.query # "" /\ caScene.server /\ caScene.mode # "tree"
    THEN IF SearchError(S) THEN "error" ELSE IF SearchLoading(S) THEN "loading" ELSE "settled"
    ELSE IF StateOf(S, Level(S)).error THEN "error"
    ELSE IF StateOf(S, Level(S)).loading THEN "loading" ELSE "settled"

\* announcementTarget
Announced(S) ==
    IF ~S.open THEN ""
    ELSE IF S.said = "notice" THEN "notice"
    ELSE IF S.held # CaIdle
         THEN IF StateOf(S, S.held.value).error THEN "error" ELSE "loading"
    ELSE IF Standing(S) # "settled" THEN Standing(S)
    ELSE IF S.query # "" THEN IF Rows(S) = <<>> THEN "empty" ELSE "results"
    ELSE IF caScene.mode = "tree" /\ S.said # CaNone
         THEN IF S.said \in S.expanded THEN "expanded" ELSE "collapsed"
    ELSE IF S.path = <<>> THEN "root" ELSE "level"

\* The count a branch shows: what is selected below it.
SelectedBelow(S, n) ==
    Cardinality({m \in S.selected : m # n /\ Contains(PathOf(S, m), n)})

\* CascaderValue: a single value is its path, or itself while nobody knows it.
Label(S) ==
    IF Cardinality(S.selected) # 1 THEN <<>>
    ELSE LET n == CHOOSE m \in S.selected : TRUE
         IN  IF PathOf(S, n) = <<>> THEN <<n>> ELSE PathOf(S, n)

\* getCascaderMoreProps: the rows whose own children are loading or failed.
Spinning(S) == {n \in CaNodes : StateOf(S, n).loading}
Failed(S) == {n \in CaNodes : StateOf(S, n).error}

Shown(S) ==
    [rows |-> Rows(S), more |-> MoreRows(S), trail |-> Trail(S), crumbs |-> Crumbs(S),
     chips |-> Chips(S), partial |-> Partial(S), label |-> Label(S),
     below |-> [n \in CaBranches |-> SelectedBelow(S, n)], body |-> Standing(S),
     spinning |-> Spinning(S), failed |-> Failed(S), announced |-> Announced(S)]

\* The latch of virtualized: on for as long as the level stays.
Windowed(S) ==
    LET wants == Len(Rows(S)) >= CaThreshold
    IN  [level |-> Level(S), on |-> wants \/ (S.window.level = Level(S) /\ S.window.on)]

-----------------------------------------------------------------------------
(* The effects *)

LevelEffect(S) ==
    IF ~S.open \/ ~caScene.loader THEN S
    ELSE EnsureLevels(S, OnScreen(S))

\* A new query aborts the last one and waits for a pause.  A query whose search a
\* new loadKey dropped is not a new one: it is lost until another is typed.
AskedFor(open, query) == [open |-> open, query |-> query, lost |-> FALSE]
SameQuery(S) == S.asked.open = S.open /\ S.asked.query = S.query
SearchEffect(S) ==
    IF ~caScene.server \/ caScene.mode = "tree" \/ SameQuery(S) THEN S
    ELSE LET T == [AbortKey(S, {"search"}) EXCEPT !.asked = AskedFor(S.open, S.query)]
         IN  IF ~S.open \/ S.query = "" THEN [T EXCEPT !.search = NoSearch, !.due = ""]
             ELSE [T EXCEPT !.due = S.query]

ResolveEffect(S) ==
    LET missing == S.selected \ (S.attempted \cup InBase \cup S.known)
        asks == {CaAsk("resolve:" \o n, n, "resolve", 0) : n \in missing}
    IN  IF ~S.open \/ ~caScene.resolver \/ S.sought = <<S.open, S.selected>> THEN S
        ELSE [Ask(S, asks) EXCEPT !.attempted = @ \cup missing,
                                  !.sought = <<S.open, S.selected>>]

CloseEffect(S) ==
    IF S.open \/ ~ca.open \/ LiveKeys(S) = {} THEN S ELSE CancelAll(S)
DropHeld(S) == IF S.open THEN S ELSE [S EXCEPT !.held = CaIdle]

\* The level swap's empty frame takes the highlight away; a row that leaves
\* the list, or whose column is no longer the active one, loses its hover timer.
Swapped(S) ==
    [S EXCEPT !.mark = IF Level(S) = Level(ca) THEN @ ELSE CaNone,
              !.hover = IF Level(S) = Level(ca) /\ @ \in RowSet(S) THEN @ ELSE CaNone]

\* Each effect of a commit sees the state as it is then; a landing is a commit
\* of its own.
Commit(S) ==
    \E s1 \in {CloseEffect(S)} : \E s2 \in {LevelEffect(s1)} :
      \E s3 \in {SearchEffect(s2)} : \E s4 \in {ResolveEffect(s3)} :
        \E W \in {[Swapped(s4) EXCEPT !.window = Windowed(s4)]} :
          ca' = W /\ caShown' = Shown(W) /\ UNCHANGED caScene

Became(S) ==
    \E s0 \in {S} : \E s1 \in {CloseEffect(s0)} : \E s2 \in {LevelEffect(s1)} :
      \E s3 \in {Landed(SearchEffect(s2))} : Commit(DropHeld(s3))

-----------------------------------------------------------------------------
(* What the user does; each costs one of the scene's acts *)

CaInit ==
    /\ caScene \in CaScenes
    /\ ca = [pages |-> <<>>, states |-> <<>>, detached |-> {}, known |-> {}, attempted |-> {},
             latch |-> <<>>, reqs |-> {}, search |-> NoSearch, asked |-> AskedFor(FALSE, ""),
             due |-> "", sought |-> <<FALSE, {}>>, warm |-> CaNone, open |-> FALSE,
             path |-> <<>>, expanded |-> {}, query |-> "", held |-> CaIdle, crossed |-> FALSE,
             said |-> CaNone, selected |-> caScene.selected, mark |-> CaNone, hover |-> CaNone,
             window |-> [level |-> CaRoot, on |-> FALSE],
             acts |-> caScene.acts, fails |-> caScene.fails]
    /\ caShown = Shown(ca)

May(kind) == kind \in caScene.kinds /\ ca.acts > 0 /\ (kind # "open" => ca.open)
Spent == [ca EXCEPT !.acts = @ - 1]

\* handleOpenChange with revealSelected: onto the level of the first value.
Open ==
    /\ May("open") /\ ~ca.open
    /\ \E first \in IF ca.selected = {} THEN {CaNone} ELSE ca.selected :
         LET chain == IF first = CaNone THEN <<>> ELSE PathOf(ca, first)
         IN  Became([Spent EXCEPT !.open = TRUE, !.query = "",
                                  !.path = IF chain = <<>> THEN chain ELSE Front(chain),
                                  !.crossed = @ \/ Cut(chain)])
Close == May("open") /\ ca.open /\ Became(Closed(Spent))

\* A press on a row of the list, Enter included.
PressRow(S, n) ==
    IF n \in CaDisabled THEN S
    ELSE IF IsBranch(S, n) /\ ~IsSelectable(S, n) THEN Navigate(S, n) ELSE CommitRow(S, n)
Press == May("press") /\ \E n \in RowSet(ca) : Became(PressRow(Spent, n))

Chevron ==
    /\ May("press") /\ caScene.mode # "tree"
    /\ \E n \in RowSet(ca) \ CaDisabled : IsBranch(ca, n) /\ Became(Navigate(Spent, n))

Expander ==
    /\ May("press") /\ caScene.mode = "tree"
    /\ \E n \in RowSet(ca) \ CaDisabled :
         /\ IsBranch(ca, n)
         /\ Became(IF n \in ca.expanded THEN Toggled(Spent, n) ELSE Navigate(Spent, n))

\* A button row of a column behind the active one, or its chevron.
PressTrail ==
    /\ May("press") /\ caScene.mode = "columns"
    /\ \E i \in DOMAIN ca.path :
         \E n \in KidSet(ca, IF i = 1 THEN CaRoot ELSE ca.path[i - 1]) \ CaDisabled :
           \/ IsBranch(ca, n) /\ Became(NavigateAt(Spent, n, i - 1))
           \/ IsSelectable(ca, n) /\ Became(CommitRow(Spent, n))

\* The back button and the breadcrumb are those of "drill".
Back == May("back") /\ caScene.mode = "drill" /\ ca.path # <<>> /\ Became(PopLevel(Spent))
Breadcrumb ==
    /\ May("back") /\ caScene.mode = "drill"
    /\ \E d \in 1 .. Len(ca.path) - 1 : Became(GoToDepth(Spent, d))
Type == May("type") /\ \E q \in DOMAIN CaMatches \ {ca.query} : Became([Spent EXCEPT !.query = q])

PressMore ==
    /\ May("more")
    /\ \E l \in MoreRows(ca) :
         Became(IF StateOf(ca, l).error THEN RetryLevel(Spent, l)
                ELSE IF ~StateOf(ca, l).loading THEN LoadMore(Spent, l) ELSE Spent)

\* CascaderEmpty's button retries the level, also when a search failed.
RetryBody ==
    May("more") /\ Rows(ca) = <<>> /\ Standing(ca) = "error" /\ Became(RetryLevel(Spent, Level(ca)))

\* The highlight warms a branch nobody has asked for.
Highlight ==
    /\ May("highlight")
    /\ \E n \in RowSet(ca) \ {ca.mark} :
         LET T == [Spent EXCEPT !.mark = n]
         IN  Became(IF caScene.loader /\ n \in CaBranches \ DOMAIN ca.states
                    THEN [T EXCEPT !.warm = n] ELSE T)
PrefetchFires == ca.warm # CaNone /\ Became(EnsureLevel([ca EXCEPT !.warm = CaNone], ca.warm))

\* expandTrigger "hover": resting on a branch of the active column drills in.
Hover ==
    /\ May("hover") /\ caScene.mode = "columns"
    /\ \/ \E n \in RowSet(ca) \ CaDisabled :
            IsBranch(ca, n) /\ Became([Spent EXCEPT !.hover = n])
       \/ ca.hover # CaNone /\ Became([Spent EXCEPT !.hover = CaNone])
HoverFires == ca.hover # CaNone /\ Became(Navigate([ca EXCEPT !.hover = CaNone], ca.hover))

\* handleTreeKeyDown, with what the highlight moves to; handleKeyDown elsewhere.
TreeForward(S, n) ==
    LET at == IndexFirstSubSeq(<<n>>, TreeRows(S))
    IN  IF ~IsBranch(S, n) THEN S
        ELSE IF n \notin S.expanded THEN Navigate(S, n)
        ELSE IF at < Len(TreeRows(S)) /\ Up(S, TreeRows(S)[at + 1]) = n
             THEN [S EXCEPT !.mark = TreeRows(S)[at + 1]] ELSE S
TreeBack(S, n) ==
    IF IsBranch(S, n) /\ n \in S.expanded THEN Toggled(S, n)
    ELSE IF Up(S, n) = CaRoot THEN S ELSE [S EXCEPT !.mark = Up(S, n)]

KeyForward ==
    /\ May("keys") /\ ca.mark \in RowSet(ca)
    /\ IF caScene.mode = "tree" THEN Became(TreeForward(Spent, ca.mark))
       ELSE IsBranch(ca, ca.mark) /\ Became(Navigate(Spent, ca.mark))
KeyBack ==
    /\ May("keys")
    /\ IF caScene.mode = "tree"
       THEN ca.mark \in RowSet(ca) /\ Became(TreeBack(Spent, ca.mark))
       ELSE ca.path # <<>> /\ Became(PopLevel(Spent))

RemoveChip ==
    /\ "chip" \in caScene.kinds /\ ca.acts > 0 /\ caScene.multi
    /\ \E n \in Chips(ca) :
         Became([Spent EXCEPT !.selected =
                   IF caScene.cascade THEN Cascaded(ca, n, FALSE) ELSE @ \ {n}])

Invalidate ==
    May("invalidate") /\ \E l \in DOMAIN ca.states \cup DOMAIN ca.pages :
                           Became(InvalidateLevel(Spent, l))

\* A new loadKey drops the cache, and with it every request.  The levels are asked for
\* again; the search is not, unless its pause is still running.
LosesSearch(S) == caScene.server /\ caScene.mode # "tree" /\ S.query # "" /\ S.due = ""
LoadKey ==
    /\ May("loadKey")
    /\ Became([AbortKey(Spent, LiveKeys(ca)) EXCEPT
                 !.pages = <<>>, !.states = <<>>, !.detached = {}, !.known = {},
                 !.attempted = {}, !.latch = <<>>, !.search = NoSearch, !.warm = CaNone,
                 !.asked.lost = LosesSearch(ca),
                 !.crossed = @ \/ ~(ToSet(ca.path) \subseteq InBase)])

-----------------------------------------------------------------------------
(* What the loader hears *)

SearchFires == ca.due # "" /\ Became(RunSearch(ca))

Heard(r) == [ca EXCEPT !.reqs = @ \ {r}]

\* The source answers the page after the cursor, and names the next.
LevelAnswered(r) ==
    LET next == IF r.cursor + 1 < Len(CaPages[r.node]) THEN r.cursor + 1 ELSE 0
        page == IF r.cursor + 1 \in DOMAIN CaPages[r.node]
                THEN CaPages[r.node][r.cursor + 1] ELSE <<>>
    IN  WithPage(Heard(r), r, page, next)

SearchAnswered(r) ==
    [Heard(r) EXCEPT
       !.search = [NoSearch EXCEPT !.query = r.node, !.hits = Hits(r.node)],
       !.detached = @ \cup Hits(r.node), !.known = @ \cup Hits(r.node)]

Answers ==
    \E r \in ca.reqs :
      \/ ~r.live /\ Became(Heard(r))
      \/ r.live /\ r.kind = "search" /\ Became(SearchAnswered(r))
      \/ /\ r.live /\ r.kind = "resolve"
         /\ Became(WithChain(Heard(r), ChainOf(CaNodes, CaParent, r.node)))
      \/ r.live /\ r.kind \notin {"search", "resolve"} /\ Became(LevelAnswered(r))

\* A failed resolve may be asked again, also when it was aborted.
Fails ==
    /\ ca.fails > 0
    /\ \E r \in ca.reqs : \E S \in {[Heard(r) EXCEPT !.fails = @ - 1]} :
         \/ r.kind = "resolve" /\ Became([S EXCEPT !.attempted = @ \ {r.node}])
         \/ r.kind # "resolve" /\ ~r.live /\ Became(S)
         \/ /\ r.kind = "search" /\ r.live
            /\ Became([S EXCEPT !.search = [@ EXCEPT !.query = r.node, !.loading = FALSE,
                                                     !.error = TRUE]])
         \/ /\ r.kind \notin {"search", "resolve"} /\ r.live
            /\ Became(WithState(S, r.key, [StateOf(S, r.key) EXCEPT !.loading = FALSE,
                                                                    !.error = TRUE]))

CaUser ==
    \/ Open \/ Close \/ Press \/ Chevron \/ Expander \/ PressTrail \/ Back \/ Breadcrumb \/ Type
    \/ PressMore \/ RetryBody \/ Highlight \/ Hover \/ KeyForward \/ KeyBack \/ RemoveChip
    \/ Invalidate \/ LoadKey
CaSystem == PrefetchFires \/ HoverFires \/ SearchFires \/ Answers
CaNext == CaUser \/ CaSystem \/ Fails

\* Timers fire, and a request is answered or fails.
CaFairness == WF_caVars(CaSystem)
CaSpec == CaInit /\ [][CaNext]_caVars /\ CaFairness

-----------------------------------------------------------------------------
(* Properties *)

\* The open path is a path of the tree: it starts at the root and each level is
\* in the one before, whatever was held, popped or revealed meanwhile, unless
\* the user drilled elsewhere while a branch was held, drilled into a hit whose
\* ancestors are not all loaded, or the cache was dropped below a level that came
\* from it (setPath of navigate, pushLevel, popLevel and goToLevelAt).
PathIsTrail ==
    ca.crossed \/ \A i \in DOMAIN ca.path :
                    CaParent[ca.path[i]] = IF i = 1 THEN CaRoot ELSE ca.path[i - 1]

\* Whatever was closed, cancelled, superseded or invalidated, in the end an open
\* cascader does not wait: every level on screen is there, answered or failed,
\* and a query has its own answer (ensureLevel, cancelAll, the stale guards).
\* Except for a query whose search a new loadKey dropped: it waits until another is
\* typed or the cascader is closed, as nothing asks for it again.
Waits ==
    /\ ca.open
    /\ \/ caScene.loader /\ \E l \in OnScreen(ca) :
            caScene.base[l] = <<>> /\ (l \notin DOMAIN ca.states \/ ca.states[l].loading)
       \/ Standing(ca) = "loading" /\ ~ca.asked.lost
CaSettles == <>[]~Waits
=============================================================================
