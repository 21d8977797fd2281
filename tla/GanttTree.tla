----------------------------- MODULE GanttTree -----------------------------
(***************************************************************************)
(* The rows of the Gantt chart (components/reui/gantt/gantt-view.tsx): the *)
(* tree of resources flattened to rows, folding, row selection, dragging a *)
(* row to another place of the tree (with reorderResources of              *)
(* gantt-lib.tsx), the splitter between the panes and the two panes'       *)
(* linked vertical scrolling.                                              *)
(*                                                                         *)
(* A tree gives every node, and the root, the sequence of its children.    *)
(* Positions and widths are small numbers.                                 *)
(***************************************************************************)
EXTENDS Integers, Sequences, FiniteSets, SequencesExt

CONSTANTS
    TrNodes,      \* ids of resources
    TrRoot,       \* no resource: the parent of the top level (null)
    TrTrees,      \* the lists of resources the consumer passes at first
    TrAllows(_, _, _),  \* canReorderResource: may this row go to this index of this parent
    TrWidths,     \* widths the panes and the container may have
    TrConfig,     \* the splitter's minWidth, maxWidth, width and minTimelineWidth
    TrScenes      \* bounds: toggles, drags, replaced lists, splits, scrolls

VARIABLES
    trTree,       \* the consumer's resources
    trRows,       \* collapsed and selected rows
    trDrag,       \* row drags under way, with the rows and tree they started from
    trSplit,      \* the container, the tree pane's width and the drags of the splitter
    trTops,       \* scrollTop of the panes, the last one each link saw, events to come
    trLeft        \* the scene, less what happened of it

trVars == <<trTree, trRows, trDrag, trSplit, trTops, trLeft>>
Panes == {"tree", "timeline"}
Opposite == [tree |-> "timeline", timeline |-> "tree"]
Spend(what) == trLeft[what] > 0 /\ trLeft' = [trLeft EXCEPT ![what] = @ - 1]

-----------------------------------------------------------------------------
(* Trees *)

\* The rows below a node: every child, and its own rows unless it is folded
\* (flattenResources with nothing folded).
Flatten(tree, folded) ==
    LET walk[p \in TrNodes \cup {TrRoot}] ==
          FlattenSeq([i \in DOMAIN tree[p] |->
                        <<tree[p][i]>> \o IF tree[p][i] \in folded THEN <<>> ELSE walk[tree[p][i]]])
    IN  walk
RowsOf(tree, folded) == Flatten(tree, folded)[TrRoot]
\* findResource.
InTree(tree, n) == n \in ToSet(RowsOf(tree, {}))
ParentOf(tree, n) == CHOOSE p \in TrNodes \cup {TrRoot} : n \in ToSet(tree[p])
\* descendantIds.
Below(tree, n) == ToSet(Flatten(tree, {})[n])
IsGroup(tree, n) == tree[n] # <<>>

\* reorderResources: take the node out and put it back under a parent, at an index
\* its list has; never into its own subtree, nor under a parent that is not there.
Reordered(tree, n, parent, index) ==
    LET stripped == [p \in DOMAIN tree |-> SelectSeq(tree[p], LAMBDA m : m # n)]
        at == 1 + IF index < Len(stripped[parent]) THEN index ELSE Len(stripped[parent])
    IN  IF \/ ~InTree(tree, n)
           \/ parent \in {n} \cup Below(tree, n)
           \/ parent # TrRoot /\ ~InTree(tree, parent)
        THEN {} ELSE {[stripped EXCEPT ![parent] = InsertAt(@, at, n)]}

-----------------------------------------------------------------------------
(* Dragging a row *)

\* A proposal: where the row goes, and the list with the row there.  A set: empty
\* when the move is impossible.
RowProposal(d, parent, index) ==
    {[parent |-> parent, index |-> index, tree |-> tree,
      valid |-> TrAllows(d.row, parent, index)]
       : tree \in Reordered(d.tree, d.row, parent, index)}

\* Mutant of Propose: the dragged row is counted among those above the gap.
ProposeCountingItself(d, gap) ==
    LET par(i) == ParentOf(d.tree, d.rows[i])
        parent == IF gap <= Len(d.rows) /\ par(gap) # TrRoot THEN par(gap) ELSE par(Len(d.rows))
    IN  RowProposal(d, parent, Cardinality({i \in 1..(gap - 1) : par(i) = parent}))

\* propose: the parent of the row below the gap or, without one, of the last row;
\* a row at the top level has none either.  The rows, the list and the consumer's
\* canReorderResource are those of the press.
Propose(d, gap) ==
    LET par(i) == ParentOf(d.tree, d.rows[i])
        parent == IF gap <= Len(d.rows) /\ par(gap) # TrRoot THEN par(gap) ELSE par(Len(d.rows))
        index == Cardinality({i \in 1..(gap - 1) : par(i) = parent /\ d.rows[i] # d.row})
    IN  RowProposal(d, parent, index)

\* beginRowReorder: rows and resources are those of this render.
BeginRowReorder(n) ==
    /\ trDrag = {} /\ n \in ToSet(RowsOf(trTree, trRows.folded)) /\ Spend("drags")
    /\ trDrag' = {[row |-> n, rows |-> RowsOf(trTree, trRows.folded), tree |-> trTree,
                   gap |-> 0, to |-> {}]}
    /\ UNCHANGED <<trTree, trRows, trSplit, trTops>>

\* onMove: a proposal for every gap the pointer comes to.
MoveRow(d, gap) ==
    /\ gap \in 1..(Len(d.rows) + 1) /\ gap # d.gap
    /\ trDrag' = {[d EXCEPT !.gap = gap, !.to = Propose(d, gap)]}
    /\ UNCHANGED <<trTree, trRows, trSplit, trTops, trLeft>>

\* finish(true): the consumer adopts the proposed list, whatever list it passed
\* since the press.  Where the row cannot go nothing is called, and where the
\* consumer does not allow it onResourceReorderReject is, which changes no list.
DropRow(d) ==
    /\ trTree' = IF \E to \in d.to : to.valid THEN (CHOOSE to \in d.to : TRUE).tree ELSE trTree
    /\ trDrag' = {}
    /\ UNCHANGED <<trRows, trSplit, trTops, trLeft>>
\* finish(false): Escape or a cancelled pointer.
CancelRow(d) ==
    /\ trDrag' = {} /\ UNCHANGED <<trTree, trRows, trSplit, trTops, trLeft>>

\* The consumer passes another list: a node comes at the end or a leaf goes.
ReplaceResources ==
    /\ Spend("lists")
    /\ \/ \E n \in TrNodes : /\ ~InTree(trTree, n)
                             /\ trTree' = [trTree EXCEPT ![TrRoot] = Append(@, n), ![n] = <<>>]
       \/ \E n \in TrNodes : /\ InTree(trTree, n) /\ trTree[n] = <<>>
                             /\ trTree' = [p \in DOMAIN trTree |->
                                             SelectSeq(trTree[p], LAMBDA m : m # n)]
    /\ UNCHANGED <<trRows, trDrag, trSplit, trTops>>

-----------------------------------------------------------------------------
(* Folding and selection: groups fold, leaves have a checkbox *)

Flip(S, n) == IF n \in S THEN S \ {n} ELSE S \cup {n}

\* onToggleRow.
ToggleRow(n) ==
    /\ n \in ToSet(RowsOf(trTree, trRows.folded)) /\ IsGroup(trTree, n) /\ Spend("toggles")
    /\ trRows' = [trRows EXCEPT !.folded = Flip(@, n)]
    /\ UNCHANGED <<trTree, trDrag, trSplit, trTops>>

\* toggleRowSelected: a row ticked goes to the end of the selection.
ToggleRowSelected(n) ==
    /\ n \in ToSet(RowsOf(trTree, trRows.folded)) /\ ~IsGroup(trTree, n) /\ Spend("toggles")
    /\ trRows' = [trRows EXCEPT !.selected =
                    IF n \in ToSet(@) THEN SelectSeq(@, LAMBDA m : m # n) ELSE Append(@, n)]
    /\ UNCHANGED <<trTree, trDrag, trSplit, trTops>>

-----------------------------------------------------------------------------
(* The splitter *)

Least(a, b) == IF a < b THEN a ELSE b
Most(a, b) == IF a > b THEN a ELSE b
ClampTree(w) == Least(Most(w, TrConfig.minWidth), TrConfig.maxWidth)

\* clampContainer: the timeline keeps its width, at the cost of the tree's minimum.
ClampContainer(w, box) ==
    LET ceiling == box - TrConfig.minTimeline - 1
        floor == Least(TrConfig.minWidth, Most(ceiling, 0))
    IN  IF box <= 0 THEN w ELSE Most(Least(w, ceiling), Least(floor, box - 1))

Clamped == ClampContainer(ClampTree(trSplit.width), trSplit.box)
ShownWidth == IF trSplit.live = {} THEN Clamped ELSE CHOOSE w \in trSplit.live : TRUE

SplitStep(next) == trSplit' = next /\ UNCHANGED <<trTree, trRows, trDrag, trTops>>
\* beginSplit: the width lives in the DOM until the pointer is released.
BeginSplit ==
    /\ trSplit.from = {} /\ Spend("splits")
    /\ SplitStep([trSplit EXCEPT !.from = {Clamped}, !.live = {Clamped}])
MoveSplit(w) ==
    /\ trSplit.from # {} /\ UNCHANGED trLeft
    /\ SplitStep([trSplit EXCEPT !.live = {ClampContainer(ClampTree(w), trSplit.box)}])
EndSplit ==
    /\ trSplit.from # {} /\ UNCHANGED trLeft
    /\ SplitStep([trSplit EXCEPT !.from = {}, !.live = {},
                                 !.width = IF trSplit.live = trSplit.from THEN @ ELSE ShownWidth])
\* The arrow keys move it from where it is shown, a double click puts it back.
NudgeSplit ==
    /\ trSplit.from = {} /\ Spend("splits")
    /\ \E w \in {ClampTree(Clamped - 1), ClampTree(Clamped + 1), TrConfig.width} :
         SplitStep([trSplit EXCEPT !.width = w])
\* The observer reports the container's width.
ResizeContainer ==
    /\ Spend("splits")
    /\ \E box \in TrWidths : SplitStep([trSplit EXCEPT !.box = box])

-----------------------------------------------------------------------------
(* Linked scrolling *)

ScrollStep(next) == trTops' = next /\ UNCHANGED <<trTree, trRows, trDrag, trSplit>>
\* A pane scrolled by its bar, the keyboard or touch.
ScrollPane(p, y) ==
    /\ y # trTops.top[p] /\ Spend("scrolls")
    /\ ScrollStep([trTops EXCEPT !.top[p] = y, !.events = @ \cup {p}])
\* A wheel moves both panes in one handler.
WheelPanes(y) ==
    /\ y # trTops.top["timeline"] /\ Spend("scrolls")
    /\ ScrollStep([trTops EXCEPT !.top = [p \in Panes |-> y], !.events = Panes])
\* onScroll of link: mirror only a move of the pane's own.
LinkScroll(p) ==
    /\ p \in trTops.events /\ UNCHANGED trLeft
    /\ ScrollStep(
         IF trTops.top[p] = trTops.last[p] THEN [trTops EXCEPT !.events = @ \ {p}]
         ELSE [trTops EXCEPT !.last[p] = trTops.top[p], !.top[Opposite[p]] = trTops.top[p],
                             !.events = (@ \ {p}) \cup
                               (IF trTops.top[Opposite[p]] = trTops.top[p]
                                THEN {} ELSE {Opposite[p]})])

-----------------------------------------------------------------------------

TrInit ==
    /\ trLeft \in TrScenes /\ trTree \in TrTrees
    /\ trRows = [folded |-> {}, selected |-> <<>>]
    /\ trDrag = {}
    /\ trSplit = [width |-> TrConfig.width, box |-> 0, from |-> {}, live |-> {}]
    /\ trTops = [top |-> [p \in Panes |-> 0], last |-> [p \in Panes |-> 0], events |-> {}]

TrNext ==
    \/ \E n \in TrNodes : BeginRowReorder(n) \/ ToggleRow(n) \/ ToggleRowSelected(n)
    \/ \E d \in trDrag : \/ \E gap \in 1..(Len(d.rows) + 1) : MoveRow(d, gap)
                         \/ DropRow(d) \/ CancelRow(d)
    \/ ReplaceResources
    \/ BeginSplit \/ EndSplit \/ NudgeSplit \/ ResizeContainer
    \/ \E w \in TrWidths : MoveSplit(w)
    \/ \E p \in Panes : LinkScroll(p) \/ \E y \in 0..1 : ScrollPane(p, y)
    \/ \E y \in 0..1 : WheelPanes(y)

-----------------------------------------------------------------------------

\* The place a drag shows: the gap is above a row of the top level while the last
\* row is nested, which the code takes for the end of that row's group.
Misplaced(d) == /\ d.gap <= Len(d.rows)
                /\ ParentOf(d.tree, d.rows[d.gap]) = TrRoot
                /\ ParentOf(d.tree, Last(d.rows)) # TrRoot

\* A dropped row lands right above the row under the gap (which may be itself), or
\* last among the siblings of the last row; every other row stays where it was at the press, none is
\* lost or doubled, none ends inside itself, and the consumer allows the place.  That
\* is said of the list at the press: one the consumer passed during the drag is
\* replaced by it, so its new rows go and the rows it dropped are back (propose, finish
\* and reorderResources; not for gaps above a row of the top level when the last row
\* is nested, see Misplaced).
LandsInTheGap ==
    [][\A d \in trDrag :
         trDrag' = {} /\ trTree' # trTree /\ ~Misplaced(d) =>
           LET others(tree) == SelectSeq(RowsOf(tree, {}), LAMBDA m : m \notin {d.row} \cup Below(d.tree, d.row))
               rows == RowsOf(trTree', {})
               parent == ParentOf(trTree', d.row)
               siblings == trTree'[parent]
               i == CHOOSE j \in DOMAIN siblings : siblings[j] = d.row
           IN  /\ ToSet(rows) = ToSet(RowsOf(d.tree, {})) /\ Len(rows) = Len(RowsOf(d.tree, {}))
               /\ others(trTree') = others(d.tree)
               /\ TrAllows(d.row, parent, i - 1)
               /\ IF d.gap > Len(d.rows) THEN i = Len(siblings)
                  ELSE \/ i < Len(siblings) /\ siblings[i + 1] = d.rows[d.gap]
                       \/ trTree' = d.tree /\ d.rows[d.gap] = d.row]_trVars

=============================================================================
