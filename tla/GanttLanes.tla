----------------------------- MODULE GanttLanes -----------------------------
(***************************************************************************)
(* How the Gantt chart lays out the bars of its rows: the packer of        *)
(* components/reui/gantt/gantt-lib.tsx (packTimedSegments) and the layout  *)
(* pass of gantt-view.tsx, which remembers the lane every bar had and the  *)
(* times it had then, so that editing one schedule leaves the others alone.*)
(* A pass follows every change, in the same render.                        *)
(*                                                                         *)
(* Instants are small integers; a bar shorter than LnSlot takes that much  *)
(* room.  Items that do not overlap never hold each other's lane, so the   *)
(* packer's clusters need no counterpart here.                             *)
(***************************************************************************)
EXTENDS Integers, Sequences, FiniteSets, FiniteSetsExt, SequencesExt, Functions

CONSTANTS
    LnEvents,   \* ids of events, each with one occurrence
    LnRow,      \* the row of each event
    LnSingle,   \* rows in "single" mode: one track
    LnPlan,     \* the planned window (baseline) of some events
    LnDeps,     \* the predecessors each event lists
    LnDone,     \* the progress of some events, in percent
    LnSpans,    \* the times events may have: pairs of instants
    LnRanges,   \* the visible ranges
    LnSlot,     \* MIN_PACK_SLOT
    LnScenes    \* bounds: the events at first, and how often they change

VARIABLES
    lnTimes,    \* start and end of the events there are
    lnView,     \* visible range, folded rows and the draft of a drag-create
    lnMemory,   \* laneMemory: lane and times of each bar at the last pass
    lnShown,    \* the layout: lanes, ghosts, the draft's lane, arrows, the summary
    lnLeft      \* the scene, less what happened of it

lnVars == <<lnTimes, lnView, lnMemory, lnShown, lnLeft>>

LnRows == {LnRow[e] : e \in LnEvents}
Later(a, b) == IF a > b THEN a ELSE b
Earlier(a, b) == IF a < b THEN a ELSE b

-----------------------------------------------------------------------------
(* Time *)

\* occurrenceIntersects: half-open, except that a milestone counts at the start.
Intersects(t, r) == IF t[1] = t[2] THEN r[1] <= t[1] /\ t[1] < r[2]
                    ELSE t[1] < r[2] /\ t[2] > r[1]
\* The room a bar takes in the packer: cut to the range, at least a slot.
Room(t, r) == LET from == Later(t[1], r[1])
              IN  <<from, Later(Earlier(t[2], r[2]), from + LnSlot)>>
Overlap(a, b) == a[1] < b[2] /\ a[2] > b[1]

\* defaultEventOrder, and the packer's own: by start, the longer first, then by key.
Sooner(room, a, b) ==
    \/ room[a][1] < room[b][1]
    \/ room[a][1] = room[b][1] /\ room[a][2] > room[b][2]
    \/ room[a] = room[b] /\ a.n < b.n

-----------------------------------------------------------------------------
(* Packing one row *)

FreeIn(lanes, room, i, k) == \A j \in DOMAIN lanes \ {i} : lanes[j] = k => ~Overlap(room[i], room[j])
Lowest(P(_)) == CHOOSE k \in 0..Cardinality(LnEvents) :
                  P(k) /\ \A m \in 0..(k - 1) : ~P(m)
Claim(lanes, i, k) == [j \in DOMAIN lanes \cup {i} |-> IF j = i THEN k ELSE lanes[j]]

\* Pass 1: bars whose times are those remembered keep their lane, while it is free.
Untouched(times, memory, i) == i \in DOMAIN memory /\ memory[i].times = times[i]
KeepLanes(order, times, room, memory) ==
    FoldLeft(LAMBDA lanes, i :
               IF Untouched(times, memory, i) /\ FreeIn(lanes, room, i, memory[i].lane)
               THEN Claim(lanes, i, memory[i].lane) ELSE lanes, <<>>, order)
\* Pass 2: the others take the lowest free lane.
FillLanes(order, room, kept) ==
    FoldLeft(LAMBDA lanes, i :
               IF i \in DOMAIN lanes THEN lanes
               ELSE Claim(lanes, i, Lowest(LAMBDA k : FreeIn(lanes, room, i, k))), kept, order)
\* Pass 3: nothing floats above an empty lane.
SettleLanes(order, room, filled) ==
    FoldLeft(LAMBDA lanes, i : Claim(lanes, i, Lowest(LAMBDA k : k = lanes[i] \/ FreeIn(lanes, room, i, k))),
             filled,
             SortSeq(order, LAMBDA a, b : \/ filled[a] < filled[b]
                                          \/ filled[a] = filled[b] /\ room[a][1] < room[b][1]))
\* Used lanes close up.
CompactLanes(lanes) ==
    [i \in DOMAIN lanes |-> Cardinality({lanes[j] : j \in DOMAIN lanes} \cap 0..(lanes[i] - 1))]

\* packTimedSegments.
PackLanes(mine, times, range, memory, single) ==
    LET room == [i \in mine |-> Room(times[i], range)]
        order == SetToSortSeq(mine, LAMBDA a, b : Sooner(room, a, b))
    IN  IF single THEN [i \in mine |-> 0]
        ELSE CompactLanes(SettleLanes(order, room,
                            FillLanes(order, room, KeepLanes(order, times, room, memory))))

-----------------------------------------------------------------------------
(* The layout pass *)

\* lowestFreeLane, for a window among the bars of a row; both are padded.
Padded(t) == <<t[1], Later(t[2], t[1] + LnSlot)>>
\* Mutant of LowestFreeLane: bars are tried at their true length.
LowestFreeLaneUnpadded(lanes, times, window) ==
    Lowest(LAMBDA k : \A i \in DOMAIN lanes : lanes[i] = k => ~Overlap(times[i], window))
LowestFreeLane(lanes, times, window) ==
    Lowest(LAMBDA k : \A i \in DOMAIN lanes : lanes[i] = k => ~Overlap(Padded(times[i]), Padded(window)))

\* Bars shown: buildEventIndex keeps what meets the range, rows show their own.
ShownBars(times, view) ==
    {e \in DOMAIN times : Intersects(times[e], view.range) /\ LnRow[e] \notin view.folded}
OnRow(lanes, r) == [e \in {b \in DOMAIN lanes : LnRow[b] = r} |-> lanes[e]]
LaneCount(lanes) == Cardinality({lanes[e] : e \in DOMAIN lanes} \cup {0})

\* resolveEventBaseline: a window that ends before it starts is no plan.
Planned == {e \in DOMAIN LnPlan : LnPlan[e][1] <= LnPlan[e][2]}
\* A planned milestone on the end of the range still shows.
PlanShown(e, range) == IF LnPlan[e][1] = LnPlan[e][2] THEN LnPlan[e][1] \in range[1]..range[2]
                       ELSE Overlap(LnPlan[e], range)
\* getBaselineVariance, of the events there are.
Late(times, e) == e \in DOMAIN times /\ times[e][2] > LnPlan[e][2]

\* The ghost of a plan rides its bar's lane; without a bar in the range it takes a
\* lane free for its window, and is left out when the row has none.
GhostLanes(lanes, times, view) ==
    LET row(e) == OnRow(lanes, LnRow[e])
        free(e) == LowestFreeLane(row(e), times, LnPlan[e])
        shown == {e \in DOMAIN times \cap Planned :
                    /\ LnRow[e] \notin view.folded /\ PlanShown(e, view.range)
                    /\ e \in DOMAIN lanes \/ LnRow[e] \in LnSingle \/ row(e) = <<>>
                       \/ free(e) < LaneCount(row(e))}
    IN  [e \in shown |-> CASE e \in DOMAIN lanes -> lanes[e]
                           [] e \notin DOMAIN lanes /\ (LnRow[e] \in LnSingle \/ row(e) = <<>>) -> 0
                           [] OTHER -> free(e)]

\* rowBars: the lane a drag-create in flight is drawn on; it changes no other row
\* and no bar of its own.
DraftLane(lanes, times, view) ==
    IF view.draft = <<>> \/ view.draft[1] \in view.folded THEN -1
    ELSE IF view.draft[1] \in LnSingle THEN 0
    ELSE LowestFreeLane(OnRow(lanes, view.draft[1]), times, view.draft[2])

\* laneBlockRem: the tracks a row is high, the draft's among them.
RowTracks(lanes, r, draft, view) ==
    IF r \in view.folded THEN 0
    ELSE IF view.draft # <<>> /\ view.draft[1] = r THEN Later(LaneCount(lanes), draft + 1)
    ELSE LaneCount(lanes)

\* dependencyEdges: between bars that are both shown.
Edges(bars) == {<<d, e>> \in bars \X bars : d # e /\ d \in LnDeps[e]}

\* The rollup of the group: the envelope of the bars in the range, folded or not, and
\* the progress of all events, weighted by their length (subtreeProgress).
Summary(times, view) ==
    LET bars == {e \in DOMAIN times : Intersects(times[e], view.range)}
        from == Min({Later(times[e][1], view.range[1]) : e \in bars})
        to == Max({Earlier(times[e][2], view.range[2]) : e \in bars})
        long(e) == Later(times[e][2] - times[e][1], 1)
        total == MapThenSumSet(long, DOMAIN times)
        done == MapThenSumSet(LAMBDA e : LnDone[e] * long(e), DOMAIN times \cap DOMAIN LnDone)
    IN  IF bars = {} \/ to <= from THEN <<>>
        ELSE <<from, to, IF DOMAIN times \cap DOMAIN LnDone = {} THEN -1
                         ELSE (2 * done + total) \div (2 * total)>>

\* baseRowBars and rowBars.
Layout(times, view, memory) ==
    LET bars == ShownBars(times, view)
        packed == [r \in LnRows |-> PackLanes({e \in bars : LnRow[e] = r}, times, view.range,
                                            memory, r \in LnSingle)]
        lanes == [e \in bars |-> packed[LnRow[e]][e]]
    IN  [lanes |-> lanes, ghosts |-> GhostLanes(lanes, times, view),
         draft |-> DraftLane(lanes, times, view), edges |-> Edges(bars),
         summary |-> Summary(times, view), late |-> {e \in Planned : Late(times, e)},
         tracks |-> [r \in LnRows |-> RowTracks(OnRow(lanes, r), r, DraftLane(lanes, times, view), view)]]

\* The pass remembers the bars it placed, and forgets the others.
Render(times, view, memory) ==
    /\ lnTimes' = times /\ lnView' = view
    /\ lnShown' = Layout(times, view, memory)
    /\ lnMemory' = [e \in ShownBars(times, view) |->
                      [lane |-> Layout(times, view, memory).lanes[e], times |-> times[e]]]

-----------------------------------------------------------------------------
(* Changes *)

Changes(what) == lnLeft[what] > 0 /\ lnLeft' = [lnLeft EXCEPT ![what] = @ - 1]

\* applyProposedUpdate: an event's times change.
EditEvent(e, t) ==
    /\ e \in DOMAIN lnTimes /\ lnTimes[e] # t /\ Changes("edits")
    /\ Render([lnTimes EXCEPT ![e] = t], lnView, lnMemory)
\* removeEvent.
RemoveEvent(e) ==
    /\ e \in DOMAIN lnTimes /\ Changes("edits")
    /\ Render(Restrict(lnTimes, DOMAIN lnTimes \ {e}), lnView, lnMemory)
\* setSlotDraft: a drag on the empty track of a row.
DraftEvent(r, t) ==
    /\ lnView.draft = <<>> /\ r \notin lnView.folded /\ t[1] < t[2] /\ Changes("drafts")
    /\ lnView.range[1] <= t[1] /\ t[2] <= lnView.range[2]
    /\ Render(lnTimes, [lnView EXCEPT !.draft = <<r, t>>], lnMemory)
\* Released: the consumer adds an event at the draft (addEvent), or does not.
EndDraft(e) ==
    /\ lnView.draft # <<>> /\ e \in LnEvents \ DOMAIN lnTimes /\ LnRow[e] = lnView.draft[1]
    /\ \E add \in {TRUE, FALSE} :
         Render(IF add THEN [x \in DOMAIN lnTimes \cup {e} |->
                               IF x = e THEN lnView.draft[2] ELSE lnTimes[x]]
                ELSE lnTimes, [lnView EXCEPT !.draft = <<>>], lnMemory)
    /\ UNCHANGED lnLeft
\* The range is extended, or navigated; rows are folded.  Either cancels the gesture.
MoveRange(r) ==
    /\ r # lnView.range /\ Changes("views")
    /\ Render(lnTimes, [lnView EXCEPT !.range = r, !.draft = <<>>], lnMemory)
FoldRow(r) ==
    /\ Changes("views")
    /\ Render(lnTimes, [lnView EXCEPT !.folded = IF r \in @ THEN @ \ {r} ELSE @ \cup {r},
                                     !.draft = <<>>], lnMemory)

LnInit ==
    /\ lnLeft \in LnScenes
    /\ lnTimes \in [lnLeft.events -> LnSpans]
    /\ lnView = [range |-> lnLeft.range, folded |-> {}, draft |-> <<>>]
    /\ lnShown = Layout(lnTimes, lnView, <<>>)
    /\ lnMemory = [e \in ShownBars(lnTimes, lnView) |->
                     [lane |-> lnShown.lanes[e], times |-> lnTimes[e]]]

LnNext ==
    \/ \E e \in LnEvents : RemoveEvent(e) \/ EndDraft(e) \/ \E t \in LnSpans : EditEvent(e, t)
    \/ \E r \in LnRows : FoldRow(r) \/ \E t \in LnSpans : DraftEvent(r, t)
    \/ \E r \in LnRanges : MoveRange(r)

-----------------------------------------------------------------------------

\* What a gesture shows is what it does: an event added at the draft takes the lane
\* the draft was drawn on (when the range cuts no bar below a slot), and no change
\* of one event moves an untouched bar to a higher lane (lowestFreeLane and the
\* lane memory against packTimedSegments).
PromisedLane ==
    [][LET same == DOMAIN lnShown.lanes \cap DOMAIN lnShown'.lanes
           added == DOMAIN lnTimes' \ DOMAIN lnTimes
           cut == \E e \in DOMAIN lnShown.lanes : Room(lnTimes[e], lnView.range)[2] > Padded(lnTimes[e])[2]
       IN  lnView'.range = lnView.range /\ lnView'.folded = lnView.folded =>
             /\ \A e \in same : lnTimes'[e] = lnTimes[e] => lnShown'.lanes[e] <= lnShown.lanes[e]
             /\ ~cut => \A e \in added : lnShown'.lanes[e] = lnShown.draft]_lnVars

=============================================================================
