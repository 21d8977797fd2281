----------------------------- MODULE GanttDrag ------------------------------
(***************************************************************************)
(* Pointer gestures on the Gantt chart (components/reui/gantt/             *)
(* gantt-dnd.tsx, gantt-bar.tsx and the rows of gantt-view.tsx): moving    *)
(* and resizing bars, painting a new slot, and the clicks between.  Every  *)
(* press starts a gesture of its own (beginGesture); the gestures share    *)
(* one drag and one draft in the store, and each commits what it finds     *)
(* there when it is released.                                              *)
(*                                                                         *)
(* A pixel is a minute.  A pointer is the mouse or a finger.               *)
(***************************************************************************)
EXTENDS Integers, Sequences, FiniteSets, FiniteSetsExt, SequencesExt, Functions

CONSTANTS
    GdEvents,    \* ids of events
    GdRowOf,     \* the row of each
    GdFixed,     \* events that are read-only
    GdRows,      \* rows
    GdSingle,    \* rows in "single" mode
    GdStatic,    \* group rows, which take no scheduling gesture
    GdPointers, GdTouch,   \* pointers, and which of them are fingers
    GdPixels,    \* where pointers go
    GdEnd,       \* the range is 0..GdEnd
    GdPane,      \* how much of it the viewport shows
    GdSnap,      \* the snap
    GdLocked,    \* instants the consumer takes no slot or drop on
    GdScenes     \* the events' times, the options, and bounds on what happens

VARIABLES
    gdTimes,     \* start and end of the events there are
    gdHands,     \* the gesture of each pointer, <<>> without one
    gdStore,     \* drag, slotDraft and selection of the store
    gdPane,      \* scroll position, hint, and whether a gesture just ended
    gdLeft       \* the scene, less what happened of it

gdVars == <<gdTimes, gdHands, gdStore, gdPane, gdLeft>>

Bound(x, low, high) == Max({low, Min({x, high})})
\* snapMinutes.
Snapped(m) == ((m + GdSnap \div 2) \div GdSnap) * GdSnap
\* surfaceMinutesAt, on the surface as it was measured.
MinutesAt(g, x) == Bound(x + g.pan, 0, GdEnd)
Meets(a, b) == a[1] < b[2] /\ a[2] > b[1]
Happens(what) == gdLeft[what] > 0 /\ gdLeft' = [gdLeft EXCEPT ![what] = @ - 1]

-----------------------------------------------------------------------------
(* Neighbours *)

Policy(g) == IF g.row \in GdSingle THEN "reject" ELSE gdLeft.overlap
NeighboursOf(ev) == {gdTimes[o] : o \in {e \in DOMAIN gdTimes \ {ev} : GdRowOf[e] = GdRowOf[ev]}}
\* getNeighbours: read when a proposal first needs them, then kept.
Mates(g) == IF g.kind = "create" \/ Policy(g) = "allow" THEN {}
            ELSE IF g.read THEN g.mates ELSE NeighboursOf(g.ev)
\* clampToNeighbours: against those clear of the bar as it was picked up.
ClampToNeighbours(g, t) ==
    LET floor == Max({m[2] : m \in {n \in Mates(g) : n[2] <= g.was[1]}} \cup {-GdEnd})
        ceiling == Min({m[1] : m \in {n \in Mates(g) : ~(n[2] <= g.was[1]) /\ n[1] >= g.was[2]}}
                       \cup {2 * GdEnd})
        long == t[2] - t[1]
        from == Min({Max({t[1], floor}), ceiling - long})
    IN  CASE Policy(g) # "clamp" -> t
          [] Policy(g) = "clamp" /\ g.kind = "resize-start" -> <<Min({Max({t[1], floor}), t[2]}), t[2]>>
          [] Policy(g) = "clamp" /\ g.kind = "resize-end" -> <<t[1], Max({Min({t[2], ceiling}), t[1]})>>
          [] Policy(g) = "clamp" /\ g.kind = "move" ->
               <<Max({from, floor}), Max({from, floor}) + long>>

-----------------------------------------------------------------------------
(* Proposals *)

\* computeProposal.
MoveTo(g, x) == LET from == Snapped(MinutesAt(g, x) - g.grab)
                IN  <<from, from + g.was[2] - g.was[1]>>
StartTo(g, x) == <<Min({Bound(Snapped(MinutesAt(g, x)), 0, GdEnd), g.was[2] - GdSnap}), g.was[2]>>
EndTo(g, x) == <<g.was[1], Max({Min({Snapped(MinutesAt(g, x)), GdEnd}), g.was[1] + GdSnap})>>
Painted(g, x) ==
    LET a == Snapped(MinutesAt(g, g.from)) b == Snapped(MinutesAt(g, x))
    IN  <<Min({a, b}), Max({a, b, Min({a, b}) + GdSnap})>>
Proposal(g, x) ==
    CASE g.kind = "move" -> ClampToNeighbours(g, MoveTo(g, x))
      [] g.kind = "resize-start" -> ClampToNeighbours(g, StartTo(g, x))
      [] g.kind = "resize-end" -> ClampToNeighbours(g, EndTo(g, x))
      [] g.kind = "create" -> Painted(g, x)

\* canSelectSlot and canDropEvent of the consumer.
Allowed(t) == \A m \in GdLocked : ~(t[1] <= m /\ m < t[2])

\* applyProposal: a proposal that is new goes to the store; a vetoed slot leaves the
\* draft of before.
ApplyProposal(p, g, x) ==
    LET t == Proposal(g, x)
        hit == Policy(g) = "reject" /\ \E m \in Mates(g) : Meets(m, t)
        moved == [g EXCEPT !.at = x]
        asked == [moved EXCEPT !.key = t, !.read = TRUE, !.mates = Mates(g),
                               !.rejected = IF g.kind = "create" THEN @ ELSE hit]
    IN  IF t = g.key THEN gdHands' = [gdHands EXCEPT ![p] = moved] /\ UNCHANGED gdStore
        ELSE /\ gdHands' = [gdHands EXCEPT ![p] = asked]
             /\ IF g.kind # "create"
                THEN gdStore' = [gdStore EXCEPT !.drag = [kind |-> g.kind, ev |-> g.ev, times |-> t,
                                                          valid |-> ~hit /\ Allowed(t)]]
                ELSE gdStore' = [gdStore EXCEPT !.draft = IF Allowed(t) THEN [row |-> g.row, times |-> t] ELSE @]

-----------------------------------------------------------------------------
(* The life of a gesture *)

Gesture(kind, ev, row, x, active) ==
    [kind |-> kind, ev |-> ev, row |-> row, was |-> IF ev \in DOMAIN gdTimes THEN gdTimes[ev] ELSE <<>>,
     from |-> x, at |-> x, active |-> active, pan |-> gdPane.scroll, grab |-> 0,
     key |-> <<>>, read |-> FALSE, mates |-> {}, rejected |-> FALSE]
Pressed(p, g) ==
    /\ gdHands[p] = <<>> /\ Happens("presses")
    /\ gdHands' = [gdHands EXCEPT ![p] = g]
    /\ UNCHANGED <<gdTimes, gdStore, gdPane>>

\* A bar is pressed; canDrag.
BeginMove(p, ev, x) ==
    /\ ev \in DOMAIN gdTimes \ GdFixed
    /\ x + gdPane.scroll \in gdTimes[ev][1]..gdTimes[ev][2]
    /\ Pressed(p, Gesture("move", ev, GdRowOf[ev], x, FALSE))
\* One of its handles is; canResize.  A precise pointer starts at once.
BeginResize(p, ev, edge) ==
    /\ ev \in DOMAIN gdTimes \ GdFixed /\ gdTimes[ev][1] < gdTimes[ev][2]
    /\ \E x \in GdPixels :
         /\ x + gdPane.scroll = IF edge = "resize-start" THEN gdTimes[ev][1] ELSE gdTimes[ev][2]
         /\ Pressed(p, Gesture(edge, ev, GdRowOf[ev], x, p \notin GdTouch))
\* The empty track is, where the consumer would take a slot (resolveHintStop).
StopAt(m) == LET from == (m \div GdSnap) * GdSnap IN <<from, Min({from + GdSnap, GdEnd})>>
OnTrack(r, x) == r \notin GdStatic /\ \A e \in DOMAIN gdTimes :
    GdRowOf[e] = r => x + gdPane.scroll \notin gdTimes[e][1]..gdTimes[e][2]
BeginCreate(p, r, x) ==
    /\ gdLeft.paint /\ OnTrack(r, x) /\ Allowed(StopAt(x + gdPane.scroll))
    /\ Pressed(p, Gesture("create", "none", r, x, FALSE))

\* activate: the surface is measured, and where in the bar it was taken.
Activate(g) ==
    [g EXCEPT !.active = TRUE, !.pan = gdPane.scroll,
              !.grab = IF g.kind = "move" THEN Bound(g.from + gdPane.scroll, 0, GdEnd) - g.was[1] ELSE 0]

Far(g, x) == x # g.from   \* past moveDistancePx, createDistancePx, touchTolerancePx
\* cleanup and cancel: both the drag and the draft go, whosever they are.
\* Mutant of Dropped: a cancelled paint leaves its draft in the store.
DroppedDragOnly(g) == IF g.active THEN [gdStore EXCEPT !.drag = <<>>] ELSE gdStore
Dropped(g) == IF g.active THEN [gdStore EXCEPT !.drag = <<>>, !.draft = <<>>] ELSE gdStore
Cancel(p) ==
    /\ gdHands[p] # <<>>
    /\ gdHands' = [gdHands EXCEPT ![p] = <<>>]
    /\ gdStore' = Dropped(gdHands[p])
    /\ gdPane' = [gdPane EXCEPT !.recent = @ \/ gdHands[p].active]
    /\ UNCHANGED <<gdTimes, gdLeft>>
\* onPointerMove.
PointerMove(p, x) ==
    LET g == gdHands[p]
    IN  /\ g # <<>> /\ x # g.at /\ Happens("moves")
        /\ IF g.active THEN ApplyProposal(p, g, x)
           ELSE IF p \in GdTouch
                THEN /\ Far(g, x) /\ UNCHANGED gdStore          \* a scroll, not a drag
                     /\ gdHands' = [gdHands EXCEPT ![p] = <<>>]
                ELSE Far(g, x) /\ ApplyProposal(p, Activate(g), x)
        /\ gdPane' = [gdPane EXCEPT !.hint = <<>>]
        /\ UNCHANGED gdTimes
\* The timer of a long press.
LongPress(p) ==
    /\ p \in GdTouch /\ gdHands[p] # <<>> /\ ~gdHands[p].active
    /\ ApplyProposal(p, Activate(gdHands[p]), gdHands[p].at)
    /\ UNCHANGED <<gdTimes, gdPane, gdLeft>>
\* autoScrollTick: near an edge the pane scrolls and the proposal follows.
AutoScroll(p) ==
    LET g == gdHands[p]
        to == Bound(gdPane.scroll + (IF g.at <= 0 THEN -GdSnap ELSE GdSnap), 0, GdEnd - GdPane)
    IN  /\ g # <<>> /\ g.active /\ g.at \notin 1..(GdPane - 1) /\ to # gdPane.scroll
        /\ ApplyProposal(p, [g EXCEPT !.pan = to], g.at)
        /\ gdPane' = [gdPane EXCEPT !.scroll = to]
        /\ UNCHANGED <<gdTimes, gdLeft>>

\* A click ends every press; it counts unless a gesture ended within 250 ms.
ClickTrack(x, store) ==
    LET stop == StopAt(x + gdPane.scroll)
    IN  IF Allowed(stop) THEN [store EXCEPT !.slot = stop] ELSE store
ClickBar(ev, store) == [store EXCEPT !.picked = ev]
\* onPointerUp of a paint: whatever draft the store holds is selected.
ReleasePaint(p) ==
    LET g == gdHands[p] draft == gdStore.draft
    IN  /\ g # <<>> /\ g.kind = "create" /\ g.active
        /\ gdStore' = [gdStore EXCEPT !.draft = <<>>, !.slot = IF draft = <<>> THEN @ ELSE draft.times]
        /\ gdHands' = [gdHands EXCEPT ![p] = <<>>]
        /\ gdPane' = [gdPane EXCEPT !.recent = TRUE, !.hint = <<>>]
        /\ UNCHANGED <<gdTimes, gdLeft>>
\* onPointerUp of a press that never became a gesture.
ReleasePress(p) ==
    LET g == gdHands[p]
    IN  /\ g # <<>> /\ ~g.active
        /\ gdStore' = IF gdPane.recent THEN gdStore 
                   ELSE IF g.kind = "create" THEN ClickTrack(g.at, gdStore) ELSE ClickBar(g.ev, gdStore)
        /\ gdHands' = [gdHands EXCEPT ![p] = <<>>]
        /\ gdPane' = [gdPane EXCEPT !.hint = IF gdPane.recent THEN @ ELSE <<>>]
        /\ UNCHANGED <<gdTimes, gdLeft>>
\* onPointerUp of a move or resize: the drag the store holds is committed for the
\* gesture's event, unless refused, unchanged or turned down by the consumer.
Commits(g) ==
    /\ gdStore.drag # <<>> /\ ~g.rejected
    /\ gdLeft.enforce => gdStore.drag.valid
    /\ gdStore.drag.times # g.was
ReleaseBar(p, accepted) ==
    LET g == gdHands[p]
    IN  /\ g # <<>> /\ g.kind # "create" /\ g.active
        /\ gdTimes' = IF Commits(g) /\ accepted /\ g.ev \in DOMAIN gdTimes
                      THEN [gdTimes EXCEPT ![g.ev] = gdStore.drag.times] ELSE gdTimes
        /\ gdStore' = [gdStore EXCEPT !.drag = <<>>]
        /\ gdHands' = [gdHands EXCEPT ![p] = <<>>]
        /\ gdPane' = [gdPane EXCEPT !.recent = TRUE]
        /\ UNCHANGED gdLeft

\* cancelActiveGanttGestures: zoom, scale, range or the number of rows changed, the
\* view unmounts; Escape and the loss of focus do the same.
CancelGestures ==
    /\ \E p \in GdPointers : gdHands[p] # <<>>
    /\ gdHands' = [p \in GdPointers |-> <<>>]
    /\ LET live == {p \in GdPointers : gdHands[p] # <<>> /\ gdHands[p].active}
       IN  /\ gdStore' = IF live = {} THEN gdStore ELSE [gdStore EXCEPT !.drag = <<>>, !.draft = <<>>]
           /\ gdPane' = [gdPane EXCEPT !.recent = @ \/ live # {}]
    /\ UNCHANGED <<gdTimes, gdLeft>>

-----------------------------------------------------------------------------
(* Around the gestures *)

\* 250 ms later.
Rested == gdPane.recent /\ gdPane' = [gdPane EXCEPT !.recent = FALSE]
          /\ UNCHANGED <<gdTimes, gdHands, gdStore, gdLeft>>
\* The mouse over a row: the hint is the unit under it, over free track only.
HoverSlot(r, x) ==
    /\ gdHands["mouse"] = <<>> /\ gdLeft.paint /\ Happens("hovers")
    /\ LET offered == /\ gdStore.drag = <<>> /\ gdStore.draft = <<>>
                      /\ OnTrack(r, x) /\ Allowed(StopAt(x + gdPane.scroll))
       IN  gdPane' = [gdPane EXCEPT !.hint = IF offered THEN <<r, StopAt(x + gdPane.scroll)>> ELSE <<>>]
    /\ UNCHANGED <<gdTimes, gdHands, gdStore>>
\* hintVisible: on a row with a free track, and with nothing dragged or painted.
HintVisible ==
    /\ gdPane.hint # <<>> /\ gdStore.drag = <<>> /\ gdStore.draft = <<>>
    /\ \A e \in DOMAIN gdTimes : GdRowOf[e] = gdPane.hint[1] => ~Meets(gdTimes[e], gdPane.hint[2])
\* The tile of the hint, by the keyboard.
PressHint ==
    /\ HintVisible /\ ~gdPane.recent /\ Happens("hovers")
    /\ gdStore' = [gdStore EXCEPT !.slot = gdPane.hint[2]]
    /\ gdPane' = [gdPane EXCEPT !.hint = <<>>]
    /\ UNCHANGED <<gdTimes, gdHands>>
\* The consumer gives an event other times, or takes it away.
ConsumerEdits(ev) ==
    /\ ev \in DOMAIN gdTimes /\ Happens("edits")
    /\ \/ gdTimes' = Restrict(gdTimes, DOMAIN gdTimes \ {ev})
       \/ gdTimes' = [gdTimes EXCEPT ![ev] = <<@[1] + GdSnap, @[2] + GdSnap>>]
    /\ UNCHANGED <<gdHands, gdStore, gdPane>>

-----------------------------------------------------------------------------
(* What a row shows *)

\* Bars within the range, and milestones.
BarsOf(r) == {e \in DOMAIN gdTimes :
                /\ GdRowOf[e] = r /\ 0 <= gdTimes[e][2] /\ gdTimes[e][1] < GdEnd
                /\ gdTimes[e][1] = gdTimes[e][2] \/ gdTimes[e][2] > 0}
\* A moved bar is hidden, a resized one faded.
BarLook(e) == IF gdStore.drag = <<>> \/ gdStore.drag.ev # e THEN "plain"
              ELSE IF gdStore.drag.kind = "move" THEN "hidden" ELSE "faded"
\* The landing of the drag, on the row of the bar it proposes for.
GhostOf(r) == IF gdStore.drag = <<>> \/ GdRowOf[gdStore.drag.ev] # r THEN <<>>
              ELSE <<Bound(gdStore.drag.times[1], 0, GdEnd), Bound(gdStore.drag.times[2], 0, GdEnd)>>
DraftOf(r) == IF gdStore.draft = <<>> \/ gdStore.draft.row # r THEN <<>> ELSE gdStore.draft.times

-----------------------------------------------------------------------------

GdInit ==
    /\ gdLeft \in GdScenes
    /\ gdTimes = gdLeft.times
    /\ gdHands = [p \in GdPointers |-> <<>>]
    /\ gdStore = [drag |-> <<>>, draft |-> <<>>, slot |-> <<>>, picked |-> "none"]
    /\ gdPane = [scroll |-> 0, hint |-> <<>>, recent |-> FALSE]

GdNext ==
    \/ \E p \in GdPointers :
         \/ Cancel(p) \/ LongPress(p) \/ AutoScroll(p) \/ ReleasePaint(p) \/ ReleasePress(p)
         \/ \E ok \in {TRUE, FALSE} : ReleaseBar(p, ok)
         \/ \E x \in GdPixels : PointerMove(p, x)
         \/ \E ev \in GdEvents, x \in GdPixels : BeginMove(p, ev, x)
         \/ \E ev \in GdEvents, edge \in {"resize-start", "resize-end"} : BeginResize(p, ev, edge)
         \/ \E r \in GdRows, x \in GdPixels : BeginCreate(p, r, x)
    \/ CancelGestures \/ Rested \/ PressHint
    \/ \E r \in GdRows, x \in GdPixels : HoverSlot(r, x)
    \/ \E ev \in GdEvents : ConsumerEdits(ev)

-----------------------------------------------------------------------------

\* Whatever ends a gesture - release, cancel, Escape, a second finger, the timer of a
\* long press, in any order - no bar stays hidden or faded and no landing or draft
\* stays on show without a gesture under way (cleanup: "whichever lands first wins
\* and the rest no-op").
NothingSticks ==
    (\E r \in GdRows : \/ GhostOf(r) # <<>> \/ DraftOf(r) # <<>>
                      \/ \E e \in BarsOf(r) : BarLook(e) # "plain") =>
      \E p \in GdPointers : gdHands[p] # <<>> /\ gdHands[p].active

=============================================================================
