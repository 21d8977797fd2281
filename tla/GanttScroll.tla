---------------------------- MODULE GanttScroll ----------------------------
(***************************************************************************)
(* The time axis of the roadmap's Gantt chart: the store of               *)
(* components/reui/gantt/gantt.tsx (anchor date, scale, the window of      *)
(* extra periods rendered on each side) and the position handling of       *)
(* gantt-view.tsx, which reads and moves the horizontal scroller in        *)
(* layout effects, animation frames and native listeners.                  *)
(*                                                                         *)
(* An instant is an integer, a scale the length of its period and of the   *)
(* stretch of time its pane shows.  A commit of React, with its layout     *)
(* effects, happens before the next event; scroll events and animation     *)
(* frames come later, in any order.                                        *)
(***************************************************************************)
EXTENDS Integers

CONSTANTS
    GsScales,     \* "day", "week", ...
    GsPeriod,     \* the length of a period of each scale
    GsPane,       \* the stretch each scale's pane shows at zoom 1, a multiple of 4
    GsTimes,      \* the instants a user may navigate to
    GsNow,
    GsBar,        \* when the bar of a chip starts; it lasts one
    NoInstant,    \* not an instant
    Astray,       \* nor this: what a move of a pan asks for once the track is another
    GsScenes      \* bounds and the ways the chart is configured

\* maxRangeWindow is at least one (extendRange), a pane shows something at every
\* zoom, bounds have more than a period between them.
ASSUME ScrollAssumption ==
    /\ "none" \notin GsScales /\ NoInstant \notin Int /\ Astray \notin Int \cup {NoInstant}
    /\ GsPeriod \in [GsScales -> Nat \ {0}] /\ GsPane \in [GsScales -> Nat \ {0, 1}]
    /\ GsTimes \subseteq Int /\ GsNow \in Int /\ GsBar \in Int
    /\ GsScenes \subseteq [scale : GsScales, date : Int, cap : Nat \ {0}, infinite : BOOLEAN,
                          controlled : BOOLEAN, min : Int, max : Int, hidden : BOOLEAN, acts : Nat]
    /\ \A c \in GsScenes, s \in GsScales : c.max - c.min > GsPeriod[s]

VARIABLES
    gsStore,  \* the store's scale, anchor, window, viewport centre
    gsPort,   \* the scroller, the refs of the view and the pan of the header
    gsAim,    \* what the last act of the user asked to see, an instant at the left edge
              \* or (NoInstant) the anchor in the middle; an extension asks for what is
              \* there (a history variable)
    gsLeft    \* the scene, less the acts the user has made

gsVars == <<gsStore, gsPort, gsAim, gsLeft>>

-----------------------------------------------------------------------------
(* Ranges *)

\* getGanttDateRange, with the quarter's alignment to weeks left out.
PeriodStart(s, t) == (t \div GsPeriod[s]) * GsPeriod[s]

\* stepGanttDate.
StepDate(s, t, k) == t + k * GsPeriod[s]

\* getState: the anchor's period, widened by whole periods.
AxisStart(v) == PeriodStart(v.scale, StepDate(v.scale, v.date, -v.before))
AxisEnd(v) == PeriodStart(v.scale, StepDate(v.scale, v.date, v.after)) + GsPeriod[v.scale]
Current == [scale |-> gsStore.scale, date |-> gsStore.date, before |-> gsStore.before,
            after |-> gsStore.after, zoom |-> gsPort.zoom]
Settled == gsPort.seen = Current

Seen(v) == GsPane[v.scale] \div v.zoom        \* how much time the pane shows
Overflows(v) == AxisEnd(v) - AxisStart(v) > Seen(v)
Higher(a, b) == IF a > b THEN a ELSE b
Lower(a, b) == IF a < b THEN a ELSE b
\* setScrollStart: the browser keeps the scroller within its track.
Park(v, x) == Higher(AxisStart(v), Lower(x, AxisEnd(v) - Seen(v)))
Middle(v, left) == left + Seen(v) \div 2
\* What a number of pixels scrolled means depends on.
Track(v) == <<v.scale, v.zoom, AxisStart(v)>>

-----------------------------------------------------------------------------
(* The store *)

\* clampToBounds.
InBounds(t) == Higher(gsLeft.min, Lower(t, gsLeft.max))

\* Mutant of SetField: navigation forgets to say that it is no slide.
SetFieldAsSlide(st, scale, date) ==
    IF scale = st.scale /\ date = st.date THEN st
    ELSE [st EXCEPT !.scale = scale, !.date = date, !.before = 0, !.after = 0,
                    !.center = NoInstant]

\* setField for the anchor or the scale: an equal value does nothing; a controlled
\* anchor is adopted by the parent at once, which ends in the same state.
SetField(st, scale, date) ==
    IF scale = st.scale /\ date = st.date THEN st
    ELSE [st EXCEPT !.scale = scale, !.date = date, !.before = 0, !.after = 0,
                    !.center = NoInstant, !.slid = FALSE]

\* extendRange, with its answer: grow up to the cap, else slide the anchor.
ExtendRange(st, side) ==
    LET stop == \/ side = "before" /\ AxisStart(st) <= gsLeft.min
                \/ side = "after" /\ AxisEnd(st) >= gsLeft.max
        next == StepDate(st.scale, st.date, IF side = "before" THEN -1 ELSE 1)
    IN  CASE stop -> [done |-> FALSE, st |-> st]
          [] ~stop /\ st[side] < gsLeft.cap ->
               [done |-> TRUE, st |-> [st EXCEPT ![side] = @ + 1]]
          [] ~stop /\ st[side] >= gsLeft.cap /\ gsLeft.controlled ->
               [done |-> FALSE,
                st |-> [st EXCEPT !.date = next, !.before = 0, !.after = 0, !.slid = FALSE]]
          [] OTHER ->
               [done |-> TRUE, st |-> [st EXCEPT !.date = next, !.slid = TRUE]]

-----------------------------------------------------------------------------
(* The layout effects of a commit *)

\* The instant to centre: now when the anchor's own period has it.
Target(st) == IF PeriodStart(st.scale, GsNow) = PeriodStart(st.scale, st.date)
              THEN GsNow ELSE st.date

\* run of the positioning effect: buffer a period on each side once, then centre.
Position(st, pt, v) ==
    IF pt.hidden
      THEN [st |-> st, pt |-> [pt EXCEPT !.waits = TRUE]]
    ELSE IF gsLeft.infinite /\ ~pt.buffered
      THEN [st |-> ExtendRange(ExtendRange(st, "before").st, "after").st,
            pt |-> [pt EXCEPT !.waits = FALSE, !.buffered = TRUE, !.lock = TRUE]]
    ELSE [st |-> st,
          pt |-> [pt EXCEPT !.waits = FALSE, !.lock = FALSE,
                            !.left = IF Overflows(v)
                                     THEN Park(v, Target(st) - Seen(v) \div 2) ELSE @,
                            !.moved = @ \/ Overflows(v)]]

\* The positioning effect: a new anchor or scale is positioned anew, unless the
\* user's own travel slid the anchor.
AutoPosition(st, pt, v) ==
    LET slide == pt.took /\ st.slid
        mine == IF pt.key = <<v.scale, v.date>> THEN pt
                ELSE [pt EXCEPT !.key = <<v.scale, v.date>>,
                                !.buffered = slide /\ @, !.took = slide]
    IN  IF mine.took THEN [st |-> st, pt |-> mine] ELSE Position(st, mine, v)

\* The effect that puts the remembered instant back where it was.
Reseat(pt, v) ==
    LET r == pt.restore
    IN  IF r.at = NoInstant THEN [pt EXCEPT !.lock = FALSE]
        ELSE [pt EXCEPT !.lock = FALSE, !.restore = [at |-> NoInstant, back |-> 0],
                        !.left = Park(v, Higher(AxisStart(v), Lower(r.at, AxisEnd(v))) - r.back),
                        !.moved = TRUE]

\* The pixels scrolled stay; a new scale mounts a new scroller.
Carried(v) == IF v.scale # gsPort.seen.scale THEN AxisStart(v)
              ELSE Park(v, AxisStart(v) + gsPort.left - AxisStart(gsPort.seen))

\* A render and its layout effects, the positioning effect first.  The frame that
\* reports the centre is asked for again when the range changed.
CommitRender ==
    /\ ~Settled
    /\ LET v == Current
           laid == [gsPort EXCEPT !.seen = v, !.left = Carried(v)]
           axis == v.scale # gsPort.seen.scale
                   \/ <<AxisStart(v), AxisEnd(v)>> # <<AxisStart(gsPort.seen), AxisEnd(gsPort.seen)>>
           auto == IF axis \/ v.date # gsPort.seen.date THEN AutoPosition(gsStore, laid, v)
                   ELSE [st |-> gsStore, pt |-> laid]
           pt == IF axis \/ v.zoom # gsPort.seen.zoom THEN Reseat(auto.pt, v) ELSE auto.pt
       IN  /\ gsStore' = auto.st
           /\ gsPort' = IF axis THEN [pt EXCEPT !.frame = TRUE, !.named = NoInstant] ELSE pt
    /\ UNCHANGED <<gsAim, gsLeft>>

\* The pane gets a size: the observer positions it before it is painted.
Reveal ==
    /\ gsPort.hidden /\ Settled
    /\ LET shown == [gsPort EXCEPT !.hidden = FALSE]
           auto == IF gsPort.waits THEN Position(gsStore, shown, Current)
                   ELSE [st |-> gsStore, pt |-> shown]
       IN  gsStore' = auto.st /\ gsPort' = auto.pt
    /\ UNCHANGED <<gsAim, gsLeft>>

\* The chip of a bar wholly outside the pane: how far from the axis's start the
\* scroller must go to show it (measure of GanttOffscreenChips).
Chip(v) ==
    CASE GsBar < AxisStart(v) \/ GsBar >= AxisEnd(v) -> NoInstant
      [] GsBar + 1 <= gsPort.left -> GsBar - AxisStart(v)
      [] GsBar >= gsPort.left + Seen(v) -> GsBar + 1 - Seen(v) - AxisStart(v)
      [] OTHER -> NoInstant

\* The frame that reports the centre (measure), when its period is not the one it
\* reported last, and the one that places the chips.
Frame ==
    /\ Settled /\ gsPort.frame /\ ~gsPort.hidden
    /\ LET v == Current
           c == Middle(v, gsPort.left)
           p == PeriodStart(v.scale, c)
       IN  /\ gsStore' = [gsStore EXCEPT !.center = IF p # gsPort.named THEN c ELSE @]
           /\ gsPort' = [gsPort EXCEPT !.frame = FALSE, !.named = p, !.chip = Chip(v)]
    /\ UNCHANGED <<gsAim, gsLeft>>

-----------------------------------------------------------------------------
(* The user *)

Acts == Settled /\ ~gsPort.hidden /\ gsLeft.acts > 0
Acted == gsLeft' = [gsLeft EXCEPT !.acts = @ - 1]

\* An equal value is no navigation and moves nothing.
NavigateTo(scale, date) ==
    /\ Acts /\ Acted
    /\ gsStore' = SetField(gsStore, scale, InBounds(date))
    /\ gsAim' = IF gsStore' = gsStore THEN gsAim ELSE NoInstant
    /\ UNCHANGED gsPort

\* GanttNavPrev and GanttNavNext.
GoPrev == NavigateTo(gsStore.scale, StepDate(gsStore.scale, gsStore.date, -1))
GoNext == NavigateTo(gsStore.scale, StepDate(gsStore.scale, gsStore.date, 1))
\* GanttNavToday.
GoToday == NavigateTo(gsStore.scale, GsNow)
\* goTo of GanttDatePicker.
GoTo == \E t \in GsTimes : NavigateTo(gsStore.scale, t)
\* GanttScaleSwitcher: navigates by the scale; the anchor is not clamped again.
\* A pan keeps the scroller that is taken away.
SwitchScale ==
    /\ Acts /\ Acted
    /\ \E s \in GsScales \ {gsStore.scale} : gsStore' = SetField(gsStore, s, gsStore.date)
    /\ gsAim' = NoInstant
    /\ gsPort' = [gsPort EXCEPT !.pan = <<>>]

\* tryExtend: the left edge is remembered as an instant.
TryExtend(side) ==
    LET ext == ExtendRange(gsStore, side)
    IN  /\ gsStore' = ext.st
        /\ gsPort' = [gsPort EXCEPT !.took = TRUE, !.lock = ext.done, !.moved = FALSE,
                                    !.frame = TRUE,
                                    !.restore = [at |-> IF ext.done THEN gsPort.left ELSE NoInstant,
                                                 back |-> 0]]
        /\ gsAim' = gsPort.left

\* The user moves the scroller elsewhere.
ScrollTo(x) ==
    /\ Acts /\ Acted /\ Overflows(Current)
    /\ x \in (AxisStart(Current))..(AxisEnd(Current) - Seen(Current)) /\ x # gsPort.left
    /\ gsPort' = [gsPort EXCEPT !.left = x, !.moved = TRUE, !.intent = TRUE]
    /\ UNCHANGED gsStore
Reachable == (AxisStart(Current))..(AxisEnd(Current))

\* By wheel or scrollbar (markIntent).
Scroll == \E x \in Reachable : ScrollTo(x) /\ gsAim' = x

\* beginHeaderPan: the press remembers the pixels scrolled ...
BeginPan ==
    /\ Acts /\ gsPort.pan = <<>>
    /\ gsPort' = [gsPort EXCEPT !.pan = Track(Current)]
    /\ UNCHANGED <<gsStore, gsAim, gsLeft>>
\* ... and every move scrolls to those less its own way: what was under the pointer
\* stays there as long as the track does.
PanMove ==
    /\ gsPort.pan # <<>>
    /\ \E x \in Reachable :
         ScrollTo(x) /\ gsAim' = IF gsPort.pan = Track(Current) THEN x ELSE Astray
EndPan ==
    /\ Settled /\ gsPort.pan # <<>>
    /\ gsPort' = [gsPort EXCEPT !.pan = <<>>]
    /\ UNCHANGED <<gsStore, gsAim, gsLeft>>

\* More than 1200 ms since the user scrolled.
IntentFades ==
    /\ Settled /\ gsPort.intent
    /\ gsPort' = [gsPort EXCEPT !.intent = FALSE]
    /\ UNCHANGED <<gsStore, gsAim, gsLeft>>

\* onScroll, which the browser calls after any move of the scroller.
AtEdge == IF gsPort.left = AxisStart(Current) THEN {"before"}
          ELSE IF gsPort.left = AxisEnd(Current) - Seen(Current) THEN {"after"} ELSE {}
OnScroll ==
    /\ Settled /\ gsPort.moved
    /\ LET sides == IF gsPort.lock \/ ~gsPort.intent \/ ~Overflows(Current) \/ ~gsLeft.infinite
                    THEN {} ELSE AtEdge
       IN  \/ sides = {} /\ gsPort' = [gsPort EXCEPT !.moved = FALSE, !.frame = TRUE]
                         /\ UNCHANGED <<gsStore, gsAim>>
           \/ \E side \in sides : TryExtend(side)
    /\ UNCHANGED gsLeft

\* onWheel: parked on an edge, the wheel itself extends.
WheelAtEdge ==
    /\ Acts /\ Acted /\ gsLeft.infinite
    /\ ~gsPort.lock /\ Overflows(Current) /\ ~gsPort.moved
    /\ \E side \in AtEdge : TryExtend(side)

\* setZoomValue, with the instant x of the pane that stays where it is.
ZoomAround(v, x, back) ==
    /\ Acts /\ Acted
    /\ gsPort' = [gsPort EXCEPT !.zoom = v.zoom, !.restore = [at |-> x, back |-> back]]
    /\ gsAim' = Park(v, x - back)
    /\ UNCHANGED gsStore
Zooms == {[Current EXCEPT !.zoom = z] : z \in {1, 2} \ {gsPort.zoom}}

\* The zoom buttons keep the middle (anchorZoomCenter) ...
ZoomButton == \E v \in Zooms : ZoomAround(v, Middle(Current, gsPort.left), Seen(v) \div 2)
\* ... a pinch or ctrl-wheel what is under the pointer (anchorZoomPointer).
ZoomAtPointer == \E v \in Zooms, back \in {0, 1} : ZoomAround(v, gsPort.left + back, back)

\* scrollTo of GanttOffscreenChips: to where the bar was when the chip was placed.
JumpToBar ==
    /\ Acts /\ Acted /\ gsPort.chip # NoInstant
    /\ LET x == Park(Current, AxisStart(Current) + Higher(0, gsPort.chip))
       IN  /\ gsPort' = [gsPort EXCEPT !.left = x, !.moved = TRUE, !.chip = NoInstant]
           /\ gsAim' = x
    /\ UNCHANGED gsStore

-----------------------------------------------------------------------------

GsInit ==
    /\ gsLeft \in GsScenes
    /\ gsStore = [scale |-> gsLeft.scale, date |-> gsLeft.date, before |-> 0, after |-> 0,
                  center |-> NoInstant, slid |-> FALSE]
    /\ gsPort = [zoom |-> 1, left |-> PeriodStart(gsLeft.scale, gsLeft.date),
                 seen |-> [scale |-> "none"], key |-> <<>>, buffered |-> FALSE, took |-> FALSE,
                 lock |-> FALSE, restore |-> [at |-> NoInstant, back |-> 0], frame |-> FALSE,
                 named |-> NoInstant, chip |-> NoInstant, moved |-> FALSE, intent |-> FALSE,
                 hidden |-> gsLeft.hidden, waits |-> FALSE, pan |-> <<>>]
    /\ gsAim = NoInstant

Navigations == GoPrev \/ GoNext \/ GoToday \/ GoTo \/ SwitchScale
Scrolls == Scroll \/ WheelAtEdge \/ JumpToBar \/ BeginPan \/ PanMove \/ EndPan
UserActs == Navigations \/ Scrolls \/ ZoomButton \/ ZoomAtPointer
GsNext == CommitRender \/ Reveal \/ Frame \/ IntentFades \/ OnScroll \/ UserActs

-----------------------------------------------------------------------------

\* The view stays where the user put it: once rendered, the left edge shows the
\* instant the last act asked for (the one scrolled to, kept across extensions of
\* the range and slides of the anchor, or under the pointer of a zoom), and after a
\* navigation the anchor is in the middle, whatever was extended or slid before
\* (the effects of gantt-view.tsx; bounds may leave nothing to scroll).  Excepted are
\* a controlled anchor, whose parent centres it when it adopts a slide, and, until
\* the next act, a move of a pan whose track is no longer that of the press: the
\* pixels remembered then mean another instant, and when the axis grew before it the
\* view jumps by what was added (gantt-view.tsx:1947, 1962).
InPlace ==
    Settled /\ ~gsPort.hidden /\ ~gsLeft.controlled /\ gsAim # Astray =>
        gsPort.left = Park(Current, IF gsAim = NoInstant
                                    THEN Target(gsStore) - Seen(Current) \div 2 ELSE gsAim)

=============================================================================
