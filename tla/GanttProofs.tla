---------------------------- MODULE GanttProofs -----------------------------
(***************************************************************************)
(* Theorems about the Gantt chart, for any bars, pointers, scales, panes   *)
(* and scenes: its gestures (GanttDrag) and its time axis (GanttScroll).   *)
(* They share no state.                                                    *)
(*                                                                         *)
(* A view of the axis is in one of few phases (Positioned): settled where  *)
(* it belongs, or on its way there with what the next commit needs - a     *)
(* period to centre, a buffer around it, an instant to put back.  Every    *)
(* commit and every act leads from a phase to a phase.                     *)
(***************************************************************************)
EXTENDS GanttDrag, GanttScroll, TLAPS

-----------------------------------------------------------------------------
(* GanttDrag *)

GdSpec == GdInit /\ [][GdNext]_gdVars

Bars == {"move", "resize-start", "resize-end"}
Holding(kinds) == \E p \in GdPointers :
                    gdHands[p] # <<>> /\ gdHands[p].active /\ gdHands[p].kind \in kinds

StoreTyped == {"drag", "draft"} \subseteq DOMAIN gdStore
HandTyped(g) == g # <<>> => /\ {"active", "kind", "at", "key", "read", "mates", "rejected", "pan", "grab"}
                                 \subseteq DOMAIN g
                            /\ g.kind \in Bars \cup {"create"}
HandsTyped == DOMAIN gdHands = GdPointers /\ \A p \in GdPointers : HandTyped(gdHands[p])

(* The drag in the store is that of a bar a pointer still has, the draft   *)
(* that of a pointer still painting.                                       *)
Owned ==
    /\ StoreTyped /\ HandsTyped
    /\ gdStore.drag # <<>> => Holding(Bars)
    /\ gdStore.draft # <<>> => Holding({"create"})

(* A gesture that goes on keeps its kind, and a proposal of its own is the *)
(* only thing it brings into the store.                                    *)
LEMMA ProposalOwned ==
    ASSUME Owned, NEW p \in GdPointers, gdHands[p] # <<>>, NEW g, NEW x,
           HandTyped(g), g # <<>>, g.active = TRUE, g.kind = gdHands[p].kind, ApplyProposal(p, g, x)
    PROVE  Owned'
<1>. DEFINE t == Proposal(g, x)
            hit == Policy(g) = "reject" /\ \E m \in Mates(g) : Meets(m, t)
            moved == [g EXCEPT !.at = x]
            asked == [moved EXCEPT !.key = t, !.read = TRUE, !.mates = Mates(g),
                                   !.rejected = IF g.kind = "create" THEN @ ELSE hit]
            drag == [kind |-> g.kind, ev |-> g.ev, times |-> t, valid |-> ~hit /\ Allowed(t)]
            draft == IF Allowed(t) THEN [row |-> g.row, times |-> t] ELSE gdStore.draft
<1>. HIDE DEF t, hit
<1>1. /\ DOMAIN moved = DOMAIN g /\ moved.kind = g.kind /\ moved.active = g.active
      /\ DOMAIN asked = DOMAIN g /\ asked.kind = g.kind /\ asked.active = g.active
  BY DEF HandTyped
<1>2. /\ gdHands' = [gdHands EXCEPT ![p] = moved] \/ gdHands' = [gdHands EXCEPT ![p] = asked]
      /\ \/ gdStore' = gdStore
         \/ g.kind # "create" /\ gdStore' = [gdStore EXCEPT !.drag = drag]
         \/ g.kind = "create" /\ gdStore' = [gdStore EXCEPT !.draft = draft]
  BY DEF ApplyProposal, t, hit
<1>. HIDE DEF moved, asked, drag, draft
<1>3. PICK new : /\ gdHands' = [gdHands EXCEPT ![p] = new]
                 /\ DOMAIN new = DOMAIN g /\ new.kind = g.kind /\ new.active = TRUE
  BY <1>1, <1>2
<1>4. new # <<>>
  BY <1>3 DEF HandTyped
<1>5. HandsTyped'
  BY <1>3, <1>4 DEF Owned, HandsTyped, HandTyped
<1>6. ASSUME NEW kinds, Holding(kinds)
      PROVE  Holding(kinds)'
  BY <1>3, <1>4, <1>6 DEF Holding, Owned, HandsTyped
<1>7. ASSUME NEW kinds, g.kind \in kinds
      PROVE  Holding(kinds)'
  BY <1>3, <1>4, <1>7 DEF Holding, Owned, HandsTyped
<1>8. StoreTyped'
  BY <1>2 DEF Owned, StoreTyped
<1>9. gdStore'.drag # <<>> => Holding(Bars)'
  <2>1. CASE gdStore'.drag = gdStore.drag
    BY <2>1, <1>6 DEF Owned
  <2>2. CASE g.kind # "create"
    BY <2>2, <1>7 DEF HandTyped
  <2>. QED
    BY <1>2, <2>1, <2>2 DEF Owned, StoreTyped
<1>10. gdStore'.draft # <<>> => Holding({"create"})'
  <2>1. CASE gdStore'.draft = gdStore.draft
    BY <2>1, <1>6 DEF Owned
  <2>2. CASE g.kind = "create"
    BY <2>2, <1>7
  <2>. QED
    BY <1>2, <2>1, <2>2 DEF Owned, StoreTyped
<1>. QED
  BY <1>5, <1>8, <1>9, <1>10 DEF Owned

(* A gesture that was not active ends without leaving anything behind.     *)
LEMMA LetGo ==
    ASSUME Owned, NEW p \in GdPointers, gdHands' = [gdHands EXCEPT ![p] = <<>>],
           DOMAIN gdStore' = DOMAIN gdStore,
           \/ gdStore'.drag = <<>>
           \/ /\ gdStore'.drag = gdStore.drag
              /\ gdHands[p] = <<>> \/ ~gdHands[p].active \/ gdHands[p].kind \notin Bars,
           \/ gdStore'.draft = <<>>
           \/ /\ gdStore'.draft = gdStore.draft
              /\ gdHands[p] = <<>> \/ ~gdHands[p].active \/ gdHands[p].kind # "create"
    PROVE  Owned'
<1>1. StoreTyped' /\ HandsTyped'
  BY DEF Owned, StoreTyped, HandsTyped, HandTyped
<1>2. ASSUME NEW kinds, Holding(kinds),
             gdHands[p] = <<>> \/ ~gdHands[p].active \/ gdHands[p].kind \notin kinds
      PROVE  Holding(kinds)'
  BY <1>2 DEF Holding, Owned, HandsTyped
<1>3. gdStore'.drag # <<>> => Holding(Bars)'
  BY <1>2 DEF Owned
<1>4. gdStore'.draft # <<>> => Holding({"create"})'
  BY <1>2 DEF Owned
<1>. QED
  BY <1>1, <1>3, <1>4 DEF Owned

LEMMA GestureTyped ==
    ASSUME NEW kind \in Bars \cup {"create"}, NEW ev, NEW row, NEW x, NEW active
    PROVE  HandTyped(Gesture(kind, ev, row, x, active))
BY DEF HandTyped, Gesture

LEMMA PressOwned ==
    ASSUME Owned, NEW p \in GdPointers, NEW g, HandTyped(g), Pressed(p, g)
    PROVE  Owned'
<1>1. HandsTyped' /\ StoreTyped'
  BY DEF Pressed, Owned, HandsTyped, StoreTyped
<1>2. ASSUME NEW kinds, Holding(kinds)
      PROVE  Holding(kinds)'
  BY <1>2 DEF Holding, Pressed, Owned, HandsTyped
<1>. QED
  BY <1>1, <1>2 DEF Owned, Pressed

LEMMA ActivateTyped ==
    ASSUME NEW g, HandTyped(g), g # <<>>
    PROVE  /\ HandTyped(Activate(g)) /\ Activate(g) # <<>>
           /\ Activate(g).active = TRUE /\ Activate(g).kind = g.kind
<1>. DEFINE grab == IF g.kind = "move" THEN Bound(g.from + gdPane.scroll, 0, GdEnd) - g.was[1] ELSE 0
<1>. HIDE DEF grab
<1>1. Activate(g) = [g EXCEPT !.active = TRUE, !.pan = gdPane.scroll, !.grab = grab]
  BY DEF Activate, grab
<1>2. DOMAIN Activate(g) = DOMAIN g /\ Activate(g).active = TRUE /\ Activate(g).kind = g.kind
  BY <1>1 DEF HandTyped
<1>. QED
  BY <1>2 DEF HandTyped

LEMMA HandStepOwned ==
    ASSUME Owned, NEW p \in GdPointers,
           \/ Cancel(p) \/ LongPress(p) \/ AutoScroll(p) \/ ReleasePaint(p) \/ ReleasePress(p)
           \/ \E ok \in {TRUE, FALSE} : ReleaseBar(p, ok)
           \/ \E x \in GdPixels : PointerMove(p, x)
    PROVE  Owned'
<1>0. HandTyped(gdHands[p]) /\ StoreTyped
  BY DEF Owned, HandsTyped
<1>1. CASE Cancel(p)
  <2>1. /\ gdHands' = [gdHands EXCEPT ![p] = <<>>]
        /\ \/ gdHands[p].active /\ gdStore' = [gdStore EXCEPT !.drag = <<>>, !.draft = <<>>]
           \/ ~gdHands[p].active /\ gdStore' = gdStore
    BY <1>1 DEF Cancel, Dropped
  <2>. QED
    BY <1>0, <2>1, LetGo DEF StoreTyped
<1>2. CASE LongPress(p)
  BY <1>0, <1>2, ActivateTyped, ProposalOwned DEF LongPress
<1>3. CASE AutoScroll(p)
  <2>1. PICK to : ApplyProposal(p, [gdHands[p] EXCEPT !.pan = to], gdHands[p].at)
    BY <1>3 DEF AutoScroll
  <2>. DEFINE g == [gdHands[p] EXCEPT !.pan = to]
  <2>2. gdHands[p] # <<>> /\ gdHands[p].active
    BY <1>3 DEF AutoScroll
  <2>3. /\ DOMAIN g = DOMAIN gdHands[p] /\ g.kind = gdHands[p].kind
        /\ g.active = gdHands[p].active
    BY <1>0, <2>2 DEF HandTyped
  <2>4. HandTyped(g) /\ g # <<>>
    BY <1>0, <2>2, <2>3 DEF HandTyped
  <2>. HIDE DEF g
  <2>. QED
    BY <2>1, <2>2, <2>3, <2>4, ProposalOwned DEF g
<1>4. CASE ReleasePaint(p)
  <2>1. /\ gdHands' = [gdHands EXCEPT ![p] = <<>>] /\ gdHands[p].kind = "create"
        /\ \E slot : gdStore' = [gdStore EXCEPT !.draft = <<>>, !.slot = slot]
    BY <1>4 DEF ReleasePaint
  <2>2. /\ DOMAIN gdStore' = DOMAIN gdStore
        /\ gdStore'.draft = <<>> /\ gdStore'.drag = gdStore.drag
    BY <1>0, <2>1 DEF StoreTyped
  <2>. QED
    BY <2>1, <2>2, LetGo DEF Bars
<1>5. CASE ReleasePress(p)
  <2>1. gdHands' = [gdHands EXCEPT ![p] = <<>>] /\ ~gdHands[p].active
    BY <1>5 DEF ReleasePress
  <2>2. \/ gdStore' = gdStore
        \/ \E stop : gdStore' = [gdStore EXCEPT !.slot = stop]
        \/ \E ev : gdStore' = [gdStore EXCEPT !.picked = ev]
    BY <1>5 DEF ReleasePress, ClickTrack, ClickBar
  <2>3. /\ DOMAIN gdStore' = DOMAIN gdStore
        /\ gdStore'.draft = gdStore.draft /\ gdStore'.drag = gdStore.drag
    BY <1>0, <2>2 DEF StoreTyped
  <2>. QED
    BY <2>1, <2>3, LetGo
<1>6. ASSUME NEW ok, ReleaseBar(p, ok)
      PROVE  Owned'
  <2>1. /\ gdHands' = [gdHands EXCEPT ![p] = <<>>] /\ gdHands[p].kind # "create"
        /\ gdStore' = [gdStore EXCEPT !.drag = <<>>]
    BY <1>6 DEF ReleaseBar
  <2>2. /\ DOMAIN gdStore' = DOMAIN gdStore
        /\ gdStore'.draft = gdStore.draft /\ gdStore'.drag = <<>>
    BY <1>0, <2>1 DEF StoreTyped
  <2>. QED
    BY <2>1, <2>2, LetGo
<1>7. ASSUME NEW x, PointerMove(p, x)
      PROVE  Owned'
  <2>1. gdHands[p] # <<>>
    BY <1>7 DEF PointerMove
  <2>2. CASE gdHands[p].active
    <3>1. ApplyProposal(p, gdHands[p], x)
      BY <1>7, <2>2 DEF PointerMove
    <3>. QED
      BY <1>0, <2>1, <2>2, <3>1, ProposalOwned
  <2>3. CASE ~gdHands[p].active
    <3>1. \/ gdStore' = gdStore /\ gdHands' = [gdHands EXCEPT ![p] = <<>>]
          \/ ApplyProposal(p, Activate(gdHands[p]), x)
      BY <1>7, <2>3 DEF PointerMove
    <3>. QED
      BY <1>0, <2>1, <2>3, <3>1, LetGo, ActivateTyped, ProposalOwned
  <2>. QED
    BY <2>2, <2>3
<1>. QED
  BY <1>1, <1>2, <1>3, <1>4, <1>5, <1>6, <1>7

LEMMA OwnedInv == GdSpec => []Owned
<1>1. GdInit => Owned
  BY DEF GdInit, Owned, StoreTyped, HandsTyped, HandTyped
<1>2. Owned /\ [GdNext]_gdVars => Owned'
  <2>. SUFFICES ASSUME Owned, [GdNext]_gdVars
                PROVE  Owned'
    OBVIOUS
  <2>1. ASSUME NEW p \in GdPointers,
               \/ Cancel(p) \/ LongPress(p) \/ AutoScroll(p) \/ ReleasePaint(p) \/ ReleasePress(p)
               \/ \E ok \in {TRUE, FALSE} : ReleaseBar(p, ok)
               \/ \E x \in GdPixels : PointerMove(p, x)
        PROVE  Owned'
    BY <2>1, HandStepOwned
  <2>2. ASSUME NEW p \in GdPointers, NEW ev, NEW x, BeginMove(p, ev, x) \/ BeginCreate(p, ev, x)
        PROVE  Owned'
    BY <2>2, GestureTyped, PressOwned DEF BeginMove, BeginCreate, Bars
  <2>3. ASSUME NEW p \in GdPointers, NEW ev, NEW edge \in {"resize-start", "resize-end"},
               BeginResize(p, ev, edge)
        PROVE  Owned'
    BY <2>3, GestureTyped, PressOwned DEF BeginResize, Bars
  <2>4. CASE CancelGestures
    <3>1. gdHands' = [p \in GdPointers |-> <<>>]
      BY <2>4 DEF CancelGestures
    <3>2. CASE \E p \in GdPointers : gdHands[p] # <<>> /\ gdHands[p].active
      <4>1. gdStore' = [gdStore EXCEPT !.drag = <<>>, !.draft = <<>>]
        BY <2>4, <3>2 DEF CancelGestures
      <4>. QED
        BY <3>1, <4>1 DEF Owned, StoreTyped, HandsTyped, HandTyped
    <3>3. CASE \A p \in GdPointers : gdHands[p] = <<>> \/ ~gdHands[p].active
      <4>1. gdStore' = gdStore
        BY <2>4, <3>3 DEF CancelGestures
      <4>2. gdStore.drag = <<>> /\ gdStore.draft = <<>>
        BY <3>3 DEF Owned, Holding
      <4>. QED
        BY <3>1, <4>1, <4>2 DEF Owned, StoreTyped, HandsTyped, HandTyped
    <3>. QED
      BY <3>2, <3>3
  <2>5. CASE PressHint
    <3>1. gdHands' = gdHands /\ \E slot : gdStore' = [gdStore EXCEPT !.slot = slot]
      BY <2>5 DEF PressHint
    <3>. QED
      BY <3>1 DEF Owned, StoreTyped, HandsTyped, Holding
  <2>6. ASSUME gdHands' = gdHands, gdStore' = gdStore
        PROVE  Owned'
    BY <2>6 DEF Owned, StoreTyped, HandsTyped, Holding
  <2>7. ASSUME NEW r, NEW x, HoverSlot(r, x)
        PROVE  Owned'
    BY <2>6, <2>7 DEF HoverSlot
  <2>8. ASSUME NEW ev, ConsumerEdits(ev)
        PROVE  Owned'
    BY <2>6, <2>8 DEF ConsumerEdits
  <2>9. CASE Rested \/ UNCHANGED gdVars
    BY <2>6, <2>9 DEF Rested, gdVars
  <2>. QED
    BY <2>1, <2>2, <2>3, <2>4, <2>5, <2>7, <2>8, <2>9 DEF GdNext
<1>. QED
  BY <1>1, <1>2, PTL DEF GdSpec

(* "whichever lands first wins and the rest no-op" (gantt-dnd.tsx): the    *)
(* gestures of all pointers share one drag and one draft, and whatever     *)
(* ends one of them, nothing is hidden, faded or shown landing without a   *)
(* gesture under way.                                                      *)
THEOREM GesturesLeaveNothing == GdSpec => []NothingSticks
<1>1. Owned => NothingSticks
  <2>. SUFFICES ASSUME Owned, NEW r \in GdRows,
                       \/ GhostOf(r) # <<>> \/ DraftOf(r) # <<>>
                       \/ \E e \in BarsOf(r) : BarLook(e) # "plain"
                PROVE  \E p \in GdPointers : gdHands[p] # <<>> /\ gdHands[p].active
    BY DEF NothingSticks
  <2>1. gdStore.drag # <<>> \/ gdStore.draft # <<>>
    BY DEF GhostOf, DraftOf, BarLook
  <2>. QED
    BY <2>1 DEF Owned, Holding
<1>. QED
  BY <1>1, OwnedInv, PTL DEF GdSpec

-----------------------------------------------------------------------------
(* GanttScroll *)

GsSpec == GsInit /\ [][GsNext]_gsVars

Instants == Int \cup {NoInstant}
Stores == [scale : GsScales, date : Int, before : Nat, after : Nat, center : Instants, slid : BOOLEAN]
Views == [scale : GsScales, date : Int, before : Nat, after : Nat, zoom : {1, 2}]
Unseen == [scale |-> "none"]
Ports == [zoom : {1, 2}, left : Int, seen : Views \cup {Unseen}, key : (GsScales \X Int) \cup {<<>>},
          buffered : BOOLEAN, took : BOOLEAN, lock : BOOLEAN, restore : [at : Instants, back : Int],
          frame : BOOLEAN, named : Instants, chip : Instants, moved : BOOLEAN, intent : BOOLEAN,
          hidden : BOOLEAN, waits : BOOLEAN, pan : (GsScales \X {1, 2} \X Int) \cup {<<>>}]
Aims == Instants \cup {Astray}
Scenes == [scale : GsScales, date : Int, cap : Nat \ {0}, infinite : BOOLEAN, controlled : BOOLEAN,
           min : Int, max : Int, hidden : BOOLEAN, acts : Nat]

ScrollTyped ==
    /\ gsStore \in Stores /\ gsPort \in Ports /\ gsAim \in Aims
    /\ gsLeft \in Scenes /\ \A s \in GsScales : gsLeft.max - gsLeft.min > GsPeriod[s]

(* A period has its start, and is longer than nothing. *)
LEMMA PeriodHolds ==
    ASSUME NEW s \in GsScales, NEW t \in Int
    PROVE  /\ GsPeriod[s] \in Nat \ {0}
           /\ PeriodStart(s, t) \in Int
           /\ PeriodStart(s, t) <= t /\ t < PeriodStart(s, t) + GsPeriod[s]
<1>1. GsPeriod[s] \in Nat \ {0}
  BY ScrollAssumption DEF ScrollAssumption
<1>. DEFINE p == GsPeriod[s]
<1>2. p \in Nat \ {0}
  BY <1>1
<1>. HIDE DEF p
<1>3. t \div p \in Int /\ (t \div p) * p <= t /\ t < (t \div p) * p + p
  BY <1>2
<1>4. (t \div p) * p \in Int
  BY <1>3, <1>2
<1>. QED
  BY <1>1, <1>3, <1>4 DEF PeriodStart, p

Length(s, n) == n * GsPeriod[s]

(* n periods back or forth, and one more. *)
LEMMA Steps ==
    ASSUME NEW s \in GsScales, NEW n \in Nat, NEW t \in Int
    PROVE  /\ Length(s, n) \in Nat
           /\ StepDate(s, t, n) = t + Length(s, n) /\ StepDate(s, t, -n) = t - Length(s, n)
           /\ Length(s, n + 1) = Length(s, n) + GsPeriod[s] /\ Length(s, 0) = 0
           /\ StepDate(s, t, 1) = t + GsPeriod[s]
           /\ StepDate(s, t, -1) = t - GsPeriod[s]
<1>. DEFINE p == GsPeriod[s]
<1>1. p \in Nat
  BY PeriodHolds
<1>. HIDE DEF p
<1>2. n * p \in Nat /\ (-n) * p = -(n * p) /\ (n + 1) * p = n * p + p
  BY <1>1
<1>3. 1 * p = p /\ (-1) * p = -p /\ 0 * p = 0
  BY <1>1
<1>. DEFINE q == n * p
<1>4. q \in Nat /\ (-n) * p = -q /\ (n + 1) * p = q + p /\ n * p = q
  BY <1>2
<1>. HIDE DEF q
<1>5. \A u, k : StepDate(s, u, k) = u + k * p
  BY DEF StepDate, p
<1>6. \A k : Length(s, k) = k * p
  BY DEF Length, p
<1>7. StepDate(s, t, n) = t + q /\ StepDate(s, t, -n) = t - q
  BY <1>1, <1>4, <1>5
<1>8. StepDate(s, t, 1) = t + p /\ StepDate(s, t, -1) = t - p
  BY <1>1, <1>3, <1>5
<1>9. p = GsPeriod[s]
  BY DEF p
<1>. QED
  BY <1>3, <1>4, <1>6, <1>7, <1>8, <1>9

(* A step of one period. *)
LEMMA OneStep ==
    ASSUME NEW s \in GsScales, NEW t \in Int
    PROVE  StepDate(s, t, 1) \in Int /\ StepDate(s, t, -1) \in Int
<1>1. GsPeriod[s] \in Nat
  BY PeriodHolds
<1>2. 0 \in Nat
  OBVIOUS
<1>3. StepDate(s, t, 1) = t + GsPeriod[s] /\ StepDate(s, t, -1) = t - GsPeriod[s]
  BY <1>2, Steps
<1>. QED
  BY <1>1, <1>3

(* What the axis of a store or a view needs of it. *)
Spans(v) == v.scale \in GsScales /\ v.date \in Int /\ v.before \in Nat /\ v.after \in Nat

(* The axis, with the periods around the anchor counted out. *)
LEMMA AxisIs ==
    ASSUME NEW v, Spans(v)
    PROVE  /\ AxisStart(v) = PeriodStart(v.scale, v.date - Length(v.scale, v.before))
           /\ AxisEnd(v) = PeriodStart(v.scale, v.date + Length(v.scale, v.after)) + GsPeriod[v.scale]
           /\ v.date - Length(v.scale, v.before) \in Int /\ v.date + Length(v.scale, v.after) \in Int
<1>. DEFINE s == v.scale
            t == v.date
            b == v.before
            a == v.after
<1>1. s \in GsScales /\ t \in Int /\ b \in Nat /\ a \in Nat
  BY DEF Spans
<1>2. AxisStart(v) = PeriodStart(s, StepDate(s, t, -b)) /\ AxisEnd(v) = PeriodStart(s, StepDate(s, t, a)) + GsPeriod[s]
  BY DEF AxisStart, AxisEnd
<1>. HIDE DEF s, t, b, a
<1>3. /\ StepDate(s, t, -b) = t - Length(s, b) /\ Length(s, b) \in Nat
      /\ StepDate(s, t, a) = t + Length(s, a) /\ Length(s, a) \in Nat
  BY <1>1, Steps
<1>4. AxisStart(v) = PeriodStart(s, t - Length(s, b)) /\ AxisEnd(v) = PeriodStart(s, t + Length(s, a)) + GsPeriod[s]
  BY <1>2, <1>3
<1>5. t - Length(s, b) \in Int /\ t + Length(s, a) \in Int
  BY <1>1, <1>3
<1>. QED
  BY <1>4, <1>5 DEF s, t, b, a

(* An axis is never empty. *)
LEMMA AxisSpans ==
    ASSUME NEW v, Spans(v)
    PROVE  /\ AxisStart(v) \in Int /\ AxisEnd(v) \in Int /\ AxisStart(v) < AxisEnd(v)
           /\ v.before = 0 /\ v.after = 0 => AxisEnd(v) - AxisStart(v) = GsPeriod[v.scale]
<1>1. Length(v.scale, v.before) \in Nat /\ Length(v.scale, v.after) \in Nat /\ Length(v.scale, 0) = 0
  BY Steps DEF Spans
<1>2. v.scale \in GsScales /\ v.date \in Int
  BY DEF Spans
<1>. QED
  BY <1>1, <1>2, AxisIs, PeriodHolds

(* An extended axis is another. *)
LEMMA Extends ==
    ASSUME NEW v, Spans(v), NEW w, Spans(w), w.scale = v.scale,
           \/ w.date = v.date /\ (w.before = v.before + 1 \/ w.after = v.after + 1)
           \/ /\ w.date \in {StepDate(v.scale, v.date, 1), StepDate(v.scale, v.date, -1)}
              /\ w.before = v.before
    PROVE  <<AxisStart(w), AxisEnd(w)>> # <<AxisStart(v), AxisEnd(v)>>
<1>0. v.scale \in GsScales /\ v.date \in Int /\ v.before \in Nat /\ v.after \in Nat
  BY DEF Spans
<1>. DEFINE a == v.date - Length(v.scale, v.before)
            b == v.date + Length(v.scale, v.after)
            p == GsPeriod[v.scale]
<1>1. a \in Int /\ b \in Int /\ p \in Int
  BY AxisIs, PeriodHolds, <1>0
<1>2. CASE w.before = v.before + 1 /\ w.date = v.date
  <2>1. w.date - Length(w.scale, w.before) = a - p
    <3>1. Length(v.scale, v.before + 1) = Length(v.scale, v.before) + p /\ Length(v.scale, v.before) \in Nat
      BY ONLY <1>0, Steps
    <3>2. w.date = v.date /\ w.scale = v.scale /\ w.before = v.before + 1
      BY <1>2
    <3>. QED
      BY <1>0, <1>1, <3>1, <3>2
  <2>2. AxisStart(w) = PeriodStart(v.scale, a - p)
    BY <2>1, AxisIs
  <2>. QED
    BY <1>0, <1>1, <2>2, AxisIs, PeriodHolds
<1>3. CASE w.after = v.after + 1 /\ w.date = v.date
  <2>1. w.date + Length(w.scale, w.after) = b + p
    <3>1. Length(v.scale, v.after + 1) = Length(v.scale, v.after) + p /\ Length(v.scale, v.after) \in Nat
      BY ONLY <1>0, Steps
    <3>2. w.date = v.date /\ w.scale = v.scale /\ w.after = v.after + 1
      BY <1>3
    <3>. QED
      BY <1>0, <1>1, <3>1, <3>2
  <2>2. AxisEnd(w) = PeriodStart(v.scale, b + p) + p
    BY <2>1, AxisIs
  <2>. QED
    BY <1>0, <1>1, <2>2, AxisIs, PeriodHolds
<1>4. CASE w.date \in {StepDate(v.scale, v.date, 1), StepDate(v.scale, v.date, -1)} /\ w.before = v.before
  <2>1. AxisStart(w) = PeriodStart(v.scale, a + p) \/ AxisStart(w) = PeriodStart(v.scale, a - p)
    <3>1. w.date \in {v.date + p, v.date - p} /\ Length(v.scale, v.before) \in Nat
      BY <1>0, <1>4, Steps
    <3>2. w.date - Length(w.scale, w.before) \in {a + p, a - p}
      BY <1>0, <1>1, <1>4, <3>1
    <3>. QED
      BY <3>2, AxisIs
  <2>. QED
    BY <1>0, <1>1, <2>1, AxisIs, PeriodHolds
<1>. QED
  BY <1>2, <1>3, <1>4

(* A pane shows something at every zoom. *)
LEMMA SeenIs ==
    ASSUME NEW v, v.scale \in GsScales, v.zoom \in {1, 2}
    PROVE  /\ Seen(v) \in Nat \ {0} /\ Seen(v) \div 2 \in Nat /\ Seen(v) \div 2 <= Seen(v)
           /\ v.zoom = 1 => Seen(v) = GsPane[v.scale]
           /\ v.zoom = 2 => Seen(v) = GsPane[v.scale] \div 2
<1>1. GsPane[v.scale] \in Nat \ {0, 1}
  BY ScrollAssumption DEF ScrollAssumption
<1>. DEFINE p == GsPane[v.scale]
<1>2. p \in Nat \ {0, 1}
  BY <1>1
<1>. HIDE DEF p
<1>3. p \div 1 = p /\ p \div 2 \in Nat \ {0}
  BY <1>2
<1>4. Seen(v) = p \div v.zoom
  BY DEF Seen, p
<1>5. Seen(v) \in Nat \ {0}
  BY <1>2, <1>3, <1>4
<1>. DEFINE q == Seen(v)
<1>6. q \in Nat \ {0}
  BY <1>5
<1>. HIDE DEF q
<1>7. q \div 2 \in Nat /\ q \div 2 <= q
  BY <1>6
<1>. QED
  BY <1>3, <1>4, <1>5, <1>7 DEF q, p

(* The scroller stays within its track; what is parked stays parked. *)
LEMMA ParkFits ==
    ASSUME NEW v, Spans(v), v.zoom \in {1, 2}, NEW x \in Int
    PROVE  /\ Park(v, x) \in Int /\ AxisStart(v) <= Park(v, x)
           /\ Park(v, x) = AxisStart(v) \/ Park(v, x) <= AxisEnd(v) - Seen(v)
           /\ ~Overflows(v) => Park(v, x) = AxisStart(v)
           /\ Park(v, Park(v, x)) = Park(v, x)
           /\ Park(v, Higher(AxisStart(v), Lower(x, AxisEnd(v)))) = Park(v, x)
           /\ AxisStart(v) <= x /\ x <= AxisEnd(v) - Seen(v) => Park(v, x) = x
<1>. DEFINE a == AxisStart(v)
            b == AxisEnd(v)
            s == Seen(v)
<1>1. a \in Int /\ b \in Int /\ a < b /\ s \in Nat
  BY AxisSpans, SeenIs DEF Spans
<1>2. \A y : Park(v, y) = Higher(a, Lower(y, b - s))
  BY DEF Park
<1>3. Overflows(v) <=> b - a > s
  BY DEF Overflows
<1>. HIDE DEF a, b, s
<1>4. /\ Park(v, x) \in Int /\ a <= Park(v, x)
      /\ Park(v, x) = a \/ Park(v, x) <= b - s
      /\ ~Overflows(v) => Park(v, x) = a
  BY <1>1, <1>2, <1>3 DEF Higher, Lower
<1>5. Park(v, Park(v, x)) = Park(v, x)
  BY <1>1, <1>2 DEF Higher, Lower
<1>6. Park(v, Higher(a, Lower(x, b))) = Park(v, x)
  BY <1>1, <1>2 DEF Higher, Lower
<1>7. a <= x /\ x <= b - s => Park(v, x) = x
  BY <1>1, <1>2 DEF Higher, Lower
<1>. QED
  BY <1>4, <1>5, <1>6, <1>7 DEF a, b, s

-----------------------------------------------------------------------------
(* The phases of a view that the parent does not control. *)

(* Where the view belongs: nothing is said of a view a pan led astray. *)
Aimed == CASE gsAim = NoInstant -> Target(gsStore) - Seen(Current) \div 2
           [] gsAim = Astray -> gsPort.left
           [] OTHER -> gsAim
Spot == Park(Current, Aimed)

LEMMA AimedIs ==
    /\ gsAim = NoInstant => Aimed = Target(gsStore) - Seen(Current) \div 2
    /\ gsAim = Astray => Aimed = gsPort.left
    /\ gsAim \notin {NoInstant, Astray} => Aimed = gsAim
    /\ gsAim \in Int => Aimed = gsAim /\ gsAim \notin {NoInstant, Astray}
BY ScrollAssumption DEF ScrollAssumption, Aimed

Axis(v) == <<AxisStart(v), AxisEnd(v)>>
NoRestore == gsPort.restore.at = NoInstant
Unmoved == gsStore.scale = gsPort.seen.scale /\ gsStore.date = gsPort.seen.date

(* A period at the anchor, to be centred. *)
Uncentred == gsAim = NoInstant /\ NoRestore /\ gsStore.before = 0 /\ gsStore.after = 0

(* Nothing is rendered yet. *)
Fresh == gsPort.seen = Unseen /\ gsPort.key = <<>> /\ Uncentred /\ ~gsPort.took /\ ~gsPort.moved
(* Rendered while the pane has no size; the observer will position it. *)
Hidden ==
    /\ gsPort.hidden /\ Settled /\ gsPort.waits /\ Uncentred
    /\ ~gsPort.buffered /\ ~gsPort.took /\ ~gsPort.moved
    /\ ~Overflows(Current) => gsPort.left = AxisStart(Current)
(* Rendered, and where it belongs. *)
Placed == Settled /\ NoRestore /\ gsPort.left = Spot
(* The anchor or the scale is new; the next commit positions it. *)
Navigated == Uncentred /\ ~gsStore.slid /\ gsPort.zoom = gsPort.seen.zoom /\ ~Unmoved
(* The positioning effect has widened the axis; the next commit centres. *)
Buffering ==
    /\ gsAim = NoInstant /\ NoRestore /\ ~gsPort.took /\ gsPort.buffered
    /\ Unmoved /\ gsPort.zoom = gsPort.seen.zoom /\ Axis(gsStore) # Axis(gsPort.seen)
(* An instant is remembered that the next commit puts back under the       *)
(* pointer, or in the middle.                                              *)
Zooming ==
    /\ gsAim \in Int /\ gsPort.restore.at \in Int /\ gsPort.zoom # gsPort.seen.zoom
    /\ Unmoved /\ gsStore.before = gsPort.seen.before /\ gsStore.after = gsPort.seen.after
    /\ LET v == Current IN
         Spot = Park(v, Higher(AxisStart(v), Lower(gsPort.restore.at, AxisEnd(v))) - gsPort.restore.back)
(* The user's travel has widened the axis, or slid the anchor: the next    *)
(* commit does not centre, it puts the left edge back.                     *)
Extending ==
    /\ gsAim \in Int /\ gsPort.restore = [at |-> gsAim, back |-> 0] /\ gsPort.took
    /\ gsStore.scale = gsPort.seen.scale /\ gsPort.zoom = gsPort.seen.zoom
    /\ Axis(gsStore) # Axis(gsPort.seen) /\ (gsStore.date # gsPort.seen.date => gsStore.slid)

Positioned ==
    \/ Fresh
    \/ /\ gsPort.seen \in Views /\ gsPort.key = <<gsPort.seen.scale, gsPort.seen.date>>
       /\ \/ Hidden
          \/ ~gsPort.hidden /\ (Placed \/ Navigated \/ Buffering \/ Zooming \/ Extending)

Scrolled == ScrollTyped /\ (gsLeft.controlled \/ Positioned)

(* The store and what is rendered of it have the same axis. *)
LEMMA CurrentIs ==
    ASSUME ScrollTyped
    PROVE  /\ Current \in Views /\ Spans(Current) /\ Spans(gsStore)
           /\ Current.scale = gsStore.scale /\ Current.date = gsStore.date
           /\ Current.before = gsStore.before /\ Current.after = gsStore.after
           /\ Current.zoom = gsPort.zoom /\ Current.zoom \in {1, 2}
           /\ AxisStart(Current) = AxisStart(gsStore) /\ AxisEnd(Current) = AxisEnd(gsStore)
  BY DEF ScrollTyped, Stores, Ports, Views, Current, Spans, AxisStart, AxisEnd

(* What is centred, and where the view belongs, are instants. *)
LEMMA TargetIs == ASSUME NEW st \in Stores PROVE Target(st) \in Int
  BY ScrollAssumption DEF ScrollAssumption, Target, Stores

LEMMA SpotIs == ASSUME ScrollTyped PROVE Spot \in Int /\ Park(Current, Spot) = Spot
<1>1. Aimed \in Int
  <2>1. Seen(Current) \div 2 \in Nat
    BY CurrentIs, SeenIs DEF Spans
  <2>2. Target(gsStore) \in Int
    BY TargetIs DEF ScrollTyped
  <2>3. gsPort.left \in Int /\ gsAim \in Int \cup {NoInstant, Astray}
    BY DEF ScrollTyped, Ports, Aims, Instants
  <2>. QED
    BY <2>1, <2>2, <2>3, AimedIs
<1>. QED
  BY <1>1, CurrentIs, ParkFits DEF Spot

(* When nothing is to be rendered the view is placed, or hidden. *)
LEMMA SettledPlaced ==
    ASSUME ScrollTyped, Positioned, Settled, ~gsPort.hidden
    PROVE  Placed /\ gsPort.seen \in Views /\ gsPort.key = <<gsPort.seen.scale, gsPort.seen.date>>
<1>1. gsPort.seen = Current
  BY DEF Settled
<1>2. Axis(gsStore) = Axis(gsPort.seen)
  BY <1>1, CurrentIs DEF Axis
<1>3. gsPort.seen # Unseen
  BY <1>1, CurrentIs, ScrollAssumption DEF ScrollAssumption, Unseen, Views
<1>4. Unmoved /\ gsPort.zoom = gsPort.seen.zoom
  BY <1>1, CurrentIs DEF Unmoved
<1>. QED
  BY <1>2, <1>3, <1>4 DEF Positioned, Fresh, Hidden, Navigated, Buffering, Zooming, Extending

-----------------------------------------------------------------------------
(* Extending a range. *)
Sides == {"before", "after"}
Stops(st, side) == \/ side = "before" /\ AxisStart(st) <= gsLeft.min
                   \/ side = "after" /\ AxisEnd(st) >= gsLeft.max

(* An extended store is a store. *)
LEMMA ExtendTyped ==
    ASSUME ScrollTyped, NEW st \in Stores, NEW side \in Sides
    PROVE  ExtendRange(st, side).st \in Stores /\ ExtendRange(st, side).done \in BOOLEAN
<1>. DEFINE next == StepDate(st.scale, st.date, IF side = "before" THEN -1 ELSE 1)
<1>1. next \in Int
  <2>1. st.scale \in GsScales /\ st.date \in Int
    BY DEF Stores
  <2>2. StepDate(st.scale, st.date, 1) \in Int /\ StepDate(st.scale, st.date, -1) \in Int
    BY <2>1, OneStep
  <2>. QED
    BY <2>2
<1>2. st[side] \in Nat /\ gsLeft.cap \in Nat
  BY DEF Stores, Sides, ScrollTyped, Scenes
<1>. DEFINE grown == [st EXCEPT ![side] = @ + 1]
            adopted == [st EXCEPT !.date = next, !.before = 0, !.after = 0, !.slid = FALSE]
            moved == [st EXCEPT !.date = next, !.slid = TRUE]
            e == ExtendRange(st, side)
<1>. HIDE DEF next
<1>3. st \in Stores /\ grown \in Stores /\ adopted \in Stores /\ moved \in Stores
  <2>1. grown \in Stores
    BY <1>2 DEF Stores, Sides
  <2>2. adopted \in Stores /\ moved \in Stores
    BY <1>1 DEF Stores
  <2>. QED
    BY <2>1, <2>2
<1>4. e \in [done : BOOLEAN, st : {st, grown, adopted, moved}]
  <2>. HIDE DEF grown, adopted, moved
  <2>1. e = CASE Stops(st, side) -> [done |-> FALSE, st |-> st]
             [] ~Stops(st, side) /\ st[side] < gsLeft.cap -> [done |-> TRUE, st |-> grown]
             [] ~Stops(st, side) /\ st[side] >= gsLeft.cap /\ gsLeft.controlled ->
                  [done |-> FALSE, st |-> adopted]
             [] OTHER -> [done |-> TRUE, st |-> moved]
    BY DEF ExtendRange, Stops, grown, adopted, moved, next
  <2>. QED
    BY <2>1
<1>. HIDE DEF grown, adopted, moved, e
<1>5. e.st \in {st, grown, adopted, moved} /\ e.done \in BOOLEAN
  BY <1>4
<1>. QED
  BY <1>3, <1>5 DEF e

(* An uncontrolled range that does not stop grows or slides: the axis is   *)
(* another.                                                                *)
LEMMA ExtendGrows ==
    ASSUME ScrollTyped, ~gsLeft.controlled, NEW st \in Stores, NEW side \in Sides
    PROVE  LET e == ExtendRange(st, side)
           IN  /\ Stops(st, side) => ~e.done /\ e.st = st
               /\ ~Stops(st, side) => e.done /\ Axis(e.st) # Axis(st)
               /\ e.st.scale = st.scale /\ (e.st.date # st.date => e.st.slid)
               /\ ~Stops(st, side) /\ st[side] = 0 => e.st = [st EXCEPT ![side] = 1]
<1>. DEFINE next == StepDate(st.scale, st.date, IF side = "before" THEN -1 ELSE 1)
            grown == [st EXCEPT ![side] = @ + 1]
            moved == [st EXCEPT !.date = next, !.slid = TRUE]
            e == ExtendRange(st, side)
<1>1. Spans(st) /\ gsLeft.cap \in Nat \ {0} /\ st[side] \in Nat
  BY DEF Stores, Spans, ScrollTyped, Scenes, Sides
<1>2. /\ Stops(st, side) => e = [done |-> FALSE, st |-> st]
      /\ ~Stops(st, side) /\ st[side] < gsLeft.cap => e = [done |-> TRUE, st |-> grown]
      /\ ~Stops(st, side) /\ ~(st[side] < gsLeft.cap) => e = [done |-> TRUE, st |-> moved]
  <2>. HIDE DEF grown, moved, next
  <2>1. /\ ExtendRange(st, side) =
           CASE Stops(st, side) -> [done |-> FALSE, st |-> st]
             [] ~Stops(st, side) /\ st[side] < gsLeft.cap -> [done |-> TRUE, st |-> grown]
             [] ~Stops(st, side) /\ st[side] >= gsLeft.cap /\ gsLeft.controlled ->
                 [done |-> FALSE,
                  st |-> [st EXCEPT !.date = next, !.before = 0, !.after = 0, !.slid = FALSE]]
             [] OTHER -> [done |-> TRUE, st |-> moved]
    BY DEF ExtendRange, Stops, grown, moved, next
  <2>2. st[side] < gsLeft.cap \/ st[side] >= gsLeft.cap
    BY <1>1
  <2>. QED
    BY <1>1, <2>1, <2>2
<1>3. Axis(grown) # Axis(st) /\ grown.scale = st.scale /\ grown.date = st.date
  <2>1. Spans(grown) /\ grown.scale = st.scale /\ grown.date = st.date
    BY <1>1 DEF Spans, Stores, Sides
  <2>2. grown.before = st.before + 1 \/ grown.after = st.after + 1
    BY DEF Stores, Sides
  <2>. HIDE DEF grown
  <2>. QED
    BY <1>1, <2>1, <2>2, Extends DEF Axis
<1>4. Axis(moved) # Axis(st) /\ moved.scale = st.scale /\ moved.slid
  <2>1. next \in {StepDate(st.scale, st.date, 1), StepDate(st.scale, st.date, -1)}
    OBVIOUS
  <2>2. next \in Int
    BY <1>1, <2>1, OneStep DEF Spans
  <2>. HIDE DEF next
  <2>3. Spans(moved) /\ moved.scale = st.scale /\ moved.date = next /\ moved.before = st.before
        /\ moved.slid
    BY <1>1, <2>2 DEF Spans, Stores
  <2>. HIDE DEF moved
  <2>. QED
    BY <1>1, <2>1, <2>3, Extends DEF Axis
<1>5. st[side] = 0 => grown = [st EXCEPT ![side] = 1] /\ st[side] < gsLeft.cap
  BY <1>1
<1>. HIDE DEF grown, moved
<1>. QED
  BY <1>2, <1>3, <1>4, <1>5

(* A period buffered on both sides: wider, and still that of the anchor.   *)
LEMMA Buffers ==
    ASSUME ScrollTyped, ~gsLeft.controlled, NEW st \in Stores, st.before = 0, st.after = 0
    PROVE  LET e == ExtendRange(ExtendRange(st, "before").st, "after").st
           IN  /\ e.scale = st.scale /\ e.date = st.date /\ Axis(e) # Axis(st)
<1>. DEFINE b == ExtendRange(st, "before").st
            e == ExtendRange(b, "after").st
<1>1. b \in Stores
  BY ExtendTyped DEF Sides
<1>2. b = st \/ b = [st EXCEPT !.before = 1]
  BY ExtendGrows DEF Sides
<1>3. b = st => Stops(st, "before")
  BY ExtendGrows DEF Sides
<1>4. b.after = 0 /\ b.date = st.date /\ b.scale = st.scale /\ (b.before = 0 \/ b.before = 1)
  BY <1>2 DEF Stores
<1>. HIDE DEF b
<1>5. (Stops(b, "after") => e = b) /\ (~Stops(b, "after") => e = [b EXCEPT !.after = 1])
  BY <1>1, <1>4, ExtendGrows DEF Sides
<1>6. Spans(st) /\ Spans(b)
  BY <1>1 DEF Spans, Stores
<1>7. AxisEnd(b) = AxisEnd(st)
  BY <1>4, <1>6 DEF AxisEnd
<1>8. ~(Stops(st, "before") /\ Stops(b, "after"))
  <2>1. AxisEnd(st) - AxisStart(st) = GsPeriod[st.scale] /\ AxisStart(st) \in Int /\ AxisEnd(st) \in Int
    BY <1>6, AxisSpans
  <2>2. gsLeft.max - gsLeft.min > GsPeriod[st.scale] /\ gsLeft.max \in Int /\ gsLeft.min \in Int
    BY <1>6 DEF ScrollTyped, Scenes, Spans
  <2>3. GsPeriod[st.scale] \in Nat
    BY <1>6, PeriodHolds DEF Spans
  <2>. QED
    BY <1>7, <2>1, <2>2, <2>3 DEF Stops
<1>9. e \in Stores /\ e.scale = st.scale /\ e.date = st.date
  BY <1>1, <1>4, <1>5 DEF Stores
<1>10. Axis(e) # Axis(st)
  <2>1. CASE Stops(b, "after")
    <3>1. e = b /\ b = [st EXCEPT !.before = 1]
      BY <1>2, <1>3, <1>5, <1>8, <2>1
    <3>2. e.before = st.before + 1
      BY <3>1 DEF Stores
    <3>. QED
      BY <1>6, <1>9, <3>2, Extends DEF Axis, Spans, Stores
  <2>2. CASE ~Stops(b, "after")
    <3>1. e.after = st.after + 1
      BY <1>1, <1>5, <2>2 DEF Stores
    <3>. QED
      BY <1>6, <1>9, <3>1, Extends DEF Axis, Spans, Stores
  <2>. QED
    BY <2>1, <2>2
<1>. QED
  BY <1>9, <1>10 DEF b

-----------------------------------------------------------------------------
(* The effects of a commit. *)

(* The positioning effect leaves a store and a scroller. *)
LEMMA PositionTyped ==
    ASSUME ScrollTyped, NEW st \in Stores, NEW pt \in Ports, NEW v \in Views
    PROVE  Position(st, pt, v).st \in Stores /\ Position(st, pt, v).pt \in Ports
<1>. DEFINE x == Park(v, Target(st) - Seen(v) \div 2)
<1>1. x \in Int
  <2>1. Spans(v) /\ v.zoom \in {1, 2} /\ v.scale \in GsScales
    BY DEF Views, Spans
  <2>2. Target(st) \in Int /\ Seen(v) \div 2 \in Nat
    BY <2>1, TargetIs, SeenIs
  <2>. QED
    BY <2>1, <2>2, ParkFits
<1>2. CASE pt.hidden
  <2>. DEFINE new == [pt EXCEPT !.waits = TRUE]
  <2>1. Position(st, pt, v) = [st |-> st, pt |-> new]
    BY <1>2 DEF Position
  <2>2. new \in Ports
    BY DEF Ports
  <2>. HIDE DEF new
  <2>. QED
    BY <2>1, <2>2
<1>3. CASE ~pt.hidden /\ gsLeft.infinite /\ ~pt.buffered
  <2>. DEFINE b == ExtendRange(ExtendRange(st, "before").st, "after").st
  <2>1. b \in Stores
    BY ExtendTyped DEF Sides
  <2>. DEFINE new == [pt EXCEPT !.waits = FALSE, !.buffered = TRUE, !.lock = TRUE]
  <2>2. Position(st, pt, v) = [st |-> b, pt |-> new]
    BY <1>3 DEF Position
  <2>3. new \in Ports
    BY DEF Ports
  <2>. HIDE DEF b, new
  <2>. QED
    BY <2>1, <2>2, <2>3
<1>4. CASE ~pt.hidden /\ ~(gsLeft.infinite /\ ~pt.buffered)
  <2>. DEFINE left == IF Overflows(v) THEN x ELSE pt.left
              moved == pt.moved \/ Overflows(v)
              new == [pt EXCEPT !.waits = FALSE, !.lock = FALSE, !.left = left, !.moved = moved]
  <2>1. Position(st, pt, v) = [st |-> st, pt |-> new]
    BY <1>4 DEF Position
  <2>2. left \in Int /\ moved \in BOOLEAN
    BY <1>1 DEF Ports
  <2>3. new \in Ports
    <3>. HIDE DEF left, moved
    <3>. QED
      BY <2>2 DEF Ports
  <2>. HIDE DEF new
  <2>. QED
    BY <2>1, <2>3
<1>. QED
  BY <1>2, <1>3, <1>4

(* The view positioned: a period at the anchor is buffered or centred.     *)
LEMMA PositionFields ==
    ASSUME ScrollTyped, NEW st \in Stores, NEW pt \in Ports, NEW v
    PROVE  LET p == Position(st, pt, v)
           IN  /\ p.pt.seen = pt.seen /\ p.pt.zoom = pt.zoom /\ p.pt.key = pt.key
               /\ p.pt.took = pt.took /\ p.pt.restore = pt.restore /\ p.pt.hidden = pt.hidden
               /\ pt.hidden => /\ p.st = st /\ p.pt.waits /\ p.pt.buffered = pt.buffered
                               /\ p.pt.moved = pt.moved /\ p.pt.left = pt.left
               /\ ~pt.hidden /\ gsLeft.infinite /\ ~pt.buffered =>
                    /\ p.st = ExtendRange(ExtendRange(st, "before").st, "after").st
                    /\ p.pt.buffered
               /\ ~pt.hidden /\ ~(gsLeft.infinite /\ ~pt.buffered) =>
                    /\ p.st = st
                    /\ p.pt.left = IF Overflows(v) THEN Park(v, Target(st) - Seen(v) \div 2)
                                   ELSE pt.left
<1>. DEFINE x == Park(v, Target(st) - Seen(v) \div 2)
            b == ExtendRange(ExtendRange(st, "before").st, "after").st
            Same(new) == /\ new.seen = pt.seen /\ new.zoom = pt.zoom /\ new.key = pt.key
                         /\ new.took = pt.took /\ new.restore = pt.restore
                         /\ new.hidden = pt.hidden
<1>1. CASE pt.hidden
  <2>. DEFINE new == [pt EXCEPT !.waits = TRUE]
  <2>1. Position(st, pt, v) = [st |-> st, pt |-> new]
    BY <1>1 DEF Position
  <2>2. Same(new) /\ new.waits /\ new.buffered = pt.buffered /\ new.moved = pt.moved
        /\ new.left = pt.left
    BY DEF Ports
  <2>. HIDE DEF new
  <2>3. Position(st, pt, v).st = st /\ Position(st, pt, v).pt = new
    BY <2>1
  <2>. QED
    BY <1>1, <2>2, <2>3
<1>2. CASE ~pt.hidden /\ gsLeft.infinite /\ ~pt.buffered
  <2>. DEFINE new == [pt EXCEPT !.waits = FALSE, !.buffered = TRUE, !.lock = TRUE]
  <2>1. Position(st, pt, v) = [st |-> b, pt |-> new]
    BY <1>2 DEF Position
  <2>2. Same(new) /\ new.buffered
    BY DEF Ports
  <2>. HIDE DEF b, new
  <2>3. Position(st, pt, v).st = b /\ Position(st, pt, v).pt = new
    BY <2>1
  <2>. QED
    BY <1>2, <2>2, <2>3 DEF b
<1>3. CASE ~pt.hidden /\ ~(gsLeft.infinite /\ ~pt.buffered)
  <2>. DEFINE new == [pt EXCEPT !.waits = FALSE, !.lock = FALSE,
                        !.left = IF Overflows(v) THEN x ELSE @, !.moved = @ \/ Overflows(v)]
  <2>1. Position(st, pt, v) = [st |-> st, pt |-> new]
    BY <1>3 DEF Position
  <2>2. Same(new) /\ new.left = IF Overflows(v) THEN x ELSE pt.left
    <3>. HIDE DEF x
    <3>. QED
      BY DEF Ports
  <2>. HIDE DEF new
  <2>3. Position(st, pt, v).st = st /\ Position(st, pt, v).pt = new
    BY <2>1
  <2>. QED
    BY <1>3, <2>2, <2>3
<1>. QED
  BY <1>1, <1>2, <1>3

(* CommitRender, effect by effect. *)
Laid == [gsPort EXCEPT !.seen = Current, !.left = Carried(Current)]
NewAxis == Current.scale # gsPort.seen.scale \/ Axis(Current) # Axis(gsPort.seen)
Relaid == IF NewAxis \/ Current.date # gsPort.seen.date THEN AutoPosition(gsStore, Laid, Current)
        ELSE [st |-> gsStore, pt |-> Laid]
Seated == IF NewAxis \/ Current.zoom # gsPort.seen.zoom THEN Reseat(Relaid.pt, Current) ELSE Relaid.pt

(* Where the browser leaves the scroller of a new axis. *)
LEMMA CarriedFits ==
    ASSUME ScrollTyped
    PROVE  /\ Carried(Current) \in Int
           /\ ~Overflows(Current) => Carried(Current) = AxisStart(Current)
<1>1. Spans(Current) /\ Current.zoom \in {1, 2} /\ AxisStart(Current) \in Int
  BY CurrentIs, AxisSpans
<1>2. CASE Current.scale # gsPort.seen.scale
  BY <1>1, <1>2 DEF Carried
<1>3. CASE Current.scale = gsPort.seen.scale
  <2>1. gsPort.seen # Unseen
    BY <1>1, <1>3, ScrollAssumption DEF ScrollAssumption, Unseen, Spans
  <2>2. gsPort.seen \in Views /\ gsPort.left \in Int
    BY <2>1 DEF ScrollTyped, Ports
  <2>3. AxisStart(gsPort.seen) \in Int
    BY <2>2, AxisSpans DEF Views, Spans
  <2>4. AxisStart(Current) + gsPort.left - AxisStart(gsPort.seen) \in Int
    BY <1>1, <2>2, <2>3
  <2>. QED
    BY <1>1, <1>3, <2>4, ParkFits DEF Carried
<1>. QED
  BY <1>2, <1>3

LEMMA LaidIs ==
    ASSUME ScrollTyped
    PROVE  /\ Laid \in Ports /\ Laid.seen = Current /\ Laid.left = Carried(Current)
           /\ \A f \in {"zoom", "key", "buffered", "took", "lock", "restore", "hidden", "moved"} :
                Laid[f] = gsPort[f]
<1>1. Carried(Current) \in Int /\ Current \in Views
  BY CarriedFits, CurrentIs
<1>2. gsPort \in Ports
  BY DEF ScrollTyped
<1>. QED
  BY <1>1, <1>2 DEF Laid, Ports

(* The restoring effect touches nothing else, and nothing if nothing is    *)
(* remembered.                                                             *)
LEMMA ReseatIs ==
    ASSUME NEW pt \in Ports, NEW v \in Views
    PROVE  /\ Reseat(pt, v) \in Ports
           /\ \A f \in {"zoom", "key", "buffered", "took", "seen", "hidden", "waits"} :
                Reseat(pt, v)[f] = pt[f]
           /\ Reseat(pt, v).restore.at = NoInstant
           /\ pt.restore.at = NoInstant => /\ Reseat(pt, v).left = pt.left
                                           /\ Reseat(pt, v).moved = pt.moved
           /\ pt.restore.at # NoInstant => Reseat(pt, v).left =
                Park(v, Higher(AxisStart(v), Lower(pt.restore.at, AxisEnd(v))) - pt.restore.back)
<1>. DEFINE x == Park(v, Higher(AxisStart(v), Lower(pt.restore.at, AxisEnd(v))) - pt.restore.back)
<1>1. CASE pt.restore.at = NoInstant
  <2>1. Reseat(pt, v) = [pt EXCEPT !.lock = FALSE]
    BY <1>1 DEF Reseat
  <2>. QED
    BY <1>1, <2>1 DEF Ports
<1>2. CASE pt.restore.at # NoInstant
  <2>1. Reseat(pt, v) = [pt EXCEPT !.lock = FALSE, !.restore = [at |-> NoInstant, back |-> 0],
                                   !.left = x, !.moved = TRUE]
    BY <1>2 DEF Reseat
  <2>2. x \in Int
    <3>1. Spans(v) /\ v.zoom \in {1, 2}
      BY DEF Views, Spans
    <3>2. pt.restore.at \in Int /\ pt.restore.back \in Int
      BY <1>2 DEF Ports, Instants
    <3>3. Higher(AxisStart(v), Lower(pt.restore.at, AxisEnd(v))) - pt.restore.back \in Int
      BY <3>1, <3>2, AxisSpans DEF Higher, Lower
    <3>. QED
      BY <3>1, <3>3, ParkFits
  <2>. HIDE DEF x
  <2>. DEFINE new == [pt EXCEPT !.lock = FALSE, !.restore = [at |-> NoInstant, back |-> 0],
                        !.left = x, !.moved = TRUE]
  <2>3. new \in Ports
    <3>1. [at |-> NoInstant, back |-> 0] \in [at : Instants, back : Int]
      BY DEF Instants
    <3>. QED
      BY <2>2, <3>1 DEF Ports
  <2>4. /\ new.zoom = pt.zoom /\ new.key = pt.key /\ new.buffered = pt.buffered
        /\ new.took = pt.took /\ new.seen = pt.seen /\ new.hidden = pt.hidden
        /\ new.waits = pt.waits /\ new.restore = [at |-> NoInstant, back |-> 0] /\ new.left = x
    BY DEF Ports
  <2>5. Reseat(pt, v) = new
    BY <2>1
  <2>. HIDE DEF new
  <2>. QED
    BY <1>2, <2>3, <2>4, <2>5 DEF x
<1>. QED
  BY <1>1, <1>2

Key == <<Current.scale, Current.date>>
Keyed == IF Laid.key = Key THEN Laid
         ELSE [Laid EXCEPT !.key = Key, !.buffered = (Laid.took /\ gsStore.slid) /\ @,
                           !.took = Laid.took /\ gsStore.slid]

(* The travel of the user is kept across a slide and ends with any other   *)
(* new anchor or scale.                                                    *)
LEMMA KeyedIs ==
    ASSUME ScrollTyped
    PROVE  /\ Keyed \in Ports /\ Keyed.seen = Current /\ Keyed.key = Key
           /\ Keyed.left = Carried(Current)
           /\ \A f \in {"zoom", "restore", "hidden", "moved"} : Keyed[f] = gsPort[f]
           /\ gsPort.key = Key => Keyed.took = gsPort.took /\ Keyed.buffered = gsPort.buffered
           /\ gsPort.key # Key => (Keyed.took <=> gsPort.took /\ gsStore.slid)
           /\ ~Keyed.took /\ gsPort.key # Key => ~Keyed.buffered
<1>1. Laid \in Ports /\ Laid.key = gsPort.key /\ Laid.took = gsPort.took /\ Laid.buffered = gsPort.buffered
  BY LaidIs
<1>. DEFINE took == Laid.took /\ gsStore.slid
            buffered == took /\ Laid.buffered
            new == [Laid EXCEPT !.key = Key, !.buffered = buffered, !.took = took]
<1>2. Keyed = IF Laid.key = Key THEN Laid ELSE new
  BY DEF Keyed
<1>3. took \in BOOLEAN /\ buffered \in BOOLEAN /\ Key \in GsScales \X Int
  BY <1>1, CurrentIs DEF Ports, Key, Spans
<1>4. /\ new \in Ports /\ new.key = Key /\ new.took = took /\ new.buffered = buffered
      /\ \A f \in {"zoom", "restore", "hidden", "moved", "seen", "left"} : new[f] = Laid[f]
  <2>. HIDE DEF took, buffered
  <2>. QED
    BY <1>1, <1>3 DEF Ports
<1>5. CASE Laid.key = Key
  BY <1>1, <1>2, <1>5, LaidIs
<1>6. CASE Laid.key # Key
  <2>1. Keyed = new /\ gsPort.key # Key
    BY <1>1, <1>2, <1>6
  <2>2. \A f \in {"zoom", "restore", "hidden", "moved"} : new[f] = gsPort[f]
    BY <1>4, LaidIs
  <2>3. new.seen = Current /\ new.left = Carried(Current)
    BY <1>4, LaidIs
  <2>4. new.took <=> gsPort.took /\ gsStore.slid
    BY <1>1, <1>4
  <2>5. ~new.took => ~new.buffered
    BY <1>4
  <2>. HIDE DEF new
  <2>. QED
    BY <1>4, <2>1, <2>2, <2>3, <2>4, <2>5
<1>. QED
  BY <1>5, <1>6

(* The positioning effect, or none; *)
LEMMA RelaidIs ==
    ASSUME ScrollTyped
    PROVE  /\ Relaid.st \in Stores /\ Relaid.pt \in Ports
           /\ ~(NewAxis \/ Current.date # gsPort.seen.date) => Relaid = [st |-> gsStore, pt |-> Laid]
           /\ NewAxis \/ Current.date # gsPort.seen.date =>
                Relaid = IF Keyed.took THEN [st |-> gsStore, pt |-> Keyed]
                       ELSE Position(gsStore, Keyed, Current)
           /\ Relaid.pt.seen = Current /\ Relaid.pt.zoom = gsPort.zoom
           /\ Relaid.pt.restore = gsPort.restore /\ Relaid.pt.hidden = gsPort.hidden
<1>1. gsStore \in Stores /\ Current \in Views
  BY CurrentIs DEF ScrollTyped
<1>2. AutoPosition(gsStore, Laid, Current) =
        IF Keyed.took THEN [st |-> gsStore, pt |-> Keyed] ELSE Position(gsStore, Keyed, Current)
  BY DEF AutoPosition, Keyed, Key
<1>3. Relaid = IF NewAxis \/ Current.date # gsPort.seen.date
             THEN IF Keyed.took THEN [st |-> gsStore, pt |-> Keyed]
                  ELSE Position(gsStore, Keyed, Current)
             ELSE [st |-> gsStore, pt |-> Laid]
  BY <1>2 DEF Relaid
<1>4. Laid \in Ports /\ Laid.seen = Current /\ Laid.zoom = gsPort.zoom
      /\ Laid.restore = gsPort.restore /\ Laid.hidden = gsPort.hidden
  BY LaidIs
<1>5. Keyed \in Ports /\ Keyed.seen = Current /\ Keyed.zoom = gsPort.zoom
      /\ Keyed.restore = gsPort.restore /\ Keyed.hidden = gsPort.hidden
  BY KeyedIs
<1>6. LET p == Position(gsStore, Keyed, Current)
      IN  /\ p.st \in Stores /\ p.pt \in Ports /\ p.pt.seen = Current /\ p.pt.zoom = gsPort.zoom
          /\ p.pt.restore = gsPort.restore /\ p.pt.hidden = gsPort.hidden
  BY <1>1, <1>5, PositionTyped, PositionFields
<1>. QED
  BY <1>1, <1>3, <1>4, <1>5, <1>6

LEMMA CommitIs ==
    ASSUME ScrollTyped, CommitRender
    PROVE  /\ ~Settled /\ gsStore' = Relaid.st /\ UNCHANGED <<gsAim, gsLeft>>
           /\ gsPort' \in Ports
           /\ \A f \in {"zoom", "left", "seen", "key", "buffered", "took", "restore", "hidden",
                        "waits", "moved"} : gsPort'[f] = Seated[f]
<1>1. Relaid.pt \in Ports /\ Current \in Views
  BY RelaidIs, CurrentIs
<1>2. Seated \in Ports
  BY <1>1, ReseatIs DEF Seated
<1>3. gsStore' = Relaid.st /\ gsPort' = IF NewAxis
        THEN [Seated EXCEPT !.frame = TRUE, !.named = NoInstant] ELSE Seated
  BY DEF CommitRender, Relaid, Seated, NewAxis, Laid, Axis
<1>. DEFINE new == [Seated EXCEPT !.frame = TRUE, !.named = NoInstant]
<1>4. new \in Ports /\ \A f \in {"zoom", "left", "seen", "key", "buffered", "took", "restore", "hidden",
                        "waits", "moved"} : new[f] = Seated[f]
  BY <1>2 DEF Ports, Instants
<1>5. ~Settled /\ UNCHANGED <<gsAim, gsLeft>>
  BY DEF CommitRender
<1>. HIDE DEF new
<1>6. gsPort' = new \/ gsPort' = Seated
  BY <1>3 DEF new
<1>. QED
  BY <1>2, <1>3, <1>4, <1>5, <1>6

LEMMA CommitTyped == ASSUME ScrollTyped, CommitRender PROVE ScrollTyped'
<1>1. gsStore' \in Stores /\ gsPort' \in Ports /\ UNCHANGED <<gsAim, gsLeft>>
  BY CommitIs, RelaidIs
<1>. QED
  BY <1>1 DEF ScrollTyped

(* and after it the restoring effect, or none. *)
LEMMA SeatedIs ==
    ASSUME ScrollTyped
    PROVE  /\ Seated \in Ports /\ Seated.seen = Current
           /\ \A f \in {"zoom", "key", "buffered", "took", "seen", "hidden", "waits"} :
                Seated[f] = Relaid.pt[f]
           /\ NoRestore => /\ Seated.restore.at = NoInstant /\ Seated.left = Relaid.pt.left
                           /\ Seated.moved = Relaid.pt.moved
           /\ NewAxis \/ Current.zoom # gsPort.seen.zoom =>
                /\ Seated.restore.at = NoInstant
                /\ ~NoRestore => Seated.left =
                     Park(Current, Higher(AxisStart(Current), Lower(gsPort.restore.at, AxisEnd(Current)))
                                   - gsPort.restore.back)
<1>1. Relaid.pt \in Ports /\ Current \in Views /\ Relaid.pt.restore = gsPort.restore /\ Relaid.pt.seen = Current
  BY RelaidIs, CurrentIs
<1>2. CASE NewAxis \/ Current.zoom # gsPort.seen.zoom
  <2>1. Seated = Reseat(Relaid.pt, Current)
    BY <1>2 DEF Seated
  <2>. QED
    BY <1>1, <1>2, <2>1, ReseatIs DEF NoRestore
<1>3. CASE ~(NewAxis \/ Current.zoom # gsPort.seen.zoom)
  <2>1. Seated = Relaid.pt
    BY <1>3 DEF Seated
  <2>. QED
    BY <1>1, <1>3, <2>1 DEF NoRestore
<1>. QED
  BY <1>2, <1>3

(* Where the view belongs, of a store and a view that stay.                *)
LEMMA SameSpot ==
    ASSUME ScrollTyped, gsStore'.scale = gsStore.scale, gsStore'.date = gsStore.date,
           gsStore'.before = gsStore.before, gsStore'.after = gsStore.after,
           gsPort'.zoom = gsPort.zoom
    PROVE  /\ Current' = Current
           /\ gsAim' = gsAim /\ (gsAim = Astray => gsPort'.left = gsPort.left) => Spot' = Spot
<1>1. Current' = Current
  BY DEF Current
<1>2. Target(gsStore)' = Target(gsStore)
  BY DEF Target, PeriodStart
<1>3. Seen(Current)' = Seen(Current)
  BY <1>1 DEF Seen
<1>4. gsAim' = gsAim /\ (gsAim = Astray => gsPort'.left = gsPort.left) => Aimed' = Aimed
  BY <1>2, <1>3 DEF Aimed
<1>. QED
  BY <1>1, <1>4 DEF Spot, Park, AxisStart, AxisEnd, Seen, PeriodStart, StepDate

(* A view whose store stays is rendered where the effects left it.         *)
LEMMA RenderedAt ==
    ASSUME ScrollTyped, CommitRender, Relaid.st = gsStore, Relaid.pt.key = Key,
           Seated.restore.at = NoInstant, gsAim # Astray
    PROVE  /\ Settled' /\ NoRestore' /\ gsPort'.seen \in Views
           /\ gsPort'.key = <<gsPort'.seen.scale, gsPort'.seen.date>>
           /\ Seated.left = Spot => Placed'
<1>1. gsStore' = gsStore /\ gsAim' = gsAim
  BY CommitIs
<1>2. gsPort'.zoom = gsPort.zoom /\ gsPort'.seen = Current /\ gsPort'.key = Key
      /\ gsPort'.restore = Seated.restore /\ gsPort'.left = Seated.left
  BY CommitIs, SeatedIs, RelaidIs
<1>3. Current' = Current /\ Spot' = Spot
  BY <1>1, <1>2, SameSpot
<1>. QED
  BY <1>2, <1>3, CurrentIs DEF Settled, NoRestore, Key, Placed

(* A period at the anchor is positioned anew.                              *)
LEMMA Anew ==
    ASSUME ScrollTyped, ~gsLeft.controlled, CommitRender, Uncentred,
           NewAxis \/ Current.date # gsPort.seen.date, ~Keyed.took, ~Keyed.buffered,
           gsPort.hidden => ~gsPort.moved
    PROVE  Positioned'
<1>. DEFINE p == Position(gsStore, Keyed, Current)
<1>0. gsAim # Astray
  BY ScrollAssumption DEF ScrollAssumption, Uncentred
<1>1. Relaid = p /\ Keyed \in Ports /\ Keyed.key = Key /\ Keyed.hidden = gsPort.hidden
      /\ Keyed.moved = gsPort.moved /\ Keyed.left = Carried(Current)
  BY RelaidIs, KeyedIs
<1>2. p.pt.key = Key /\ p.pt.took = Keyed.took
  BY <1>1, PositionFields DEF ScrollTyped
<1>3. Seated.restore.at = NoInstant /\ Seated.left = Relaid.pt.left /\ Seated.moved = Relaid.pt.moved
  BY SeatedIs DEF Uncentred
<1>4. /\ gsPort'.key = Key /\ ~gsPort'.took /\ gsPort'.seen = Current /\ gsPort'.zoom = gsPort.zoom
      /\ gsPort'.buffered = p.pt.buffered /\ gsPort'.waits = p.pt.waits
      /\ gsPort'.hidden = gsPort.hidden /\ gsPort'.restore.at = NoInstant
      /\ gsPort'.moved = p.pt.moved /\ gsStore' = p.st /\ gsAim' = NoInstant
      /\ UNCHANGED gsLeft
  BY <1>1, <1>2, <1>3, CommitIs, SeatedIs, RelaidIs DEF Uncentred
<1>5. Current \in Views /\ Key = <<Current.scale, Current.date>>
  BY CurrentIs DEF Key
<1>6. CASE gsPort.hidden
  <2>0. Keyed.hidden /\ gsStore \in Stores
    BY <1>1, <1>6 DEF ScrollTyped
  <2>1. p.st = gsStore /\ p.pt.waits /\ p.pt.buffered = Keyed.buffered /\ p.pt.moved = Keyed.moved
        /\ p.pt.left = Keyed.left
    BY <1>1, <2>0, PositionFields
  <2>2. Settled'
    BY <1>0, <1>1, <1>2, <1>3, <2>1, RenderedAt
  <2>3. Uncentred'
    BY <1>4, <2>1 DEF Uncentred, NoRestore
  <2>4. Current' = Current /\ gsPort'.left = Carried(Current)
    BY <1>1, <1>3, <1>4, <2>1, SameSpot, CommitIs
  <2>5. (~Overflows(Current) => gsPort.left = AxisStart(Current))'
    BY <2>4, CarriedFits DEF Overflows, Seen, AxisStart, AxisEnd, PeriodStart, StepDate
  <2>6. Hidden'
    BY <1>1, <1>4, <1>6, <2>1, <2>2, <2>3, <2>5 DEF Hidden
  <2>. QED
    BY <1>4, <1>5, <2>6 DEF Positioned
<1>7. CASE ~gsPort.hidden /\ gsLeft.infinite
  <2>1. p.st = ExtendRange(ExtendRange(gsStore, "before").st, "after").st /\ p.pt.buffered
    BY <1>1, <1>7, PositionFields DEF ScrollTyped
  <2>2. p.st.scale = gsStore.scale /\ p.st.date = gsStore.date /\ Axis(p.st) # Axis(gsStore)
    BY <2>1, Buffers DEF ScrollTyped, Uncentred
  <2>3. Axis(gsStore') # Axis(gsPort'.seen)
    BY <1>4, <2>2, CurrentIs DEF Axis
  <2>4. Unmoved' /\ gsPort'.zoom = gsPort'.seen.zoom
    BY <1>4, <2>2, CurrentIs DEF Unmoved
  <2>5. (Axis(gsStore) # Axis(gsPort.seen))'
    BY <2>3 DEF Axis, AxisStart, AxisEnd, PeriodStart, StepDate
  <2>6. Buffering'
    BY <1>4, <2>1, <2>4, <2>5 DEF Buffering, NoRestore
  <2>. QED
    BY <1>4, <1>5, <1>7, <2>6 DEF Positioned
<1>8. CASE ~gsPort.hidden /\ ~gsLeft.infinite
  <2>1. p.st = gsStore /\ p.pt.left = IF Overflows(Current)
            THEN Park(Current, Target(gsStore) - Seen(Current) \div 2) ELSE Carried(Current)
    BY <1>1, <1>8, PositionFields DEF ScrollTyped
  <2>2. p.pt.left = Spot
    <3>1. CASE Overflows(Current)
      BY <2>1, <3>1, AimedIs DEF Spot, Uncentred
    <3>2. CASE ~Overflows(Current)
      <4>1. p.pt.left = AxisStart(Current)
        BY <2>1, <3>2, CarriedFits
      <4>2. Target(gsStore) - Seen(Current) \div 2 \in Int
        BY CurrentIs, SeenIs, TargetIs DEF Spans, ScrollTyped
      <4>3. Spot = AxisStart(Current)
        BY <3>2, <4>2, CurrentIs, ParkFits, AimedIs DEF Spot, Uncentred
      <4>. QED
        BY <4>1, <4>3
    <3>. QED
      BY <3>1, <3>2
  <2>3. Placed'
    BY <1>0, <1>1, <1>2, <1>3, <2>1, <2>2, RenderedAt
  <2>. QED
    BY <1>4, <1>5, <1>8, <2>3 DEF Positioned
<1>. QED
  BY <1>6, <1>7, <1>8

(* From every phase a commit leads to another. *)
LEMMA CommitPlaces ==
    ASSUME ScrollTyped, ~gsLeft.controlled, Positioned, CommitRender
    PROVE  Positioned'
<1>0. Astray \notin Int \cup {NoInstant}
  BY ScrollAssumption DEF ScrollAssumption
<1>1. /\ Current.scale = gsStore.scale /\ Current.date = gsStore.date
      /\ Axis(Current) = Axis(gsStore) /\ Current.zoom = gsPort.zoom
      /\ Current.before = gsStore.before /\ Current.after = gsStore.after /\ Current \in Views
  BY CurrentIs DEF Axis
<1>2. ~Settled
  BY CommitIs
<1>. DEFINE Keeps == gsPort.seen \in Views /\ gsPort.key = <<gsPort.seen.scale, gsPort.seen.date>>
<1>3. CASE Fresh
  <2>1. NewAxis
    BY <1>1, <1>3, CurrentIs, ScrollAssumption DEF Fresh, Unseen, NewAxis, ScrollAssumption, Spans
  <2>2. gsPort.key # Key
    BY <1>3 DEF Fresh, Key
  <2>3. ~Keyed.took /\ ~Keyed.buffered
    BY <1>3, <2>2, KeyedIs DEF Fresh
  <2>. QED
    BY <1>3, <2>1, <2>3, Anew DEF Fresh
<1>4. CASE Keeps /\ ~gsPort.hidden /\ Navigated
  <2>1. NewAxis \/ Current.date # gsPort.seen.date
    BY <1>1, <1>4 DEF Navigated, Unmoved, NewAxis
  <2>2. gsPort.key # Key
    BY <1>1, <1>4 DEF Navigated, Unmoved, Key
  <2>3. ~Keyed.took /\ ~Keyed.buffered
    BY <1>4, <2>2, KeyedIs DEF Navigated
  <2>. QED
    BY <1>4, <2>1, <2>3, Anew DEF Navigated
<1>5. CASE Keeps /\ ~gsPort.hidden /\ Buffering
  <2>. DEFINE p == Position(gsStore, Keyed, Current)
  <2>1. NewAxis /\ gsPort.key = Key
    BY <1>1, <1>5 DEF Buffering, Unmoved, NewAxis, Key
  <2>2. ~Keyed.took /\ Keyed.buffered /\ Keyed \in Ports /\ ~Keyed.hidden /\ Keyed.key = Key
        /\ Keyed.left = Carried(Current)
    BY <1>5, <2>1, KeyedIs DEF Buffering
  <2>3. Relaid = p
    BY <2>1, <2>2, RelaidIs
  <2>4. p.st = gsStore /\ p.pt.key = Key /\ p.pt.left = IF Overflows(Current)
            THEN Park(Current, Target(gsStore) - Seen(Current) \div 2) ELSE Carried(Current)
    BY <2>2, PositionFields DEF ScrollTyped
  <2>5. p.pt.left = Spot
    <3>1. CASE Overflows(Current)
      BY <1>5, <2>4, <3>1, AimedIs DEF Spot, Buffering
    <3>2. CASE ~Overflows(Current)
      <4>1. p.pt.left = AxisStart(Current)
        BY <2>4, <3>2, CarriedFits
      <4>2. Target(gsStore) - Seen(Current) \div 2 \in Int
        BY CurrentIs, SeenIs, TargetIs DEF Spans, ScrollTyped
      <4>3. Spot = AxisStart(Current)
        BY <1>5, <3>2, <4>2, CurrentIs, ParkFits, AimedIs DEF Spot, Buffering
      <4>. QED
        BY <4>1, <4>3
    <3>. QED
      BY <3>1, <3>2
  <2>6. Seated.restore.at = NoInstant /\ Seated.left = p.pt.left
    BY <1>5, <2>3, SeatedIs DEF Buffering
  <2>7. Placed' /\ gsPort'.seen \in Views /\ gsPort'.key = <<gsPort'.seen.scale, gsPort'.seen.date>>
    BY <1>0, <1>5, <2>3, <2>4, <2>5, <2>6, RenderedAt DEF Buffering
  <2>8. ~gsPort'.hidden
    BY <1>5, CommitIs, SeatedIs, RelaidIs
  <2>. QED
    BY <2>7, <2>8 DEF Positioned
<1>6. CASE Keeps /\ ~gsPort.hidden /\ Zooming
  <2>1. ~NewAxis /\ Current.date = gsPort.seen.date /\ gsPort.key = Key
    BY <1>1, <1>6 DEF Zooming, Unmoved, NewAxis, Axis, AxisStart, AxisEnd, Key
  <2>2. Relaid = [st |-> gsStore, pt |-> Laid] /\ Laid.key = gsPort.key
    BY <2>1, RelaidIs, LaidIs
  <2>3. gsPort.restore.at \in Int /\ Current.zoom # gsPort.seen.zoom
    BY <1>1, <1>6 DEF Zooming
  <2>4. ~NoRestore
    BY <2>3, ScrollAssumption DEF NoRestore, ScrollAssumption
  <2>5. Seated.restore.at = NoInstant /\ Seated.left = Spot
    BY <1>6, <2>3, <2>4, SeatedIs DEF Zooming
  <2>6. Placed' /\ gsPort'.seen \in Views /\ gsPort'.key = <<gsPort'.seen.scale, gsPort'.seen.date>>
    BY <1>0, <1>6, <2>1, <2>2, <2>5, RenderedAt DEF Zooming
  <2>7. ~gsPort'.hidden
    BY <1>6, CommitIs, SeatedIs, RelaidIs
  <2>. QED
    BY <2>6, <2>7 DEF Positioned
<1>7. CASE Keeps /\ ~gsPort.hidden /\ Extending
  <2>1. NewAxis
    BY <1>1, <1>7 DEF Extending, NewAxis
  <2>2. gsPort.key = Key \/ gsStore.slid
    BY <1>1, <1>7 DEF Extending, Key
  <2>3. Keyed.took /\ Keyed.key = Key
    BY <1>7, <2>2, KeyedIs DEF Extending
  <2>4. Relaid = [st |-> gsStore, pt |-> Keyed]
    BY <2>1, <2>3, RelaidIs
  <2>5. ~NoRestore /\ gsPort.restore.at = gsAim /\ gsPort.restore.back = 0 /\ gsAim \in Int
        /\ gsAim # NoInstant
    BY <1>7, ScrollAssumption DEF NoRestore, ScrollAssumption, Extending
  <2>6. Seated.restore.at = NoInstant /\ Seated.left =
          Park(Current, Higher(AxisStart(Current), Lower(gsAim, AxisEnd(Current))) - 0)
    BY <2>1, <2>5, SeatedIs
  <2>7. Seated.left = Park(Current, gsAim)
    <3>1. Higher(AxisStart(Current), Lower(gsAim, AxisEnd(Current))) \in Int
      BY <2>5, CurrentIs, AxisSpans DEF Higher, Lower
    <3>2. Seated.left = Park(Current, Higher(AxisStart(Current), Lower(gsAim, AxisEnd(Current))))
      <4>. DEFINE h == Higher(AxisStart(Current), Lower(gsAim, AxisEnd(Current)))
      <4>1. h - 0 = h
        BY <3>1
      <4>. HIDE DEF h
      <4>2. Seated.left = Park(Current, h - 0)
        BY <2>6 DEF h
      <4>. QED
        BY <4>1, <4>2 DEF h
    <3>. QED
      BY <2>5, <3>2, CurrentIs, ParkFits
  <2>8. Seated.left = Spot
    BY <2>5, <2>7, AimedIs DEF Spot
  <2>9. Placed' /\ gsPort'.seen \in Views /\ gsPort'.key = <<gsPort'.seen.scale, gsPort'.seen.date>>
    BY <1>0, <2>3, <2>4, <2>5, <2>6, <2>8, RenderedAt
  <2>10. ~gsPort'.hidden
    BY <1>7, CommitIs, SeatedIs, RelaidIs
  <2>. QED
    BY <2>9, <2>10 DEF Positioned
<1>. QED
  BY <1>2, <1>3, <1>4, <1>5, <1>6, <1>7 DEF Positioned, Hidden, Placed

-----------------------------------------------------------------------------
(* The other steps. *)

LEMMA InitScrolled == GsInit => Scrolled
<1>. SUFFICES ASSUME GsInit PROVE Scrolled
  OBVIOUS
<1>1. gsLeft \in Scenes /\ \A s \in GsScales : gsLeft.max - gsLeft.min > GsPeriod[s]
  BY ScrollAssumption DEF ScrollAssumption, Scenes, GsInit
<1>2. gsStore \in Stores
  BY <1>1 DEF GsInit, Stores, Scenes, Instants
<1>3. PeriodStart(gsLeft.scale, gsLeft.date) \in Int
  BY <1>1, PeriodHolds DEF Scenes
<1>4. gsPort \in Ports
  <2>. DEFINE left == PeriodStart(gsLeft.scale, gsLeft.date)
  <2>1. gsPort =
          [zoom |-> 1, left |-> left,
           seen |-> Unseen, key |-> <<>>, buffered |-> FALSE, took |-> FALSE,
           lock |-> FALSE, restore |-> [at |-> NoInstant, back |-> 0], frame |-> FALSE,
           named |-> NoInstant, chip |-> NoInstant, moved |-> FALSE, intent |-> FALSE,
           hidden |-> gsLeft.hidden, waits |-> FALSE, pan |-> <<>>]
    BY DEF GsInit, Unseen
  <2>2. left \in Int /\ gsLeft.hidden \in BOOLEAN /\ NoInstant \in Instants
        /\ [at |-> NoInstant, back |-> 0] \in [at : Instants, back : Int]
    BY <1>1, <1>3 DEF Scenes, Instants
  <2>. HIDE DEF left
  <2>. QED
    BY <2>1, <2>2 DEF Ports
<1>5. Fresh
  BY DEF GsInit, Fresh, Unseen, Uncentred, NoRestore
<1>. QED
  BY <1>1, <1>2, <1>4, <1>5 DEF Scrolled, ScrollTyped, Positioned, GsInit, Aims, Instants

(* A step that moves neither the range nor the pane.                       *)
LEMMA StaysPlaced ==
    ASSUME ScrollTyped, Positioned, Settled, ~gsPort.hidden, gsPort'.hidden = gsPort.hidden,
           gsStore'.scale = gsStore.scale, gsStore'.date = gsStore.date,
           gsStore'.before = gsStore.before, gsStore'.after = gsStore.after, gsPort'.zoom = gsPort.zoom,
           gsPort'.seen = gsPort.seen, gsPort'.key = gsPort.key, gsPort'.restore.at = NoInstant,
           \/ gsPort'.left = gsPort.left /\ gsAim' = gsAim
           \/ gsPort'.left = gsAim' /\ gsAim' \in Int /\ Park(Current, gsAim') = gsAim'
           \/ gsAim' = Astray /\ Park(Current, gsPort'.left) = gsPort'.left
    PROVE  Positioned'
<1>1. Placed /\ gsPort.seen \in Views /\ gsPort.key = <<gsPort.seen.scale, gsPort.seen.date>>
  BY SettledPlaced
<1>2. /\ Current' = Current
      /\ gsAim' = gsAim /\ gsPort'.left = gsPort.left => Spot' = Spot
  BY SameSpot
<1>3. Settled' /\ NoRestore'
  BY <1>1, <1>2 DEF Settled, NoRestore
<1>4. gsPort'.left = Spot'
  <2>1. CASE gsPort'.left = gsPort.left /\ gsAim' = gsAim
    BY <1>1, <1>2, <2>1 DEF Placed
  <2>2. CASE gsPort'.left = gsAim' /\ gsAim' \in Int /\ Park(Current, gsAim') = gsAim'
    <3>1. Aimed' = gsAim'
      BY <2>2, ScrollAssumption DEF ScrollAssumption, Aimed
    <3>2. Spot' = Park(Current', gsAim')
      BY <3>1 DEF Spot, Park, AxisStart, AxisEnd, Seen, PeriodStart, StepDate
    <3>. QED
      BY <1>2, <2>2, <3>2
  <2>3. CASE gsAim' = Astray /\ Park(Current, gsPort'.left) = gsPort'.left
    <3>1. Aimed' = gsPort'.left
      BY <2>3, ScrollAssumption DEF ScrollAssumption, Aimed
    <3>2. Spot' = Park(Current', gsPort'.left)
      BY <3>1 DEF Spot, Park, AxisStart, AxisEnd, Seen, PeriodStart, StepDate
    <3>. QED
      BY <1>2, <2>3, <3>2
  <2>. QED
    BY <2>1, <2>2, <2>3
<1>. QED
  BY <1>1, <1>3, <1>4 DEF Positioned, Placed

(* A rendered pane without a size waits for one. *)
LEMMA NotFresh ==
    ASSUME ScrollTyped, Positioned, Settled, gsPort.hidden
    PROVE  Hidden /\ gsPort.seen \in Views /\ gsPort.key = <<gsPort.seen.scale, gsPort.seen.date>>
<1>1. gsPort.seen # Unseen
  BY CurrentIs, ScrollAssumption DEF ScrollAssumption, Settled, Unseen, Views
<1>. QED
  BY <1>1 DEF Positioned, Fresh

LEMMA RevealScrolled == ASSUME Scrolled, Reveal PROVE Scrolled'
<1>. DEFINE shown == [gsPort EXCEPT !.hidden = FALSE]
            p == Position(gsStore, shown, Current)
<1>1. ScrollTyped /\ gsPort \in Ports /\ gsStore \in Stores /\ Current \in Views
  BY CurrentIs DEF Scrolled, ScrollTyped
<1>2. /\ shown \in Ports /\ ~shown.hidden
      /\ \A f \in {"seen", "zoom", "key", "took", "restore", "buffered", "left", "waits"} :
           shown[f] = gsPort[f]
  BY <1>1 DEF Ports
<1>3. /\ gsPort.waits => gsStore' = p.st /\ gsPort' = p.pt
      /\ ~gsPort.waits => gsStore' = gsStore /\ gsPort' = shown
      /\ gsPort.hidden /\ Settled /\ UNCHANGED <<gsAim, gsLeft>>
  BY DEF Reveal
<1>. HIDE DEF shown
<1>4. ScrollTyped'
  <2>1. p.st \in Stores /\ p.pt \in Ports
    BY <1>1, <1>2, PositionTyped
  <2>2. gsStore' \in Stores /\ gsPort' \in Ports
    BY <1>1, <1>2, <1>3, <2>1
  <2>. QED
    BY <1>1, <1>3, <2>2 DEF ScrollTyped
<1>5. ASSUME ~gsLeft.controlled PROVE Positioned'
  <2>1. Hidden /\ gsPort.seen \in Views /\ gsPort.key = <<gsPort.seen.scale, gsPort.seen.date>>
    BY <1>1, <1>3, <1>5, NotFresh DEF Scrolled
  <2>2. gsStore' = p.st /\ gsPort' = p.pt
    BY <1>3, <2>1 DEF Hidden
  <2>3. /\ p.pt.seen = gsPort.seen /\ p.pt.zoom = gsPort.zoom /\ p.pt.key = gsPort.key
        /\ p.pt.took = gsPort.took /\ p.pt.restore = gsPort.restore /\ ~p.pt.hidden
    BY <1>1, <1>2, PositionFields
  <2>4. /\ ~gsPort'.hidden /\ gsPort'.seen = gsPort.seen /\ gsPort'.zoom = gsPort.zoom
        /\ gsPort'.key = gsPort.key /\ ~gsPort'.took /\ gsPort'.restore.at = NoInstant
        /\ gsAim' = NoInstant /\ gsPort.seen = Current
    BY <1>3, <2>1, <2>2, <2>3 DEF Hidden, Uncentred, NoRestore, Settled
  <2>5. CASE gsLeft.infinite
    <3>1. p.st = ExtendRange(ExtendRange(gsStore, "before").st, "after").st /\ p.pt.buffered
      BY <1>1, <1>2, <2>1, <2>5, PositionFields DEF Hidden
    <3>2. p.st.scale = gsStore.scale /\ p.st.date = gsStore.date /\ Axis(p.st) # Axis(gsStore)
      BY <1>1, <1>5, <2>1, <3>1, Buffers DEF Hidden, Uncentred
    <3>3. Axis(gsStore') # Axis(gsPort'.seen)
      BY <1>1, <2>2, <2>4, <3>2, CurrentIs DEF Axis
    <3>4. (Axis(gsStore) # Axis(gsPort.seen))'
      BY <3>3 DEF Axis, AxisStart, AxisEnd, PeriodStart, StepDate
    <3>5. Unmoved' /\ gsPort'.zoom = gsPort'.seen.zoom
      BY <1>1, <2>2, <2>4, <3>2, CurrentIs DEF Unmoved
    <3>6. Buffering'
      BY <2>2, <2>4, <3>1, <3>4, <3>5 DEF Buffering, NoRestore
    <3>. QED
      BY <2>1, <2>4, <3>6 DEF Positioned
  <2>6. CASE ~gsLeft.infinite
    <3>1. p.st = gsStore /\ p.pt.left = IF Overflows(Current)
            THEN Park(Current, Target(gsStore) - Seen(Current) \div 2) ELSE gsPort.left
      BY <1>1, <1>2, <2>6, PositionFields
    <3>2. p.pt.left = Spot
      <4>1. CASE Overflows(Current)
        BY <2>1, <3>1, <4>1, AimedIs DEF Spot, Hidden, Uncentred
      <4>2. CASE ~Overflows(Current)
        <5>1. p.pt.left = AxisStart(Current)
          BY <2>1, <3>1, <4>2 DEF Hidden
        <5>2. Target(gsStore) - Seen(Current) \div 2 \in Int
          BY <1>1, CurrentIs, SeenIs, TargetIs DEF Spans
        <5>3. Spot = AxisStart(Current)
          BY <1>1, <2>1, <4>2, <5>2, CurrentIs, ParkFits, AimedIs DEF Spot, Hidden, Uncentred
        <5>. QED
          BY <5>1, <5>3
      <4>. QED
        BY <4>1, <4>2
    <3>3. Current' = Current /\ Spot' = Spot
      BY <1>1, <1>3, <2>2, <2>4, <3>1, SameSpot, ScrollAssumption DEF ScrollAssumption
    <3>4. Placed'
      BY <2>2, <2>4, <3>2, <3>3 DEF Placed, Settled, NoRestore
    <3>. QED
      BY <2>1, <2>4, <3>4 DEF Positioned
  <2>. QED
    BY <2>5, <2>6
<1>. QED
  BY <1>3, <1>4, <1>5 DEF Scrolled

(* Another scene of the same bounds and configuration.                     *)
SameScene == gsLeft' \in Scenes /\ gsLeft'.controlled = gsLeft.controlled
             /\ gsLeft'.max = gsLeft.max /\ gsLeft'.min = gsLeft.min

LEMMA ActedSame ==
    ASSUME ScrollTyped, (Acted /\ gsLeft.acts > 0) \/ UNCHANGED gsLeft
    PROVE  SameScene
<1>1. gsLeft \in Scenes
  BY DEF ScrollTyped
<1>2. CASE UNCHANGED gsLeft
  BY <1>1, <1>2 DEF SameScene
<1>3. CASE Acted /\ gsLeft.acts > 0
  <2>1. gsLeft.acts - 1 \in Nat
    BY <1>1, <1>3 DEF Scenes
  <2>. QED
    BY <1>1, <1>3, <2>1 DEF Acted, SameScene, Scenes
<1>. QED
  BY <1>2, <1>3

LEMMA Retyped ==
    ASSUME ScrollTyped, SameScene, gsStore' \in Stores, gsPort' \in Ports, gsAim' \in Aims
    PROVE  ScrollTyped'
BY DEF ScrollTyped, SameScene

LEMMA ExtendedTyped ==
    ASSUME ScrollTyped, SameScene, NEW side \in Sides, TryExtend(side)
    PROVE  ScrollTyped'
<1>. DEFINE e == ExtendRange(gsStore, side)
            back == [at |-> IF e.done THEN gsPort.left ELSE NoInstant, back |-> 0]
            done == e.done
<1>1. gsPort \in Ports /\ gsStore \in Stores /\ gsPort.left \in Int
  BY DEF ScrollTyped, Ports
<1>2. e.st \in Stores /\ done \in BOOLEAN /\ back \in [at : Instants, back : Int]
  BY <1>1, ExtendTyped DEF Instants
<1>3. gsStore' = e.st /\ gsAim' = gsPort.left
      /\ gsPort' = [gsPort EXCEPT !.took = TRUE, !.lock = done, !.moved = FALSE, !.frame = TRUE,
                                  !.restore = back]
  BY DEF TryExtend
<1>. HIDE DEF e, back, done
<1>4. gsPort' \in Ports
  BY <1>1, <1>2, <1>3 DEF Ports
<1>. QED
  BY <1>1, <1>2, <1>3, <1>4, Retyped DEF Aims, Instants

(* From where it belongs, an extension keeps the left edge or is refused. *)
LEMMA ExtendScrolled ==
    ASSUME Scrolled, Settled, ~gsPort.hidden, SameScene, NEW side \in Sides, TryExtend(side)
    PROVE  Scrolled'
<1>. DEFINE e == ExtendRange(gsStore, side)
            at == IF e.done THEN gsPort.left ELSE NoInstant
            back == [at |-> at, back |-> 0]
            done == e.done
<1>1. ScrollTyped /\ gsPort \in Ports /\ gsStore \in Stores /\ gsPort.left \in Int
  BY DEF Scrolled, ScrollTyped, Ports
<1>2. e.st \in Stores /\ done \in BOOLEAN
  BY <1>1, ExtendTyped
<1>3. back \in [at : Instants, back : Int]
  BY <1>1 DEF Instants
<1>4. gsStore' = e.st /\ gsAim' = gsPort.left
      /\ gsPort' = [gsPort EXCEPT !.took = TRUE, !.lock = done, !.moved = FALSE, !.frame = TRUE,
                                  !.restore = back]
  BY DEF TryExtend
<1>. HIDE DEF e, at, back, done
<1>5. /\ gsPort' \in Ports /\ gsPort'.took /\ gsPort'.restore = back
      /\ \A f \in {"seen", "zoom", "key", "left", "hidden"} : gsPort'[f] = gsPort[f]
  BY <1>1, <1>2, <1>3, <1>4 DEF Ports
<1>6. ScrollTyped'
  BY <1>1, ExtendedTyped
<1>7. ASSUME ~gsLeft.controlled PROVE Positioned'
  <2>1. Placed /\ gsPort.seen \in Views /\ gsPort.key = <<gsPort.seen.scale, gsPort.seen.date>>
        /\ Positioned
    BY <1>1, <1>7, SettledPlaced DEF Scrolled
  <2>2. CASE Stops(gsStore, side)
    <3>1. ~done /\ e.st = gsStore
      BY <1>1, <1>7, <2>2, ExtendGrows DEF e, done
    <3>2. back.at = NoInstant
      BY <3>1 DEF back, at, done
    <3>3. Park(Current, gsPort.left) = gsPort.left
      BY <1>1, <2>1, SpotIs DEF Placed
    <3>. QED
      BY <1>1, <1>4, <1>5, <2>1, <3>1, <3>2, <3>3, StaysPlaced
  <2>3. CASE ~Stops(gsStore, side)
    <3>1. /\ done /\ Axis(e.st) # Axis(gsStore) /\ e.st.scale = gsStore.scale
          /\ e.st.date # gsStore.date => e.st.slid
      BY <1>1, <1>7, <2>3, ExtendGrows DEF e, done
    <3>2. gsPort'.restore = [at |-> gsAim', back |-> 0] /\ gsAim' \in Int
      BY <1>1, <1>4, <1>5, <3>1 DEF back, at, done
    <3>3. gsPort.seen = Current
      BY DEF Settled
    <3>4. Axis(gsStore') # Axis(gsPort'.seen)
      BY <1>1, <1>4, <1>5, <3>1, <3>3, CurrentIs DEF Axis
    <3>5. (Axis(gsStore) # Axis(gsPort.seen))'
      BY <3>4 DEF Axis, AxisStart, AxisEnd, PeriodStart, StepDate
    <3>6. gsStore'.scale = gsPort'.seen.scale /\ gsPort'.zoom = gsPort'.seen.zoom
          /\ (gsStore'.date # gsPort'.seen.date => gsStore'.slid)
      BY <1>1, <1>4, <1>5, <3>1, <3>3, CurrentIs
    <3>7. Extending'
      BY <1>5, <3>2, <3>5, <3>6 DEF Extending
    <3>. QED
      BY <1>5, <2>1, <3>7 DEF Positioned
  <2>. QED
    BY <2>2, <2>3
<1>. QED
  BY <1>6, <1>7 DEF Scrolled, SameScene

(* A navigation is centred by the next commit, or is none. *)
LEMMA NavigateScrolled ==
    ASSUME Scrolled, Acts, Acted, NEW scale \in GsScales, NEW date \in Int,
           gsStore' = SetField(gsStore, scale, date), gsPort' \in Ports,
           \A f \in {"zoom", "left", "seen", "key", "hidden", "restore"} : gsPort'[f] = gsPort[f],
           gsAim' = IF gsStore' = gsStore THEN gsAim ELSE NoInstant
    PROVE  Scrolled'
<1>1. ScrollTyped /\ gsPort \in Ports /\ gsStore \in Stores /\ Settled /\ ~gsPort.hidden
  BY DEF Scrolled, ScrollTyped, Acts
<1>2. SameScene
  BY <1>1, ActedSame DEF Acts
<1>. DEFINE new == [gsStore EXCEPT !.scale = scale, !.date = date, !.before = 0, !.after = 0,
                                   !.center = NoInstant, !.slid = FALSE]
            still == scale = gsStore.scale /\ date = gsStore.date
<1>3. new \in Stores /\ new.scale = scale /\ new.date = date /\ new.before = 0 /\ new.after = 0
      /\ ~new.slid
  BY <1>1 DEF Stores, Instants
<1>4. gsStore' = IF still THEN gsStore ELSE new
  BY DEF SetField
<1>. HIDE DEF new
<1>5. ScrollTyped'
  <2>1. gsStore' \in Stores
    BY <1>1, <1>3, <1>4
  <2>2. gsAim' \in Aims
    BY <1>1 DEF ScrollTyped, Aims, Instants
  <2>. QED
    BY <1>1, <1>2, <2>1, <2>2, Retyped
<1>6. ASSUME ~gsLeft.controlled PROVE Positioned'
  <2>1. Placed /\ gsPort.seen \in Views /\ gsPort.key = <<gsPort.seen.scale, gsPort.seen.date>>
        /\ Positioned
    BY <1>1, <1>6, SettledPlaced DEF Scrolled
  <2>2. gsPort.seen.scale = gsStore.scale /\ gsPort.seen.date = gsStore.date
        /\ gsPort.seen.zoom = gsPort.zoom /\ gsPort.restore.at = NoInstant
    BY <1>1, <2>1, CurrentIs DEF Settled, Placed, NoRestore
  <2>3. CASE gsStore' = gsStore
    BY <1>1, <2>1, <2>2, <2>3, StaysPlaced
  <2>4. CASE gsStore' # gsStore
    <3>1. gsStore' = new /\ ~still /\ gsAim' = NoInstant
      BY <1>4, <2>4
    <3>2. Navigated'
      BY <1>3, <2>2, <3>1 DEF Navigated, Uncentred, NoRestore, Unmoved
    <3>. QED
      BY <1>1, <2>1, <3>2 DEF Positioned
  <2>. QED
    BY <2>3, <2>4
<1>. QED
  BY <1>2, <1>5, <1>6 DEF Scrolled, SameScene

(* A zoom remembers an instant the next commit puts back. *)
LEMMA ZoomScrolled ==
    ASSUME Scrolled, NEW v \in Zooms, NEW x \in Int, NEW back \in Int, ZoomAround(v, x, back),
           gsLeft.controlled \/ Park(v, Higher(AxisStart(v), Lower(x, AxisEnd(v))) - back) = Park(v, x - back)
    PROVE  Scrolled'
<1>1. /\ ScrollTyped /\ gsPort \in Ports /\ gsStore \in Stores /\ Settled /\ ~gsPort.hidden
      /\ SameScene /\ Current \in Views
  BY ActedSame, CurrentIs DEF Scrolled, ScrollTyped, ZoomAround, Acts
<1>2. /\ v \in Views /\ v.zoom \in {1, 2} /\ v.zoom # gsPort.zoom /\ Spans(v)
      /\ v.scale = gsStore.scale /\ v.date = gsStore.date /\ v.before = gsStore.before
      /\ v.after = gsStore.after
  <2>1. PICK z \in {1, 2} \ {gsPort.zoom} : v = [Current EXCEPT !.zoom = z]
    BY DEF Zooms
  <2>. QED
    BY <1>1, <2>1, CurrentIs DEF Views, Spans
<1>. DEFINE r == [at |-> x, back |-> back]
<1>3. gsPort' = [gsPort EXCEPT !.zoom = v.zoom, !.restore = r] /\ r \in [at : Instants, back : Int]
      /\ gsAim' = Park(v, x - back) /\ UNCHANGED gsStore
  BY DEF ZoomAround, Instants
<1>4. /\ gsPort' \in Ports /\ gsPort'.zoom = v.zoom /\ gsPort'.restore = r
      /\ \A f \in {"seen", "key", "left", "hidden"} : gsPort'[f] = gsPort[f]
  <2>. HIDE DEF r
  <2>. QED
    BY <1>1, <1>2, <1>3 DEF Ports
<1>5. gsAim' \in Int /\ Park(v, gsAim') = gsAim'
  <2>1. x - back \in Int
    OBVIOUS
  <2>. QED
    BY <1>2, <1>3, <2>1, ParkFits
<1>6. ScrollTyped'
  BY <1>1, <1>3, <1>4, <1>5, Retyped DEF Aims, Instants
<1>7. ASSUME ~gsLeft.controlled PROVE Positioned'
  <2>1. Placed /\ gsPort.seen \in Views /\ gsPort.key = <<gsPort.seen.scale, gsPort.seen.date>>
    BY <1>1, <1>7, SettledPlaced DEF Scrolled
  <2>2. Current' = v
    <3>1. Current' = [scale |-> gsStore.scale, date |-> gsStore.date, before |-> gsStore.before,
                      after |-> gsStore.after, zoom |-> v.zoom]
      BY <1>3, <1>4 DEF Current
    <3>2. v = [scale |-> v.scale, date |-> v.date, before |-> v.before, after |-> v.after,
               zoom |-> v.zoom]
      BY <1>2 DEF Views
    <3>. QED
      BY <1>2, <3>1, <3>2
  <2>3. gsAim' # NoInstant
    BY <1>5, ScrollAssumption DEF ScrollAssumption
  <2>4. Spot' = gsAim'
    <3>1. Spot' = Park(v, gsAim')
      <4>1. Aimed' = gsAim'
        BY <1>5, ScrollAssumption DEF ScrollAssumption, Aimed
      <4>. QED
        BY <2>2, <4>1 DEF Spot, Park, AxisStart, AxisEnd, Seen, PeriodStart, StepDate
    <3>. QED
      BY <1>5, <3>1
  <2>5. gsPort.seen.scale = gsStore.scale /\ gsPort.seen.date = gsStore.date
        /\ gsPort.seen.before = gsStore.before /\ gsPort.seen.after = gsStore.after
        /\ gsPort.seen.zoom = gsPort.zoom
    BY <1>1, CurrentIs DEF Settled
  <2>6. Spot' = Park(v, Higher(AxisStart(v), Lower(x, AxisEnd(v))) - back)
    BY <1>3, <1>7, <2>4
  <2>7. (LET w == Current IN
         Spot = Park(w, Higher(AxisStart(w), Lower(gsPort.restore.at, AxisEnd(w))) - gsPort.restore.back))'
    <3>1. gsPort'.restore.at = x /\ gsPort'.restore.back = back
      BY <1>4
    <3>. QED
      BY <2>2, <2>6, <3>1 DEF Park, AxisStart, AxisEnd, Seen, PeriodStart, StepDate
  <2>8. Zooming'
    BY <1>2, <1>3, <1>4, <1>5, <2>5, <2>7 DEF Zooming, Unmoved
  <2>. QED
    BY <1>1, <1>4, <2>1, <2>8 DEF Positioned
<1>. QED
  BY <1>1, <1>6, <1>7 DEF Scrolled, SameScene

LEMMA FrameScrolled == ASSUME Scrolled, Frame PROVE Scrolled'
<1>. DEFINE c == Middle(Current, gsPort.left)
            q == PeriodStart(gsStore.scale, c)
            center == IF q # gsPort.named THEN c ELSE gsStore.center
            chip == Chip(Current)
<1>1. /\ ScrollTyped /\ gsPort \in Ports /\ gsStore \in Stores /\ Settled /\ ~gsPort.hidden
      /\ gsPort.left \in Int
  BY DEF Scrolled, ScrollTyped, Ports, Frame
<1>2. Current.scale = gsStore.scale /\ Spans(Current) /\ Seen(Current) \in Nat
      /\ Seen(Current) \div 2 \in Nat /\ AxisStart(Current) \in Int
  BY <1>1, CurrentIs, SeenIs, AxisSpans DEF Spans
<1>3. c \in Int /\ q \in Int
  <2>1. c \in Int
    BY <1>1, <1>2 DEF Middle
  <2>. QED
    BY <1>2, <2>1, PeriodHolds DEF Spans
<1>4. chip \in Instants
  <2>1. GsBar \in Int
    BY ScrollAssumption DEF ScrollAssumption
  <2>. QED
    BY <1>2, <2>1 DEF Chip, Instants
<1>5. gsStore' = [gsStore EXCEPT !.center = center]
      /\ gsPort' = [gsPort EXCEPT !.frame = FALSE, !.named = q, !.chip = chip]
      /\ UNCHANGED <<gsAim, gsLeft>>
  BY <1>2 DEF Frame
<1>6. center \in Instants
  BY <1>1, <1>3 DEF Stores, Instants
<1>. HIDE DEF c, q, center, chip
<1>7. /\ gsPort' \in Ports
      /\ \A f \in {"zoom", "seen", "key", "left", "hidden", "restore"} : gsPort'[f] = gsPort[f]
  BY <1>1, <1>3, <1>4, <1>5 DEF Ports, Instants
<1>8. /\ gsStore' \in Stores
      /\ \A f \in {"scale", "date", "before", "after"} : gsStore'[f] = gsStore[f]
  BY <1>1, <1>5, <1>6 DEF Stores
<1>9. SameScene /\ ScrollTyped'
  BY <1>1, <1>5, <1>7, <1>8, Retyped, ActedSame DEF ScrollTyped
<1>10. ASSUME ~gsLeft.controlled PROVE Positioned'
  <2>1. Placed /\ Positioned
    BY <1>1, <1>10, SettledPlaced DEF Scrolled
  <2>2. gsPort'.restore.at = NoInstant
    BY <1>7, <2>1 DEF Placed, NoRestore
  <2>. QED
    BY <1>1, <1>5, <1>7, <1>8, <2>1, <2>2, StaysPlaced
<1>. QED
  BY <1>9, <1>10 DEF Scrolled, SameScene

(* A step of the scroller that leaves the range alone.                     *)
LEMMA PortScrolled ==
    ASSUME Scrolled, Settled, SameScene, UNCHANGED gsStore, gsPort' \in Ports, gsAim' \in Aims,
           \A f \in {"zoom", "seen", "key", "buffered", "took", "restore", "hidden", "waits"} :
               gsPort'[f] = gsPort[f],
           \/ gsPort'.left = gsPort.left /\ UNCHANGED gsAim
           \/ ~gsPort.hidden /\ gsPort'.left = gsAim' /\ gsAim' \in Int /\ Park(Current, gsAim') = gsAim'
           \/ ~gsPort.hidden /\ gsAim' = Astray /\ Park(Current, gsPort'.left) = gsPort'.left,
           gsPort.hidden => (gsPort'.moved <=> gsPort.moved)
    PROVE  Scrolled'
<1>1. ScrollTyped /\ ScrollTyped'
  BY Retyped DEF Scrolled, ScrollTyped
<1>2. ASSUME ~gsLeft.controlled PROVE Positioned'
  <2>1. CASE gsPort.hidden
    <3>1. Hidden /\ gsPort.seen \in Views /\ gsPort.key = <<gsPort.seen.scale, gsPort.seen.date>>
      BY <1>1, <1>2, <2>1, NotFresh DEF Scrolled
    <3>2. Current' = Current /\ UNCHANGED gsAim /\ gsPort'.left = gsPort.left
      BY <1>1, <2>1, SameSpot
    <3>3. (~Overflows(Current) => gsPort.left = AxisStart(Current))'
      BY <3>1, <3>2 DEF Hidden, Overflows, Seen, AxisStart, AxisEnd, PeriodStart, StepDate
    <3>4. Hidden'
      BY <2>1, <3>1, <3>2, <3>3 DEF Hidden, Settled, Uncentred, NoRestore
    <3>. QED
      BY <3>1, <3>4 DEF Positioned
  <2>2. CASE ~gsPort.hidden
    <3>1. Placed /\ Positioned
      BY <1>1, <1>2, <2>2, SettledPlaced DEF Scrolled
    <3>2. gsPort'.restore.at = NoInstant
      BY <3>1 DEF Placed, NoRestore
    <3>. QED
      BY <1>1, <2>2, <3>1, <3>2, StaysPlaced
  <2>. QED
    BY <2>1, <2>2
<1>. QED
  BY <1>1, <1>2 DEF Scrolled, SameScene

LEMMA FadeScrolled == ASSUME Scrolled, IntentFades PROVE Scrolled'
<1>1. ScrollTyped /\ gsPort \in Ports /\ gsAim \in Aims /\ SameScene
  BY ActedSame DEF Scrolled, ScrollTyped, IntentFades
<1>2. /\ gsPort' \in Ports
      /\ \A f \in {"zoom", "seen", "key", "buffered", "took", "restore", "hidden", "waits", "left",
                   "moved"} : gsPort'[f] = gsPort[f]
  BY <1>1 DEF Ports, IntentFades
<1>. QED
  BY <1>1, <1>2, PortScrolled DEF IntentFades

LEMMA OnScrollScrolled == ASSUME Scrolled, OnScroll PROVE Scrolled'
<1>1. ScrollTyped /\ gsPort \in Ports /\ gsAim \in Aims /\ SameScene /\ Settled /\ gsPort.moved
  BY ActedSame DEF Scrolled, ScrollTyped, OnScroll
<1>2. CASE gsPort' = [gsPort EXCEPT !.moved = FALSE, !.frame = TRUE] /\ UNCHANGED <<gsStore, gsAim>>
  <2>1. /\ gsPort' \in Ports
        /\ \A f \in {"zoom", "seen", "key", "buffered", "took", "restore", "hidden", "waits", "left"} :
             gsPort'[f] = gsPort[f]
    BY <1>1, <1>2 DEF Ports
  <2>2. CASE ~gsPort.hidden
    BY <1>1, <1>2, <2>1, <2>2, PortScrolled
  <2>3. CASE gsPort.hidden
    <3>1. gsLeft.controlled
      BY <1>1, <2>3, NotFresh DEF Scrolled, Hidden
    <3>2. ScrollTyped'
      BY <1>1, <1>2, <2>1, Retyped DEF ScrollTyped
    <3>. QED
      BY <1>1, <3>1, <3>2 DEF Scrolled, SameScene
  <2>. QED
    BY <2>2, <2>3
<1>3. CASE \E side \in Sides : TryExtend(side)
  <2>1. PICK side \in Sides : TryExtend(side)
    BY <1>3
  <2>2. CASE ~gsPort.hidden
    BY <1>1, <2>1, <2>2, ExtendScrolled
  <2>3. CASE gsPort.hidden
    <3>1. gsLeft.controlled
      BY <1>1, <2>3, NotFresh DEF Scrolled, Hidden
    <3>2. ScrollTyped'
      BY <1>1, <2>1, ExtendedTyped
    <3>. QED
      BY <1>1, <3>1, <3>2 DEF Scrolled, SameScene
  <2>. QED
    BY <2>2, <2>3
<1>. QED
  BY <1>2, <1>3 DEF OnScroll, AtEdge, Sides

(* The user moves the scroller, with an aim or astray.                     *)
LEMMA ScrollToScrolled ==
    ASSUME Scrolled, NEW x, ScrollTo(x), gsAim' \in {x, Astray}
    PROVE  Scrolled'
<1>1. /\ ScrollTyped /\ gsPort \in Ports /\ gsStore \in Stores /\ Settled /\ ~gsPort.hidden
      /\ SameScene /\ Spans(Current) /\ Current.zoom \in {1, 2}
  BY ActedSame, CurrentIs DEF Scrolled, ScrollTyped, ScrollTo, Acts
<1>2. /\ x \in (AxisStart(Current))..(AxisEnd(Current) - Seen(Current))
      /\ gsPort' = [gsPort EXCEPT !.left = x, !.moved = TRUE, !.intent = TRUE]
      /\ UNCHANGED gsStore
  BY DEF ScrollTo
<1>3. x \in Int /\ Park(Current, x) = x
  <2>1. AxisStart(Current) \in Int /\ AxisEnd(Current) \in Int /\ Seen(Current) \in Int
    BY <1>1, AxisSpans, SeenIs DEF Spans
  <2>2. x \in Int /\ AxisStart(Current) <= x /\ x <= AxisEnd(Current) - Seen(Current)
    BY <1>2, <2>1
  <2>. QED
    BY <1>1, <2>2, ParkFits
<1>4. /\ gsPort' \in Ports /\ gsPort'.left = x
      /\ \A f \in {"zoom", "seen", "key", "buffered", "took", "restore", "hidden", "waits"} :
           gsPort'[f] = gsPort[f]
  BY <1>1, <1>2, <1>3 DEF Ports
<1>. QED
  BY <1>1, <1>2, <1>3, <1>4, PortScrolled DEF Aims, Instants

(* A pan begins or ends.                                                   *)
LEMMA PanScrolled == ASSUME Scrolled, BeginPan \/ EndPan PROVE Scrolled'
<1>1. /\ ScrollTyped /\ gsPort \in Ports /\ gsAim \in Aims /\ SameScene /\ Settled
      /\ UNCHANGED <<gsStore, gsAim>>
  BY ActedSame DEF Scrolled, ScrollTyped, BeginPan, EndPan, Acts
<1>2. Track(Current) \in GsScales \X {1, 2} \X Int
  BY <1>1, CurrentIs, AxisSpans DEF Track, Views, Spans
<1>3. /\ gsPort' \in Ports
      /\ \A f \in {"zoom", "seen", "key", "buffered", "took", "restore", "hidden", "waits", "left",
                   "moved"} : gsPort'[f] = gsPort[f]
  <2>. DEFINE pan == IF BeginPan THEN Track(Current) ELSE <<>>
  <2>1. gsPort' = [gsPort EXCEPT !.pan = pan] /\ pan \in (GsScales \X {1, 2} \X Int) \cup {<<>>}
    BY <1>2 DEF BeginPan, EndPan
  <2>. HIDE DEF pan
  <2>. QED
    BY <1>1, <2>1 DEF Ports
<1>. QED
  BY <1>1, <1>3, PortScrolled

LEMMA JumpScrolled == ASSUME Scrolled, JumpToBar PROVE Scrolled'
<1>. DEFINE x == Park(Current, AxisStart(Current) + Higher(0, gsPort.chip))
<1>1. /\ ScrollTyped /\ gsPort \in Ports /\ gsStore \in Stores /\ Settled /\ ~gsPort.hidden
      /\ SameScene /\ Spans(Current) /\ Current.zoom \in {1, 2}
  BY ActedSame, CurrentIs DEF Scrolled, ScrollTyped, JumpToBar, Acts
<1>2. x \in Int /\ Park(Current, x) = x
  <2>1. gsPort.chip \in Int
    BY <1>1 DEF Ports, Instants, JumpToBar
  <2>2. AxisStart(Current) + Higher(0, gsPort.chip) \in Int
    BY <1>1, <2>1, AxisSpans DEF Higher
  <2>. QED
    BY <1>1, <2>2, ParkFits
<1>3. gsPort' = [gsPort EXCEPT !.left = x, !.moved = TRUE, !.chip = NoInstant] /\ gsAim' = x
      /\ UNCHANGED gsStore
  BY DEF JumpToBar
<1>. HIDE DEF x
<1>4. /\ gsPort' \in Ports /\ gsPort'.left = x
      /\ \A f \in {"zoom", "seen", "key", "buffered", "took", "restore", "hidden", "waits"} :
           gsPort'[f] = gsPort[f]
  BY <1>1, <1>2, <1>3 DEF Ports, Instants
<1>. QED
  BY <1>1, <1>2, <1>3, <1>4, PortScrolled DEF Aims, Instants

(* An instant of the pane is kept where it is as long as the axis has it.  *)
LEMMA ParkClamped ==
    ASSUME NEW v, Spans(v), v.zoom \in {1, 2}, NEW x \in Int, NEW back \in Int,
           AxisStart(v) <= x, x <= AxisEnd(v) \/ ~Overflows(v)
    PROVE  Park(v, Higher(AxisStart(v), Lower(x, AxisEnd(v))) - back) = Park(v, x - back)
<1>1. AxisStart(v) \in Int /\ AxisEnd(v) \in Int
  BY AxisSpans
<1>. DEFINE h == Higher(AxisStart(v), Lower(x, AxisEnd(v)))
<1>2. h \in Int /\ (x <= AxisEnd(v) => h = x)
  BY <1>1 DEF Higher, Lower
<1>. HIDE DEF h
<1>3. CASE x <= AxisEnd(v)
  BY <1>2, <1>3 DEF h
<1>4. CASE ~Overflows(v)
  <2>1. h - back \in Int /\ x - back \in Int
    BY <1>2
  <2>2. Park(v, h - back) = AxisStart(v) /\ Park(v, x - back) = AxisStart(v)
    BY <1>4, <2>1, ParkFits
  <2>. QED
    BY <2>2 DEF h
<1>. QED
  BY <1>3, <1>4

(* A zoom doubles or halves what the pane shows.                           *)
LEMMA ZoomsHalve ==
    ASSUME ScrollTyped, NEW v \in Zooms
    PROVE  /\ Spans(v) /\ v.zoom \in {1, 2}
           /\ AxisStart(v) = AxisStart(Current) /\ AxisEnd(v) = AxisEnd(Current)
           /\ Seen(v) \in Nat \ {0} /\ Seen(v) \div 2 \in Nat /\ Seen(Current) \div 2 <= Seen(v)
<1>1. PICK z \in {1, 2} \ {gsPort.zoom} : v = [Current EXCEPT !.zoom = z]
  BY DEF Zooms
<1>2. /\ v.scale = Current.scale /\ v.date = Current.date /\ v.before = Current.before
      /\ v.after = Current.after /\ v.zoom = z /\ Current.zoom = gsPort.zoom
  BY <1>1, CurrentIs DEF Views
<1>3. Spans(v) /\ v.zoom \in {1, 2} /\ Current.zoom \in {1, 2} /\ v.scale \in GsScales
      /\ v.zoom # Current.zoom
  BY <1>2, CurrentIs DEF Spans
<1>4. AxisStart(v) = AxisStart(Current) /\ AxisEnd(v) = AxisEnd(Current)
  BY <1>2 DEF AxisStart, AxisEnd
<1>5. /\ Seen(v) \in Nat \ {0} /\ Seen(v) \div 2 \in Nat /\ Seen(v) \div 2 <= Seen(v)
      /\ v.zoom = 1 => Seen(v) = GsPane[v.scale]
      /\ v.zoom = 2 => Seen(v) = GsPane[v.scale] \div 2
  BY <1>3, SeenIs
<1>6. /\ Seen(Current) \in Nat \ {0} /\ Seen(Current) \div 2 \in Nat
      /\ Seen(Current) \div 2 <= Seen(Current)
      /\ Current.zoom = 1 => Seen(Current) = GsPane[v.scale]
      /\ Current.zoom = 2 => Seen(Current) = GsPane[v.scale] \div 2
  BY <1>2, <1>3, SeenIs
<1>7. CASE v.zoom = 1 /\ Current.zoom = 2
  <2>1. Seen(Current) = Seen(v) \div 2
    BY <1>5, <1>6, <1>7
  <2>. QED
    BY <1>3, <1>4, <1>5, <1>6, <2>1
<1>8. CASE v.zoom = 2 /\ Current.zoom = 1
  <2>1. Seen(v) = Seen(Current) \div 2
    BY <1>5, <1>6, <1>8
  <2>. QED
    BY <1>3, <1>4, <1>5, <2>1
<1>. QED
  BY <1>3, <1>7, <1>8

LEMMA ZoomActsScrolled == ASSUME Scrolled, ZoomButton \/ ZoomAtPointer PROVE Scrolled'
<1>1. ScrollTyped /\ gsPort.left \in Int
  BY DEF Scrolled, ScrollTyped, Ports
<1>. DEFINE a == AxisStart(Current)
            b == AxisEnd(Current)
            s == Seen(Current)
<1>2. a \in Int /\ b \in Int /\ a < b /\ s \in Nat \ {0} /\ s \div 2 \in Nat /\ s \div 2 <= s
  BY <1>1, CurrentIs, AxisSpans, SeenIs DEF Spans
<1>3. ~gsLeft.controlled /\ Acts => a <= gsPort.left /\ (gsPort.left = a \/ gsPort.left <= b - s)
  <2>. SUFFICES ASSUME ~gsLeft.controlled, Acts
                PROVE  a <= gsPort.left /\ (gsPort.left = a \/ gsPort.left <= b - s)
    OBVIOUS
  <2>1. gsPort.left = Spot
    BY <1>1, SettledPlaced DEF Scrolled, Acts, Placed
  <2>2. gsPort.left = Park(Current, gsPort.left)
    BY <1>1, <2>1, SpotIs
  <2>. QED
    BY <1>1, <2>2, CurrentIs, ParkFits
<1>4. CASE ZoomButton
  <2>1. PICK v \in Zooms : ZoomAround(v, Middle(Current, gsPort.left), Seen(v) \div 2)
    BY <1>4 DEF ZoomButton
  <2>. DEFINE x == Middle(Current, gsPort.left)
              back == Seen(v) \div 2
  <2>2. x = gsPort.left + s \div 2 /\ x \in Int
    BY <1>1, <1>2 DEF Middle
  <2>3. /\ Spans(v) /\ v.zoom \in {1, 2} /\ AxisStart(v) = a /\ AxisEnd(v) = b
        /\ Seen(v) \in Nat \ {0} /\ back \in Nat /\ s \div 2 <= Seen(v)
    BY <1>1, ZoomsHalve
  <2>4. ~gsLeft.controlled => a <= x /\ (x <= b \/ ~Overflows(v))
    <3>1. Acts
      BY <2>1 DEF ZoomAround
    <3>2. Overflows(v) <=> b - a > Seen(v)
      BY <2>3 DEF Overflows
    <3>. HIDE DEF a, b, s, x, back
    <3>. DEFINE h == s \div 2
    <3>3. h \in Nat /\ h <= s /\ h <= Seen(v) /\ x = gsPort.left + h
      BY <1>2, <2>2, <2>3
    <3>. HIDE DEF h
    <3>. QED
      BY <1>1, <1>2, <1>3, <2>2, <2>3, <3>1, <3>2, <3>3
  <2>5. gsLeft.controlled \/ Park(v, Higher(AxisStart(v), Lower(x, AxisEnd(v))) - back) = Park(v, x - back)
    <3>. HIDE DEF x, back
    <3>. QED
      BY <2>2, <2>3, <2>4, ParkClamped
  <2>6. back \in Int
    BY <2>3
  <2>. QED
    BY <2>1, <2>2, <2>5, <2>6, ZoomScrolled
<1>5. CASE ZoomAtPointer
  <2>1. PICK v \in Zooms, back \in {0, 1} : ZoomAround(v, gsPort.left + back, back)
    BY <1>5 DEF ZoomAtPointer
  <2>. DEFINE x == gsPort.left + back
  <2>2. x \in Int /\ back \in Int
    BY <1>1
  <2>3. Spans(v) /\ v.zoom \in {1, 2} /\ AxisStart(v) = a /\ AxisEnd(v) = b
    BY <1>1, ZoomsHalve
  <2>4. ~gsLeft.controlled => a <= x /\ x <= b
    <3>1. Acts
      BY <2>1 DEF ZoomAround
    <3>. HIDE DEF a, b, s
    <3>. QED
      BY <1>1, <1>2, <1>3, <2>2, <3>1
  <2>5. gsLeft.controlled \/ Park(v, Higher(AxisStart(v), Lower(x, AxisEnd(v))) - back) = Park(v, x - back)
    <3>. HIDE DEF x
    <3>. QED
      BY <2>2, <2>3, <2>4, ParkClamped
  <2>. QED
    BY <2>1, <2>2, <2>5, ZoomScrolled
<1>. QED
  BY <1>4, <1>5

LEMMA NavigationScrolled ==
    ASSUME Scrolled, GoPrev \/ GoNext \/ GoToday \/ GoTo \/ SwitchScale
    PROVE  Scrolled'
<1>1. /\ ScrollTyped /\ gsStore.scale \in GsScales /\ gsStore.date \in Int
      /\ gsLeft.min \in Int /\ gsLeft.max \in Int
  BY DEF Scrolled, ScrollTyped, Stores, Scenes
<1>2. ASSUME NEW t \in Int, NavigateTo(gsStore.scale, t) PROVE Scrolled'
  <2>1. InBounds(t) \in Int
    BY <1>1 DEF InBounds, Higher, Lower
  <2>. QED
    BY <1>1, <1>2, <2>1, NavigateScrolled DEF NavigateTo, ScrollTyped
<1>3. CASE GoPrev \/ GoNext
  BY <1>1, <1>2, <1>3, OneStep DEF GoPrev, GoNext
<1>4. CASE GoToday
  BY <1>2, <1>4, ScrollAssumption DEF ScrollAssumption, GoToday
<1>5. CASE GoTo
  BY <1>2, <1>5, ScrollAssumption DEF ScrollAssumption, GoTo
<1>6. CASE SwitchScale
  <2>1. PICK s \in GsScales \ {gsStore.scale} : gsStore' = SetField(gsStore, s, gsStore.date)
    BY <1>6 DEF SwitchScale
  <2>2. gsStore' # gsStore
    <3>1. gsStore' = [gsStore EXCEPT !.scale = s, !.date = gsStore.date, !.before = 0, !.after = 0,
                                     !.center = NoInstant, !.slid = FALSE]
      BY <2>1 DEF SetField
    <3>2. gsStore'.scale = s
      BY <1>1, <3>1 DEF ScrollTyped, Stores
    <3>. QED
      BY <2>1, <3>2
  <2>3. /\ gsPort' \in Ports
        /\ \A f \in {"zoom", "left", "seen", "key", "hidden", "restore"} : gsPort'[f] = gsPort[f]
    BY <1>1, <1>6 DEF SwitchScale, ScrollTyped, Ports
  <2>. QED
    BY <1>1, <1>6, <2>1, <2>2, <2>3, NavigateScrolled DEF SwitchScale
<1>. QED
  BY <1>3, <1>4, <1>5, <1>6

LEMMA WheelScrolled == ASSUME Scrolled, WheelAtEdge PROVE Scrolled'
<1>1. PICK side \in Sides : TryExtend(side)
  BY DEF WheelAtEdge, AtEdge, Sides
<1>2. SameScene /\ Settled /\ ~gsPort.hidden
  BY ActedSame DEF Scrolled, WheelAtEdge, Acts
<1>. QED
  BY <1>1, <1>2, ExtendScrolled

LEMMA ScrolledInv == GsSpec => []Scrolled
<1>1. GsInit => Scrolled
  BY InitScrolled
<1>2. Scrolled /\ [GsNext]_gsVars => Scrolled'
  <2>. SUFFICES ASSUME Scrolled, [GsNext]_gsVars PROVE Scrolled'
    OBVIOUS
  <2>1. CASE CommitRender
    <3>1. ScrollTyped' /\ UNCHANGED gsLeft
      BY <2>1, CommitTyped, CommitIs DEF Scrolled
    <3>. QED
      BY <2>1, <3>1, CommitPlaces DEF Scrolled
  <2>2. CASE Reveal
    BY <2>2, RevealScrolled
  <2>3. CASE Frame
    BY <2>3, FrameScrolled
  <2>4. CASE IntentFades
    BY <2>4, FadeScrolled
  <2>5. CASE OnScroll
    BY <2>5, OnScrollScrolled
  <2>6. CASE UserActs
    <3>1. CASE Scroll \/ PanMove
      <4>1. PICK x : ScrollTo(x) /\ gsAim' \in {x, Astray}
        BY <3>1 DEF Scroll, PanMove
      <4>. QED
        BY <4>1, ScrollToScrolled
    <3>. QED
      BY <2>6, <3>1, NavigationScrolled, PanScrolled, WheelScrolled, ZoomActsScrolled, JumpScrolled
         DEF UserActs, Navigations, Scrolls
  <2>7. CASE UNCHANGED gsVars
    <3>1. UNCHANGED <<gsStore, gsPort, gsAim, gsLeft>> /\ ScrollTyped
      BY <2>7 DEF gsVars, Scrolled
    <3>2. Current' = Current /\ Spot' = Spot /\ (Settled' <=> Settled)
      BY <3>1, SameSpot DEF Settled
    <3>3. /\ Axis(gsStore)' = Axis(gsStore) /\ Axis(gsPort.seen)' = Axis(gsPort.seen)
          /\ AxisStart(Current)' = AxisStart(Current) /\ (Overflows(Current)' <=> Overflows(Current))
      BY <3>1, <3>2 DEF Axis, Overflows, Seen, AxisStart, AxisEnd, PeriodStart, StepDate
    <3>4. Hidden' <=> Hidden
      BY <3>1, <3>2, <3>3 DEF Hidden, Uncentred, NoRestore
    <3>5. Zooming' <=> Zooming
      BY <3>1, <3>2 DEF Zooming, Unmoved, Park, Seen, AxisStart, AxisEnd, PeriodStart, StepDate
    <3>6. (Buffering' <=> Buffering) /\ (Extending' <=> Extending) /\ (Placed' <=> Placed)
          /\ (Navigated' <=> Navigated) /\ (Fresh' <=> Fresh)
      BY <3>1, <3>2, <3>3 DEF Buffering, Extending, Placed, Navigated, Fresh, Unmoved, Uncentred, NoRestore
    <3>. QED
      BY <3>1, <3>4, <3>5, <3>6 DEF Scrolled, ScrollTyped, Positioned
  <2>. QED
    BY <2>1, <2>2, <2>3, <2>4, <2>5, <2>6, <2>7 DEF GsNext
<1>. QED
  BY <1>1, <1>2, PTL DEF GsSpec

(* The view of the roadmap stays where the user put it (gantt-view.tsx):   *)
(* whenever everything is rendered, the left edge shows what the last act  *)
(* asked for, whatever extensions, slides, zooms, scroll events and frames *)
(* came in between, for any scales, panes, bounds and instants; but for a  *)
(* controlled anchor, and a pan whose track was changed under it.          *)
THEOREM ViewStaysPut == GsSpec => []InPlace
<1>1. Scrolled => InPlace
  BY SettledPlaced, AimedIs DEF Scrolled, InPlace, Placed, Spot
<1>. QED
  BY <1>1, ScrolledInv, PTL

=============================================================================
