------------------------ MODULE WebhookIntakeProofs -------------------------
(***************************************************************************)
(* Theorems about WebhookIntake, for any requests, deliveries, workers and *)
(* bounds.                                                                 *)
(*                                                                         *)
(* That an accepted delivery is kept rests on one fact about the event and *)
(* the workers (Earned): nothing is marked or reported as succeeded that   *)
(* was not reconciled or found to concern nobody.  That a delivery is      *)
(* reconciled once needs a tally (Tally): whoever is on a delivery and has *)
(* not reconciled it yet may still do so, and each of them but one was     *)
(* entered as an excuse when it started.                                   *)
(***************************************************************************)
EXTENDS WebhookIntake, FiniteSetTheorems, TLAPS

WhSteps == {"idle", "load", "done", "error"} \cup Busy

Shapes ==
    /\ DOMAIN whEvent = WhDeliveries /\ DOMAIN whRpc = WhRequests
    /\ DOMAIN whJob = WhRequests /\ whTried \in [WhRequests -> Nat]
    /\ whPc \in [WhWorkers -> WhSteps] /\ DOMAIN whHeld = WhWorkers
    /\ \A w \in WhWorkers : whPc[w] # "idle" => whHeld[w] \in WhRequests
    /\ whApplied \in [WhDeliveries -> Nat] /\ whExcuses \in [WhDeliveries -> Nat]

Reached(d) == whApplied[d] > 0 \/ d \in whDismissed

Earned ==
    /\ \A d \in WhDeliveries : whEvent[d] = "succeeded" => Reached(d)
    /\ \A w \in WhWorkers : whPc[w] \in {"succeed", "done"} => Reached(OnDelivery(w))

On(d)   == {w \in WhWorkers : whPc[w] \in Busy /\ OnDelivery(w) = d}
Wait(d) == {w \in On(d) : whPc[w] # "succeed"}

Tally(d) ==
    /\ On(d) # {} => whApplied[d] + Cardinality(Wait(d)) <= whExcuses[d] + 1
    /\ On(d) = {} /\ whEvent[d] # "succeeded" => whApplied[d] <= whExcuses[d]
    /\ On(d) = {} => whApplied[d] <= whExcuses[d] + 1

-----------------------------------------------------------------------------
LEMMA ShapesInv == WhSpec => []Shapes
<1>. USE WhAssumption DEF WhAssumption, Shapes, WhSteps, Busy, WhDeliveries, whQueue, whWork, whBooks,
         WhSpend, Handler, Worker, SetSyncEvent, Excuse, OnDelivery
<1>1. WhInit => Shapes
  BY DEF WhInit
<1>2. Shapes /\ [WhNext]_whVars => Shapes'
  <2>. SUFFICES ASSUME Shapes, [WhNext]_whVars
                PROVE  Shapes'
    OBVIOUS
  <2>1. CASE UNCHANGED whVars
    BY <2>1 DEF whVars
  <2>2. CASE GitChanges
    BY <2>2 DEF GitChanges
  <2>3. ASSUME NEW r \in WhRequests, Handling(r)
        PROVE  Shapes'
    BY <2>3 DEF Handling, ReceiveWebhook, InsertDelivery, LoadExisting, EnqueueDelivery,
                EnqueueDeliveryFails, MarkUnqueued, HandlerStops
  <2>4. ASSUME NEW w \in WhWorkers, NEW r \in WhRequests, ClaimDelivery(w, r)
        PROVE  Shapes'
    BY <2>4 DEF ClaimDelivery
  <2>5. ASSUME NEW w \in WhWorkers, LoadDelivery(w)
        PROVE  Shapes'
    BY <2>5 DEF LoadDelivery
  <2>6. ASSUME NEW w \in WhWorkers, MarkProcessing(w) \/ ResolveRepository(w) \/ FindProject(w)
        PROVE  Shapes'
    BY <2>6 DEF MarkProcessing, ResolveRepository, FindProject
  <2>7. ASSUME NEW w \in WhWorkers, Reconcile(w) \/ StepFails(w)
        PROVE  Shapes'
    BY <2>7 DEF Reconcile, StepFails
  <2>8. ASSUME NEW w \in WhWorkers, MarkEnd(w) \/ MarkEndFails(w)
        PROVE  Shapes'
    BY <2>8 DEF MarkEnd, MarkEndFails
  <2>9. ASSUME NEW w \in WhWorkers, SettleDelivery(w) \/ WorkerEnds(w)
        PROVE  Shapes'
    BY <2>9 DEF SettleDelivery, WorkerEnds
  <2>. QED
    BY <2>1, <2>2, <2>3, <2>4, <2>5, <2>6, <2>7, <2>8, <2>9 DEF WhNext, Working
<1>. QED
  BY <1>1, <1>2, PTL DEF WhSpec

LEMMA EarnedInv == WhSpec => []Earned
<1>. USE WhAssumption DEF WhAssumption, Shapes, WhSteps, Busy, WhDeliveries, whQueue, whWork, whBooks,
         Handler, Worker, SetSyncEvent, OnDelivery, Reached, Earned
<1>1. WhInit => Earned
  BY DEF WhInit
<1>2. Shapes /\ Shapes' /\ Earned /\ [WhNext]_whVars => Earned'
  <2>. SUFFICES ASSUME Shapes, Shapes', Earned, [WhNext]_whVars
                PROVE  Earned'
    OBVIOUS
  <2>1. CASE UNCHANGED whVars
    BY <2>1 DEF whVars
  <2>2. CASE GitChanges
    BY <2>2 DEF GitChanges
  <2>3. ASSUME NEW r \in WhRequests, Handling(r)
        PROVE  Earned'
    BY <2>3 DEF Handling, ReceiveWebhook, InsertDelivery, LoadExisting, EnqueueDelivery,
                EnqueueDeliveryFails, MarkUnqueued, HandlerStops
  <2>4. ASSUME NEW w \in WhWorkers, NEW r \in WhRequests, ClaimDelivery(w, r)
        PROVE  Earned'
    BY <2>4 DEF ClaimDelivery
  <2>5. ASSUME NEW w \in WhWorkers, LoadDelivery(w)
        PROVE  Earned'
    BY <2>5 DEF LoadDelivery
  <2>6. ASSUME NEW w \in WhWorkers, MarkProcessing(w) \/ ResolveRepository(w) \/ FindProject(w)
        PROVE  Earned'
    BY <2>6 DEF MarkProcessing, ResolveRepository, FindProject
  <2>7. ASSUME NEW w \in WhWorkers, Reconcile(w) \/ StepFails(w)
        PROVE  Earned'
    BY <2>7 DEF Reconcile, StepFails
  <2>8. ASSUME NEW w \in WhWorkers, MarkEnd(w) \/ MarkEndFails(w)
        PROVE  Earned'
    BY <2>8 DEF MarkEnd, MarkEndFails
  <2>9. ASSUME NEW w \in WhWorkers, SettleDelivery(w) \/ WorkerEnds(w)
        PROVE  Earned'
    BY <2>9 DEF SettleDelivery, WorkerEnds
  <2>. QED
    BY <2>1, <2>2, <2>3, <2>4, <2>5, <2>6, <2>7, <2>8, <2>9 DEF WhNext, Working
<1>. QED
  BY <1>1, <1>2, ShapesInv, PTL DEF WhSpec

(* A delivery that githubWebhook or gitlabWebhook answered with 202 is     *)
(* reconciled, of no concern, given up after the last attempt, or still    *)
(* has a job: a duplicate is taken for done only if it is.                 *)
THEOREM AcceptedDeliveriesKept == WhSpec => []AcceptedIsKept
<1>. USE WhAssumption DEF WhAssumption, Shapes, WhSteps, Busy, WhDeliveries, whQueue, whWork, whBooks,
         Handler, Worker, SetSyncEvent, OnDelivery, Reached, Earned, AcceptedIsKept
<1>1. WhInit => AcceptedIsKept
  BY DEF WhInit
<1>2. Shapes /\ Shapes' /\ Earned /\ AcceptedIsKept /\ [WhNext]_whVars => AcceptedIsKept'
  <2>. SUFFICES ASSUME Shapes, Shapes', Earned, AcceptedIsKept, [WhNext]_whVars
                PROVE  AcceptedIsKept'
    OBVIOUS
  <2>1. CASE UNCHANGED whVars
    BY <2>1 DEF whVars
  <2>2. CASE GitChanges
    BY <2>2 DEF GitChanges
  <2>3. ASSUME NEW r \in WhRequests, Handling(r)
        PROVE  AcceptedIsKept'
    BY <2>3 DEF Handling, ReceiveWebhook, InsertDelivery, LoadExisting, EnqueueDelivery,
                EnqueueDeliveryFails, MarkUnqueued, HandlerStops
  <2>4. ASSUME NEW w \in WhWorkers, NEW r \in WhRequests, ClaimDelivery(w, r)
        PROVE  AcceptedIsKept'
    BY <2>4 DEF ClaimDelivery
  <2>5. ASSUME NEW w \in WhWorkers, LoadDelivery(w)
        PROVE  AcceptedIsKept'
    BY <2>5 DEF LoadDelivery
  <2>6. ASSUME NEW w \in WhWorkers, MarkProcessing(w) \/ ResolveRepository(w) \/ FindProject(w)
        PROVE  AcceptedIsKept'
    BY <2>6 DEF MarkProcessing, ResolveRepository, FindProject
  <2>7. ASSUME NEW w \in WhWorkers, Reconcile(w) \/ StepFails(w)
        PROVE  AcceptedIsKept'
    BY <2>7 DEF Reconcile, StepFails
  <2>8. ASSUME NEW w \in WhWorkers, MarkEnd(w) \/ MarkEndFails(w)
        PROVE  AcceptedIsKept'
    BY <2>8 DEF MarkEnd, MarkEndFails
  <2>9. ASSUME NEW w \in WhWorkers, SettleDelivery(w) \/ WorkerEnds(w)
        PROVE  AcceptedIsKept'
    BY <2>9 DEF SettleDelivery, WorkerEnds
  <2>. QED
    BY <2>1, <2>2, <2>3, <2>4, <2>5, <2>6, <2>7, <2>8, <2>9 DEF WhNext, Working
<1>. QED
  BY <1>1, <1>2, ShapesInv, EarnedInv, PTL DEF WhSpec

-----------------------------------------------------------------------------
LEMMA Counted ==
  ASSUME Shapes, NEW d \in WhDeliveries
  PROVE  /\ IsFiniteSet(Wait(d)) /\ Cardinality(Wait(d)) \in Nat
         /\ Wait(d) # {} => Cardinality(Wait(d)) >= 1
         /\ whApplied[d] \in Nat /\ whExcuses[d] \in Nat
<1>1. IsFiniteSet(Wait(d))
  BY WhAssumption, FS_Subset DEF WhAssumption, Wait, On
<1>. QED
  BY <1>1, FS_CardinalityType, FS_EmptySet DEF Shapes

(* The ways a step changes the tally of a delivery. *)
LEMMA TallyKept ==
  ASSUME Shapes, Shapes', NEW d \in WhDeliveries, Tally(d),
         On(d)' = On(d), Wait(d)' = Wait(d), whApplied'[d] = whApplied[d],
         whExcuses'[d] = whExcuses[d],
         whEvent[d] # "succeeded" \/ whEvent'[d] = "succeeded" \/ On(d) # {}
  PROVE  Tally(d)'
BY DEF Tally

LEMMA TallyExcused ==
  ASSUME Shapes, Shapes', NEW d \in WhDeliveries, Tally(d),
         On(d)' = On(d), Wait(d)' = Wait(d), whApplied'[d] = whApplied[d],
         whExcuses'[d] = whExcuses[d] + 1
  PROVE  Tally(d)'
BY Counted DEF Tally

LEMMA TallyEntered ==
  ASSUME Shapes, Shapes', NEW d \in WhDeliveries, NEW w \in WhWorkers, Tally(d),
         w \notin On(d), On(d)' = On(d) \cup {w}, Wait(d)' = Wait(d) \cup {w},
         whApplied'[d] = whApplied[d], whEvent[d] # "succeeded",
         whExcuses'[d] = IF On(d) # {} THEN whExcuses[d] + 1 ELSE whExcuses[d]
  PROVE  Tally(d)'
<1>1. w \notin Wait(d)
  BY DEF Wait
<1>2. Cardinality(Wait(d)') = Cardinality(Wait(d)) + 1
  BY <1>1, Counted, FS_AddElement
<1>3. CASE On(d) = {}
  <2>1. Wait(d) = {}
    BY <1>3 DEF Wait
  <2>. QED
    BY <1>2, <1>3, <2>1, Counted, FS_EmptySet DEF Tally
<1>4. CASE On(d) # {}
  BY <1>2, <1>4, Counted DEF Tally
<1>. QED
  BY <1>3, <1>4

LEMMA TallyApplied ==
  ASSUME Shapes, Shapes', NEW d \in WhDeliveries, NEW w \in Wait(d), Tally(d),
         On(d)' = On(d), Wait(d)' = Wait(d) \ {w},
         whApplied'[d] = whApplied[d] + 1, whExcuses'[d] = whExcuses[d]
  PROVE  Tally(d)'
<1>1. Cardinality(Wait(d)') = Cardinality(Wait(d)) - 1
  BY Counted, FS_RemoveElement
<1>2. On(d) # {}
  BY DEF Wait
<1>. QED
  BY <1>1, <1>2, Counted DEF Tally

(* A worker will not reconcile: there is no project. *)
LEMMA TallyDismissed ==
  ASSUME Shapes, Shapes', NEW d \in WhDeliveries, NEW w \in Wait(d), Tally(d),
         On(d)' = On(d), Wait(d)' = Wait(d) \ {w},
         whApplied'[d] = whApplied[d], whExcuses'[d] = whExcuses[d]
  PROVE  Tally(d)'
<1>1. Cardinality(Wait(d)') = Cardinality(Wait(d)) - 1
  BY Counted, FS_RemoveElement
<1>2. On(d) # {}
  BY DEF Wait
<1>. QED
  BY <1>1, <1>2, Counted DEF Tally

(* A worker leaves without having reconciled. *)
LEMMA TallyLeft ==
  ASSUME Shapes, Shapes', NEW d \in WhDeliveries, NEW w \in Wait(d), Tally(d),
         On(d)' = On(d) \ {w}, Wait(d)' = Wait(d) \ {w},
         whApplied'[d] = whApplied[d], whExcuses'[d] = whExcuses[d]
  PROVE  Tally(d)'
<1>1. Cardinality(Wait(d)') = Cardinality(Wait(d)) - 1 /\ Cardinality(Wait(d)) >= 1
  BY Counted, FS_RemoveElement
<1>2. On(d) # {}
  BY DEF Wait
<1>. QED
  BY <1>1, <1>2, Counted DEF Tally

(* A worker leaves that has: its mark is there, or it is excused. *)
LEMMA TallyMarked ==
  ASSUME Shapes, Shapes', NEW d \in WhDeliveries, NEW w \in On(d) \ Wait(d), Tally(d),
         On(d)' = On(d) \ {w}, Wait(d)' = Wait(d), whApplied'[d] = whApplied[d],
         \/ whEvent'[d] = "succeeded" /\ whExcuses'[d] = whExcuses[d]
         \/ whExcuses'[d] = whExcuses[d] + 1
  PROVE  Tally(d)'
BY Counted DEF Tally

LEMMA TallyInv == WhSpec => []\A d \in WhDeliveries : Tally(d)
<1>. USE WhAssumption DEF WhAssumption, WhDeliveries, whQueue, whWork, whBooks,
         Handler, Worker, SetSyncEvent, Excuse, OnDelivery
<1>. DEFINE Inv == \A d \in WhDeliveries : Tally(d)
<1>1. WhInit => Inv
  <2>. SUFFICES ASSUME WhInit, NEW d \in WhDeliveries
                PROVE  Tally(d)
    OBVIOUS
  <2>. QED
    BY DEF WhInit, Tally, On, Busy
<1>2. Shapes /\ Shapes' /\ Inv /\ [WhNext]_whVars => Inv'
  <2>. SUFFICES ASSUME Shapes, Shapes', Inv, [WhNext]_whVars, NEW d \in WhDeliveries
                PROVE  Tally(d)'
    BY DEF WhDeliveries
  <2>0. Tally(d)
    OBVIOUS
  <2>. HIDE DEF Inv
  <2>1. CASE UNCHANGED whVars
    <3>. On(d)' = On(d) /\ Wait(d)' = Wait(d)
      BY <2>1 DEF whVars, On, Wait
    <3>. QED
      BY <2>0, <2>1, TallyKept DEF whVars
  <2>2. CASE GitChanges
    <3>. On(d)' = On(d) /\ Wait(d)' = Wait(d)
      BY <2>2 DEF GitChanges, On, Wait
    <3>. QED
      BY <2>0, <2>2, TallyKept DEF GitChanges
  <2>3. ASSUME NEW r \in WhRequests, Handling(r)
        PROVE  Tally(d)'
    <3>. USE <2>3 DEF Handling, ReceiveWebhook, InsertDelivery, LoadExisting, EnqueueDelivery,
                      EnqueueDeliveryFails, MarkUnqueued, HandlerStops
    <3>1. On(d)' = On(d) /\ Wait(d)' = Wait(d) /\ whApplied'[d] = whApplied[d]
      BY DEF On, Wait
    <3>2. CASE MarkUnqueued(r) /\ WhDelivery[r] = d
      <4>. whExcuses'[d] = whExcuses[d] + 1
        BY <3>2 DEF Shapes
      <4>. QED
        BY <2>0, <3>1, TallyExcused
    <3>3. CASE ~(MarkUnqueued(r) /\ WhDelivery[r] = d)
      <4>1. whExcuses'[d] = whExcuses[d]
        BY <3>3 DEF Shapes
      <4>2. whEvent[d] # "succeeded" \/ whEvent'[d] = "succeeded"
        BY <3>3 DEF Shapes
      <4>. QED
        BY <2>0, <3>1, <4>1, <4>2, TallyKept
    <3>. QED
      BY <3>2, <3>3
  <2>4. ASSUME NEW w \in WhWorkers, NEW r \in WhRequests, ClaimDelivery(w, r)
        PROVE  Tally(d)'
    <3>. On(d)' = On(d) /\ Wait(d)' = Wait(d)
      BY <2>4 DEF ClaimDelivery, On, Wait, Busy, Shapes
    <3>. QED
      BY <2>0, <2>4, TallyKept DEF ClaimDelivery
  <2>5. ASSUME NEW w \in WhWorkers, Working(w)
        PROVE  Tally(d)'
    <3>. USE DEF Shapes, Busy
    <3>1. CASE LoadDelivery(w)
      <4>1. CASE whPc'[w] = "start" /\ WhDelivery[whHeld[w]] = d
        <5>1. w \notin On(d) /\ On(d)' = On(d) \cup {w} /\ Wait(d)' = Wait(d) \cup {w}
          BY <3>1, <4>1 DEF LoadDelivery, On, Wait
        <5>2. Beside(w) <=> On(d) # {}
          BY <4>1, <5>1 DEF Beside, On
        <5>3. whApplied'[d] = whApplied[d] /\ whEvent[d] # "succeeded"
              /\ whExcuses'[d] = IF On(d) # {} THEN whExcuses[d] + 1 ELSE whExcuses[d]
          BY <3>1, <4>1, <5>2 DEF LoadDelivery
        <5>. QED
          BY <2>0, <5>1, <5>3, TallyEntered
      <4>2. CASE ~(whPc'[w] = "start" /\ WhDelivery[whHeld[w]] = d)
        <5>1. On(d)' = On(d) /\ Wait(d)' = Wait(d)
          BY <3>1, <4>2 DEF LoadDelivery, On, Wait
        <5>2. whApplied'[d] = whApplied[d] /\ whEvent' = whEvent /\ whExcuses'[d] = whExcuses[d]
          BY <3>1, <4>2 DEF LoadDelivery
        <5>. QED
          BY <2>0, <5>1, <5>2, TallyKept
      <4>. QED
        BY <4>1, <4>2
    <3>2. CASE WhDelivery[whHeld[w]] # d /\ ~LoadDelivery(w)
      <4>. USE <2>5, <3>2 DEF Working, MarkProcessing, ResolveRepository, FindProject, Reconcile,
                              StepFails, MarkEnd, MarkEndFails, SettleDelivery, WorkerEnds
      <4>1. On(d)' = On(d) /\ Wait(d)' = Wait(d)
        BY DEF On, Wait
      <4>2. /\ whApplied'[d] = whApplied[d] /\ whExcuses'[d] = whExcuses[d]
            /\ whEvent'[d] = whEvent[d]
        OBVIOUS
      <4>. QED
        BY <2>0, <4>1, <4>2, TallyKept
    <3>3. CASE WhDelivery[whHeld[w]] = d /\ (MarkProcessing(w) \/ ResolveRepository(w) \/ FindProject(w))
      <4>. USE <3>3 DEF MarkProcessing, ResolveRepository, FindProject
      <4>1. On(d)' = On(d) /\ w \in On(d)
        BY DEF On
      <4>2. whApplied'[d] = whApplied[d] /\ whExcuses'[d] = whExcuses[d]
        OBVIOUS
      <4>3. CASE whPc'[w] # "succeed"
        <5>. Wait(d)' = Wait(d)
          BY <4>3 DEF On, Wait
        <5>. QED
          BY <2>0, <4>1, <4>2, TallyKept
      <4>4. CASE whPc'[w] = "succeed"
        <5>. w \in Wait(d) /\ Wait(d)' = Wait(d) \ {w}
          BY <4>4 DEF On, Wait
        <5>. QED
          BY <2>0, <4>1, <4>2, TallyDismissed
      <4>. QED
        BY <4>3, <4>4
    <3>4. CASE WhDelivery[whHeld[w]] = d /\ Reconcile(w)
      <4>1. On(d)' = On(d) /\ Wait(d)' = Wait(d) \ {w} /\ w \in Wait(d)
        BY <3>4 DEF Reconcile, On, Wait
      <4>2. whApplied'[d] = whApplied[d] + 1 /\ whExcuses'[d] = whExcuses[d]
        BY <3>4 DEF Reconcile
      <4>. QED
        BY <2>0, <4>1, <4>2, TallyApplied
    <3>5. CASE WhDelivery[whHeld[w]] = d /\ StepFails(w)
      <4>1. /\ whApplied'[d] = whApplied[d] /\ whExcuses'[d] = whExcuses[d]
            /\ whEvent'[d] = whEvent[d]
        BY <3>5 DEF StepFails
      <4>2. CASE whPc[w] \in {"start", "stamp"}
        <5>1. w \in Wait(d) /\ On(d)' = On(d) \ {w} /\ Wait(d)' = Wait(d) \ {w}
          BY <3>5, <4>2 DEF StepFails, On, Wait
        <5>. QED
          BY <2>0, <4>1, <5>1, TallyLeft
      <4>3. CASE whPc[w] \notin {"start", "stamp"}
        <5>1. On(d)' = On(d) /\ Wait(d)' = Wait(d)
          BY <3>5, <4>3 DEF StepFails, On, Wait
        <5>. QED
          BY <2>0, <4>1, <5>1, TallyKept
      <4>. QED
        BY <4>2, <4>3
    <3>6. CASE WhDelivery[whHeld[w]] = d /\ (MarkEnd(w) \/ MarkEndFails(w))
      <4>. USE <3>6 DEF MarkEnd, MarkEndFails
      <4>1. whApplied'[d] = whApplied[d]
        OBVIOUS
      <4>2. CASE whPc[w] = "succeed"
        <5>1. w \in On(d) \ Wait(d) /\ On(d)' = On(d) \ {w} /\ Wait(d)' = Wait(d)
          BY <4>2 DEF On, Wait
        <5>2. \/ whEvent'[d] = "succeeded" /\ whExcuses'[d] = whExcuses[d]
              \/ whExcuses'[d] = whExcuses[d] + 1
          BY <4>2
        <5>. QED
          BY <2>0, <4>1, <5>1, <5>2, TallyMarked
      <4>3. CASE whPc[w] \in {"skip", "fail"}
        <5>1. w \in Wait(d) /\ On(d)' = On(d) \ {w} /\ Wait(d)' = Wait(d) \ {w}
          BY <4>3 DEF On, Wait
        <5>2. whExcuses'[d] = whExcuses[d]
          BY <4>3
        <5>. QED
          BY <2>0, <4>1, <5>1, <5>2, TallyLeft
      <4>. QED
        BY <4>2, <4>3
    <3>7. CASE SettleDelivery(w)
      <4>1. On(d)' = On(d) /\ Wait(d)' = Wait(d)
        BY <3>7 DEF SettleDelivery, On, Wait
      <4>. QED
        BY <2>0, <3>7, <4>1, TallyKept DEF SettleDelivery
    <3>8. CASE WhDelivery[whHeld[w]] = d /\ WorkerEnds(w)
      <4>. USE <3>8 DEF WorkerEnds
      <4>1. whApplied'[d] = whApplied[d] /\ whEvent'[d] = whEvent[d]
        OBVIOUS
      <4>2. CASE whPc[w] = "succeed"
        <5>1. w \in On(d) \ Wait(d) /\ On(d)' = On(d) \ {w} /\ Wait(d)' = Wait(d)
          BY <4>2 DEF On, Wait
        <5>2. whExcuses'[d] = whExcuses[d] + 1
          BY <4>2
        <5>. QED
          BY <2>0, <4>1, <5>1, <5>2, TallyMarked
      <4>3. CASE whPc[w] \in Busy \ {"succeed"}
        <5>1. w \in Wait(d) /\ On(d)' = On(d) \ {w} /\ Wait(d)' = Wait(d) \ {w}
          BY <4>3 DEF On, Wait
        <5>2. whExcuses'[d] = whExcuses[d]
          BY <4>3
        <5>. QED
          BY <2>0, <4>1, <5>1, <5>2, TallyLeft
      <4>4. CASE whPc[w] \notin Busy
        <5>1. On(d)' = On(d) /\ Wait(d)' = Wait(d)
          BY <4>4 DEF On, Wait
        <5>2. whExcuses'[d] = whExcuses[d]
          BY <4>4
        <5>. QED
          BY <2>0, <4>1, <5>1, <5>2, TallyKept
      <4>. QED
        BY <4>2, <4>3, <4>4
    <3>. QED
      BY <2>5, <3>1, <3>2, <3>3, <3>4, <3>5, <3>6, <3>7, <3>8 DEF Working
  <2>. QED
    BY <2>1, <2>2, <2>3, <2>4, <2>5 DEF WhNext
<1>. QED
  BY <1>1, <1>2, ShapesInv, PTL DEF WhSpec

(* However often a delivery is sent, it is reconciled once, plus once for  *)
(* each unrecorded success, delivery marked failed from outside, and job   *)
(* that began while another was on the same delivery.                      *)
THEOREM DeliveriesReconciledOnce == WhSpec => []EffectsExplained
<1>1. Shapes /\ (\A d \in WhDeliveries : Tally(d)) => EffectsExplained
  <2>. SUFFICES ASSUME Shapes, NEW d \in WhDeliveries, Tally(d)
                PROVE  whApplied[d] <= 1 + whExcuses[d]
    BY DEF EffectsExplained
  <2>. QED
    BY Counted DEF Tally
<1>. QED
  BY <1>1, ShapesInv, TallyInv, PTL
=============================================================================
