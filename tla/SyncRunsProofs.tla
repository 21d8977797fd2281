--------------------------- MODULE SyncRunsProofs ---------------------------
(***************************************************************************)
(* Theorems about SyncRuns, for any runs, workers, provider changes, kinds *)
(* of API run and bounds.                                                  *)
(*                                                                         *)
(* OnePullPerPair is inductive once the queue's claims are (Shape): a      *)
(* claimed run's job is processing, so its run is active at every step.    *)
(* NothingSkipped and CursorAdvances follow from that exclusion: nobody    *)
(* else moves the cursor between a pull's read of it and its write, so the *)
(* window that was listed still begins where the cursor says (Pulling).    *)
(***************************************************************************)
EXTENDS SyncRuns, TLAPS

Idle    == {"idle", "paired", "selected"}
Reading == {"list", "reconcile", "save"}

(* A worker has a run exactly while it processes it; the run's job is then *)
(* processing, and no other worker has it.                                 *)
Claimed ==
  /\ \A w \in Workers : run[w] = NoRun <=> pc[w] \in Idle
  /\ \A w \in Workers : run[w] # NoRun => job[run[w]] = "processing" /\ ~handler[run[w]]
  /\ \A v, w \in Workers : run[v] # NoRun /\ run[v] = run[w] => v = w

(* The event of a run comes before its job. *)
EventFirst ==
  /\ \A r \in Runs : handler[r] => event[r] = "queued" /\ job[r] = "none"
  /\ \A r \in Runs : Pulls(r) /\ job[r] \in Waiting => event[r] # "none"

(* Only pulls read the provider, and they begin without a window. *)
ReadersPull ==
  /\ \A w \in Workers : pc[w] \in Reading => Pulls(run[w])
  /\ \A w \in Workers : pc[w] \in Idle \cup {"begin"} => window[w] = Full

Shape == Claimed /\ EventFirst /\ ReadersPull

Late(w, c) == stamp[c] >= startedAt[w] - Overlap

(* What a worker between its read of the cursor and its write knows. *)
Pulling(w) ==
  /\ pc[w] \in Reading => 1 <= startedAt[w] /\ startedAt[w] <= clock /\ cursor <= startedAt[w]
  /\ pc[w] = "list" =>
       window[w] = Full \/ (cursor # NoTime /\ window[w] = cursor - Overlap)
  /\ pc[w] = "reconcile" =>
       \A c \in Changes : stamp[c] # NoTime => c \in applied \cup fetched[w] \/ Late(w, c)
  /\ pc[w] = "save" =>
       \A c \in Changes : stamp[c] # NoTime => c \in applied \/ Late(w, c)

(* What has not been reconciled is no older than the cursor less Overlap. *)
NotBehind ==
  \A c \in Changes :
    stamp[c] # NoTime /\ c \notin applied => cursor = NoTime \/ stamp[c] >= cursor - Overlap

CursorInv == cursor <= clock /\ NotBehind /\ \A w \in Workers : Pulling(w)

-----------------------------------------------------------------------------
(* The types of what the shared pieces of the actions write. *)
LEMMA NewRunType ==
  ASSUME TypeOK, NEW r \in Runs, NEW k \in Kinds, NEW e \in Events, NEW j \in JobState,
         NewRun(r, k, e, j)
  PROVE  /\ kind' \in [Runs -> Kinds] /\ event' \in [Runs -> Events]
         /\ job' \in [Runs -> JobState] /\ attempts' \in [Runs -> Nat]
<1>1. kind' \in [Runs -> Kinds] /\ event' \in [Runs -> Events]
  BY DEF NewRun, TypeOK
<1>2. job' \in [Runs -> JobState] /\ attempts' \in [Runs -> Nat]
  BY DEF NewRun, TypeOK
<1>. QED
  BY <1>1, <1>2

LEMMA GotoType ==
  ASSUME TypeOK, NEW w \in Workers, NEW l \in PCs, Goto(w, l)
  PROVE  pc' \in [Workers -> PCs]
BY DEF Goto, TypeOK

LEMMA ReturnType ==
  ASSUME TypeOK, NEW w \in Workers, NEW e \in BOOLEAN,
         Return(w, e) \/ (UNCHANGED failed /\ Goto(w, "list"))
  PROVE  pc' \in [Workers -> PCs] /\ failed' \in [Workers -> BOOLEAN]
<1>1. CASE Return(w, e)
  BY <1>1, GotoType DEF Return, TypeOK, PCs
<1>2. CASE UNCHANGED failed /\ Goto(w, "list")
  BY <1>2, GotoType DEF TypeOK, PCs
<1>. QED
  BY <1>1, <1>2

(* Every variable keeps its type: rows hold only statuses the migrations'  *)
(* CHECK constraints allow, and a pull starts no later than the clock.     *)
THEOREM TypeCorrect == Spec => []TypeOK
<1>. USE RunsAssumption DEF RunsAssumption, Kinds, Events, JobState, PCs, Times,
         runVars, stateVars, pairVars, workerVars, dataVars, bounds
<1>1. Init => TypeOK
  <2>1. ASSUME Init
        PROVE  /\ kind \in [Runs -> Kinds] /\ event \in [Runs -> Events]
               /\ job \in [Runs -> JobState] /\ attempts \in [Runs -> Nat]
               /\ handler \in [Runs -> BOOLEAN]
    BY <2>1 DEF Init
  <2>2. ASSUME Init
        PROVE  /\ row \in BOOLEAN /\ due \in BOOLEAN /\ cursor \in Times
               /\ backfilled \in BOOLEAN /\ attached \in BOOLEAN /\ active \in BOOLEAN
               /\ clock \in 1..MaxTime /\ errors \in 0..MaxErrors
               /\ faults \in 0..MaxFaults /\ toggles \in 0..MaxToggles
    <3>1. row \in BOOLEAN
      BY <2>2 DEF Init
    <3>2. due \in BOOLEAN /\ backfilled \in BOOLEAN /\ attached \in BOOLEAN /\ active \in BOOLEAN
      BY <2>2 DEF Init
    <3>3. cursor = 0 \/ cursor = 1
      BY <2>2 DEF Init, NoTime
    <3>4. clock = 1 /\ errors = 0 /\ faults = 0 /\ toggles = 0
      BY <2>2 DEF Init
    <3>. QED
      BY <3>1, <3>2, <3>3, <3>4
  <2>3. ASSUME Init
        PROVE  /\ pc \in [Workers -> PCs] /\ run \in [Workers -> Runs \cup {NoRun}]
               /\ startedAt \in [Workers -> Times] /\ window \in [Workers -> Int]
               /\ fetched \in [Workers -> SUBSET Changes] /\ failed \in [Workers -> BOOLEAN]
               /\ stamp \in [Changes -> Times] /\ applied \in SUBSET Changes
    BY <2>3 DEF Init, NoTime, Full
  <2>. QED
    BY <2>1, <2>2, <2>3 DEF TypeOK
<1>2. TypeOK => clock \in Times
  BY DEF TypeOK
<1>3. ASSUME TypeOK, [Next]_vars  PROVE TypeOK'
  <2>. USE <1>3 DEF TypeOK
  <2>1. ASSUME NEW r \in Runs, Api(r)  PROVE TypeOK'
    <3>1. CASE ImportStart(r)
      <4>1. handler' \in [Runs -> BOOLEAN]
        BY <3>1 DEF ImportStart
      <4>2. /\ kind' \in [Runs -> Kinds] /\ event' \in [Runs -> Events]
            /\ job' \in [Runs -> JobState] /\ attempts' \in [Runs -> Nat]
        BY <3>1, NewRunType DEF ImportStart
      <4>. QED
        BY <3>1, <4>1, <4>2 DEF ImportStart
    <3>2. CASE CreateStart(r)
      <4>1. handler' \in [Runs -> BOOLEAN]
        BY <3>2 DEF CreateStart
      <4>2. /\ kind' \in [Runs -> Kinds] /\ event' \in [Runs -> Events]
            /\ job' \in [Runs -> JobState] /\ attempts' \in [Runs -> Nat]
        BY <3>2, NewRunType DEF CreateStart
      <4>. QED
        BY <3>2, <4>1, <4>2 DEF CreateStart
    <3>3. CASE UpdateStart(r)
      <4>1. /\ kind' \in [Runs -> Kinds] /\ event' \in [Runs -> Events]
            /\ job' \in [Runs -> JobState] /\ attempts' \in [Runs -> Nat]
        BY <3>3, NewRunType DEF UpdateStart
      <4>. QED
        BY <3>3, <4>1 DEF UpdateStart
    <3>4. CASE HandlerEnqueue(r)
      BY <3>4 DEF HandlerEnqueue
    <3>5. CASE HandlerEnqueueFails(r)
      BY <3>5 DEF HandlerEnqueueFails, Error
    <3>6. CASE HandlerGone(r)
      BY <3>6 DEF HandlerGone, Fault
    <3>. QED
      BY <2>1, <3>1, <3>2, <3>3, <3>4, <3>5, <3>6 DEF Api
  <2>2. ASSUME NEW w \in Workers, Schedule(w)  PROVE TypeOK'
    <3>1. CASE SchedulePairs(w)
      BY <3>1 DEF SchedulePairs, Goto
    <3>2. CASE ScheduleSelect(w)
      <4>1. pc' \in [Workers -> PCs]
        <5>1. Goto(w, "selected") \/ Goto(w, "idle")
          BY <3>2 DEF ScheduleSelect
        <5>. QED
          BY <5>1, GotoType
      <4>2. row' \in BOOLEAN /\ due' \in BOOLEAN /\ cursor' = cursor /\ backfilled' = backfilled
        BY <3>2 DEF ScheduleSelect
      <4>. QED
        BY <3>2, <4>1, <4>2 DEF ScheduleSelect
    <3>3. CASE ScheduleCommit(w)
      <4>1. CASE PairActive
        BY <3>3, <4>1 DEF ScheduleCommit, Goto
      <4>2. CASE ~PairActive
        <5>. PICK r \in Runs : NewRun(r, "poll", "queued", "pending")
          BY <3>3, <4>2 DEF ScheduleCommit
        <5>1. /\ kind' \in [Runs -> Kinds] /\ event' \in [Runs -> Events]
              /\ job' \in [Runs -> JobState] /\ attempts' \in [Runs -> Nat]
          BY NewRunType
        <5>3. pc' \in [Workers -> PCs] /\ row' \in BOOLEAN /\ due' \in BOOLEAN
          BY <3>3 DEF ScheduleCommit, Goto
        <5>4. handler' = handler
          BY <3>3, <4>2 DEF ScheduleCommit
        <5>. QED
          BY <3>3, <5>1, <5>3, <5>4 DEF ScheduleCommit
      <4>. QED
        BY <4>1, <4>2
    <3>. QED
      BY <2>2, <3>1, <3>2, <3>3 DEF Schedule
  <2>3. ASSUME NEW w \in Workers, Claim(w)  PROVE TypeOK'
    BY <2>3 DEF Claim, Goto
  <2>4. ASSUME NEW w \in Workers, Process(w)  PROVE TypeOK'
    <3>1. CASE PollBegin(w)
      <4>1. PollingSince \in Int
        BY DEF PollingSince, Full
      <4>. QED
        <5>1. window' \in [Workers -> Int]
          BY <3>1, <4>1 DEF PollBegin
        <5>2. event' \in [Runs -> Events]
          BY <3>1 DEF PollBegin
        <5>4. startedAt' \in [Workers -> Times]
          BY <3>1, <1>2 DEF PollBegin
        <5>3. pc' \in [Workers -> PCs] /\ failed' \in [Workers -> BOOLEAN]
          BY <3>1, ReturnType DEF PollBegin
        <5>. QED
          BY <3>1, <5>1, <5>2, <5>3, <5>4 DEF PollBegin
    <3>2. CASE ImportBegin(w)
      <4>1. event' \in [Runs -> Events]
        BY <3>2 DEF ImportBegin
      <4>3. startedAt' \in [Workers -> Times]
        BY <3>2, <1>2 DEF ImportBegin
      <4>2. pc' \in [Workers -> PCs] /\ failed' \in [Workers -> BOOLEAN]
        BY <3>2, ReturnType DEF ImportBegin
      <4>. QED
        BY <3>2, <4>1, <4>2, <4>3 DEF ImportBegin
    <3>3. CASE MutationBegin(w)
      BY <3>3 DEF MutationBegin, Goto
    <3>4. CASE Push(w)
      BY <3>4 DEF Push, Goto, Return
    <3>5. CASE List(w)
      BY <3>5 DEF List, Goto
    <3>6. CASE Reconcile(w)
      BY <3>6 DEF Reconcile, Goto
    <3>7. CASE PollSave(w)
      BY <3>7 DEF PollSave, Goto, Return
    <3>8. CASE ImportSave(w)
      BY <3>8 DEF ImportSave, Goto, Return
    <3>9. CASE MarkEvent(w)
      BY <3>9 DEF MarkEvent, Goto
    <3>10. CASE Settle(w)
      <4>1. job' \in [Runs -> JobState]
        BY <3>10 DEF Settle
      <4>2. Rest(w)
        BY <3>10 DEF Settle
      <4>. QED
        BY <3>10, <4>1, <4>2 DEF Settle, Rest, Goto, NoTime, Full
    <3>. QED
      BY <2>4, <3>1, <3>2, <3>3, <3>4, <3>5, <3>6, <3>7, <3>8, <3>9, <3>10 DEF Process
  <2>5. ASSUME NEW w \in Workers, ReconcileSome(w)  PROVE TypeOK'
    BY <2>5 DEF ReconcileSome, Error, Return, Goto
  <2>6. ASSUME NEW w \in Workers, StepFails(w)  PROVE TypeOK'
    <3>1. backfilled' \in BOOLEAN
      BY <2>6 DEF StepFails
    <3>2. errors' \in 0..MaxErrors
      BY <2>6 DEF StepFails, Error
    <3>3. pc' \in [Workers -> PCs] /\ failed' \in [Workers -> BOOLEAN]
      BY <2>6 DEF StepFails, Return, Goto
    <3>. QED
      BY <2>6, <3>1, <3>2, <3>3 DEF StepFails, Error
  <2>7. ASSUME NEW w \in Workers, BeginFails(w) \/ MarkLost(w)  PROVE TypeOK'
    <3>1. CASE BeginFails(w)
      BY <3>1 DEF BeginFails, Error, Goto
    <3>2. CASE MarkLost(w)
      BY <3>2 DEF MarkLost, Fault, Goto
    <3>. QED
      BY <2>7, <3>1, <3>2
  <2>8. ASSUME NEW w \in Workers, Crash(w)  PROVE TypeOK'
    BY <2>8 DEF Crash, Fault, Rest, Goto, NoTime, Full
  <2>9. ASSUME NEW c \in Changes, ProviderChange(c)  PROVE TypeOK'
    BY <2>9 DEF ProviderChange
  <2>10. CASE IntervalElapses
    BY <2>10 DEF IntervalElapses
  <2>11. CASE Toggle
    <3>1. toggles' \in 0..MaxToggles
      BY <2>11 DEF Toggle
    <3>2. attached' \in BOOLEAN /\ active' \in BOOLEAN
      BY <2>11 DEF Toggle
    <3>. QED
      BY <2>11, <3>1, <3>2 DEF Toggle
  <2>12. CASE Tick
    BY <2>12 DEF Tick
  <2>13. CASE UNCHANGED vars
    BY <2>13 DEF vars
  <2>. QED
    BY <2>1, <2>2, <2>3, <2>4, <2>5, <2>6, <2>7, <2>8, <2>9, <2>10, <2>11, <2>12, <2>13
    DEF Next
<1>. QED
  BY <1>1, <1>3, PTL DEF Spec

-----------------------------------------------------------------------------
(* Every action keeps Shape.  Those of the scheduler and the API touch     *)
(* only runs that no worker has.                                           *)
LEMMA ShapeStep ==
  ASSUME TypeOK, Shape, [Next]_vars
  PROVE  Shape'
<1>. USE RunsAssumption DEF RunsAssumption, Shape, Claimed, EventFirst, ReadersPull, Pulls,
         Idle, Reading, Waiting, Unfinished, runVars, stateVars, pairVars, workerVars,
         dataVars, bounds, TypeOK, Goto
<1>1. ASSUME NEW r \in Runs, Api(r)  PROVE Shape'
  <2>1. CASE ImportStart(r)
    BY <2>1 DEF ImportStart, NewRun, Unused
  <2>2. CASE CreateStart(r)
    BY <2>2 DEF CreateStart, NewRun, Unused
  <2>3. CASE UpdateStart(r)
    BY <2>3 DEF UpdateStart, NewRun, Unused
  <2>4. CASE HandlerEnqueue(r)
    BY <2>4 DEF HandlerEnqueue
  <2>5. CASE HandlerEnqueueFails(r)
    BY <2>5 DEF HandlerEnqueueFails, Error
  <2>6. CASE HandlerGone(r)
    BY <2>6 DEF HandlerGone, Fault
  <2>. QED
    BY <1>1, <2>1, <2>2, <2>3, <2>4, <2>5, <2>6 DEF Api
<1>2. ASSUME NEW w \in Workers, Schedule(w)  PROVE Shape'
  <2>1. CASE SchedulePairs(w)
    BY <2>1 DEF SchedulePairs
  <2>2. CASE ScheduleSelect(w)
    BY <2>2 DEF ScheduleSelect
  <2>3. CASE ScheduleCommit(w)
    BY <2>3 DEF ScheduleCommit, NewRun, Unused
  <2>. QED
    BY <1>2, <2>1, <2>2, <2>3 DEF Schedule
<1>3. ASSUME NEW w \in Workers, Claim(w)  PROVE Shape'
  BY <1>3 DEF Claim
<1>4. ASSUME NEW w \in Workers, Process(w)  PROVE Shape'
  <2>1. CASE PollBegin(w)
    BY <2>1 DEF PollBegin, Return, Works
  <2>2. CASE ImportBegin(w)
    BY <2>2 DEF ImportBegin, Return, Works
  <2>3. CASE MutationBegin(w)
    BY <2>3 DEF MutationBegin, Works
  <2>4. CASE Push(w)
    BY <2>4 DEF Push, Return
  <2>5. CASE List(w)
    BY <2>5 DEF List
  <2>6. CASE Reconcile(w)
    BY <2>6 DEF Reconcile
  <2>7. CASE PollSave(w)
    BY <2>7 DEF PollSave, Return
  <2>8. CASE ImportSave(w)
    BY <2>8 DEF ImportSave, Return
  <2>9. CASE MarkEvent(w)
    BY <2>9 DEF MarkEvent, Works
  <2>10. CASE Settle(w)
    BY <2>10 DEF Settle, Rest
  <2>. QED
    BY <1>4, <2>1, <2>2, <2>3, <2>4, <2>5, <2>6, <2>7, <2>8, <2>9, <2>10 DEF Process
<1>5. ASSUME NEW w \in Workers, ReconcileSome(w) \/ StepFails(w) \/ BeginFails(w)
      PROVE  Shape'
  BY <1>5 DEF ReconcileSome, StepFails, BeginFails, Return
<1>6. ASSUME NEW w \in Workers, MarkLost(w)  PROVE Shape'
  BY <1>6 DEF MarkLost
<1>7. ASSUME NEW w \in Workers, Crash(w)  PROVE Shape'
  BY <1>7 DEF Crash, Rest
<1>8. CASE (\E c \in Changes : ProviderChange(c)) \/ IntervalElapses \/ Toggle \/ Tick
  BY <1>8 DEF ProviderChange, IntervalElapses, Toggle, Tick
<1>9. CASE UNCHANGED vars
  BY <1>9 DEF vars
<1>. QED
  BY <1>1, <1>2, <1>3, <1>4, <1>5, <1>6, <1>7, <1>8, <1>9 DEF Next

LEMMA ShapeHolds == Spec => [](TypeOK /\ Shape)
<1>1. Init => Shape
  BY RunsAssumption
  DEF RunsAssumption, Init, Shape, Claimed, EventFirst, ReadersPull, Pulls, Idle, Reading, Waiting
<1>. QED
  BY <1>1, TypeCorrect, ShapeStep, PTL DEF Spec

-----------------------------------------------------------------------------
Pulled(s) == Pulls(s) /\ Active(s)

(* A worker that writes the event of its run leaves the other runs alone,  *)
(* and its own is active already: its job is processing.                   *)
LEMMA WritesEvent ==
  ASSUME TypeOK, Shape, NEW w \in Workers,
         PollBegin(w) \/ ImportBegin(w) \/ MutationBegin(w) \/ MarkEvent(w)
  PROVE  \A s \in Runs : Pulled(s)' => Pulled(s)
<1>1. pc[w] \notin Idle
  BY DEF PollBegin, ImportBegin, MutationBegin, MarkEvent, Idle
<1>2. run[w] \in Runs /\ job[run[w]] = "processing"
  BY <1>1 DEF TypeOK, Shape, Claimed
<1>3. kind' = kind /\ job' = job
  BY DEF PollBegin, ImportBegin, MutationBegin, MarkEvent
<1>4. \A s \in Runs : s # run[w] => event'[s] = event[s]
  <2>1. \E e : event' = [event EXCEPT ![run[w]] = e]
    BY DEF PollBegin, ImportBegin, MutationBegin, MarkEvent
  <2>. QED
    BY <2>1 DEF TypeOK
<1>5. Pulls(run[w]) => Pulled(run[w])
  BY <1>2 DEF Pulled, Active, Waiting, Shape, EventFirst
<1>6. ASSUME NEW s \in Runs, Pulled(s)'  PROVE Pulled(s)
  <2>1. Pulls(s)
    BY <1>3, <1>6 DEF Pulled, Pulls
  <2>2. CASE s = run[w]
    BY <2>1, <2>2, <1>5
  <2>3. CASE s # run[w]
    BY <2>1, <2>3, <1>3, <1>4, <1>6 DEF Pulled, Active
  <2>. QED
    BY <2>2, <2>3
<1>. QED
  BY <1>6

(* Between two statements a run's event or its job keeps it active, and    *)
(* only the insertion of a poll or an import, which finds no active run,   *)
(* makes a pull active.                                                    *)
LEMMA ActiveStep ==
  ASSUME TypeOK, Shape, [Next]_vars
  PROVE  \/ \A s \in Runs : Pulled(s)' => Pulled(s)
         \/ ~PairActive /\ \E r \in Runs : \A s \in Runs : Pulled(s)' => s = r
<1>. DEFINE Kept == \A s \in Runs : Pulled(s)' => Pulled(s)
            First == ~PairActive /\ \E r \in Runs : \A s \in Runs : Pulled(s)' => s = r
<1>. SUFFICES Kept \/ First
  OBVIOUS
<1>. USE RunsAssumption DEF RunsAssumption, Shape, Claimed, EventFirst, Pulled, Pulls, Active,
         Waiting, Unfinished, Idle, runVars, stateVars, pairVars, workerVars, dataVars, bounds,
         TypeOK, Goto
<1>1. ASSUME NEW r \in Runs, Api(r)  PROVE Kept \/ First
  <2>1. CASE ImportStart(r)
    BY <2>1 DEF ImportStart, NewRun, PairActive
  <2>2. CASE CreateStart(r)
    BY <2>2 DEF CreateStart, NewRun
  <2>3. CASE UpdateStart(r)
    BY <2>3 DEF UpdateStart, NewRun
  <2>4. CASE HandlerEnqueue(r)
    BY <2>4 DEF HandlerEnqueue
  <2>5. CASE HandlerEnqueueFails(r)
    BY <2>5 DEF HandlerEnqueueFails, Error
  <2>6. CASE HandlerGone(r)
    BY <2>6 DEF HandlerGone, Fault
  <2>. QED
    BY <1>1, <2>1, <2>2, <2>3, <2>4, <2>5, <2>6 DEF Api
<1>2. ASSUME NEW w \in Workers, Schedule(w)  PROVE Kept \/ First
  <2>1. CASE SchedulePairs(w) \/ ScheduleSelect(w)
    BY <2>1 DEF SchedulePairs, ScheduleSelect
  <2>2. CASE ScheduleCommit(w)
    BY <2>2 DEF ScheduleCommit, NewRun, PairActive
  <2>. QED
    BY <1>2, <2>1, <2>2 DEF Schedule
<1>3. ASSUME NEW w \in Workers, Claim(w)  PROVE Kept
  BY <1>3 DEF Claim
<1>4. ASSUME NEW w \in Workers, Process(w)  PROVE Kept
  <2>1. CASE PollBegin(w) \/ ImportBegin(w) \/ MutationBegin(w) \/ MarkEvent(w)
    BY <2>1, WritesEvent
  <2>3. CASE Push(w) \/ List(w) \/ Reconcile(w) \/ PollSave(w) \/ ImportSave(w)
    BY <2>3 DEF Push, List, Reconcile, PollSave, ImportSave
  <2>5. CASE Settle(w)
    BY <2>5 DEF Settle
  <2>. QED
    BY <1>4, <2>1, <2>3, <2>5 DEF Process
<1>5. ASSUME NEW w \in Workers, ReconcileSome(w) \/ StepFails(w) \/ BeginFails(w)
                                \/ MarkLost(w) \/ Crash(w)
      PROVE  Kept
  BY <1>5 DEF ReconcileSome, StepFails, BeginFails, MarkLost, Crash
<1>6. CASE (\E c \in Changes : ProviderChange(c)) \/ IntervalElapses \/ Toggle \/ Tick
  BY <1>6 DEF ProviderChange, IntervalElapses, Toggle, Tick
<1>7. CASE UNCHANGED vars
  BY <1>7 DEF vars
<1>. QED
  BY <1>1, <1>2, <1>3, <1>4, <1>5, <1>6, <1>7 DEF Next

(* Two pulls of the pair are never active together: not across retries,    *)
(* lost status updates, a handler that dies between its two statements, or *)
(* a crash, which leave the old run active and so block the next one.      *)
THEOREM PullsExclude == Spec => []OnePullPerPair
<1>1. Init => OnePullPerPair
  BY DEF Init, OnePullPerPair, Pulls
<1>2. TypeOK /\ Shape /\ OnePullPerPair /\ [Next]_vars => OnePullPerPair'
  <2>. SUFFICES ASSUME TypeOK, Shape, OnePullPerPair, [Next]_vars,
                       NEW s \in Runs, NEW t \in Runs, Pulled(s)', Pulled(t)'
                PROVE  s = t
    BY DEF OnePullPerPair, Pulled
  <2>1. CASE \A q \in Runs : Pulled(q)' => Pulled(q)
    BY <2>1 DEF OnePullPerPair, Pulled
  <2>2. CASE \E r \in Runs : \A q \in Runs : Pulled(q)' => q = r
    BY <2>2
  <2>. QED
    BY <2>1, <2>2, ActiveStep
<1>. QED
  BY <1>1, <1>2, ShapeHolds, PTL DEF Spec

-----------------------------------------------------------------------------
(* One worker at a time is between a read of the cursor and its write. *)
LEMMA OneReader ==
  ASSUME TypeOK, Shape, OnePullPerPair,
         NEW v \in Workers, NEW w \in Workers, pc[v] \in Reading, pc[w] \in Reading
  PROVE  v = w
<1>. USE DEF TypeOK, Shape, Claimed, EventFirst, ReadersPull, Waiting
<1>1. \A u \in Workers : pc[u] \in Reading =>
        run[u] \in Runs /\ Pulls(run[u]) /\ Active(run[u])
  BY DEF Reading, Idle, Active
<1>2. run[v] = run[w]
  BY <1>1 DEF OnePullPerPair
<1>. QED
  BY <1>1, <1>2, RunsAssumption DEF RunsAssumption

(* A step that leaves cursor, clock, stamps and what is applied alone, and *)
(* takes no worker to a reading step, keeps what the readers know.         *)
LEMMA Untouched ==
  ASSUME TypeOK, CursorInv, UNCHANGED <<cursor, clock, stamp, applied>>,
         \A v \in Workers : pc'[v] \in Reading =>
           pc'[v] = pc[v] /\ startedAt'[v] = startedAt[v] /\ window'[v] = window[v]
             /\ fetched'[v] = fetched[v]
  PROVE  CursorInv'
<1>1. NotBehind' /\ cursor' <= clock'
  BY DEF CursorInv, NotBehind
<1>2. ASSUME NEW v \in Workers  PROVE Pulling(v)'
  BY DEF CursorInv, Pulling, Late, Reading
<1>. QED
  BY <1>1, <1>2 DEF CursorInv

LEMMA SaveStep ==
  ASSUME TypeOK, Shape, OnePullPerPair, CursorInv, NEW w \in Workers, pc[w] = "save",
         cursor' = startedAt[w], Return(w, FALSE), UNCHANGED <<clock, dataVars, startedAt>>
  PROVE  CursorInv' /\ cursor' >= cursor
<1>. USE DEF Reading, TypeOK, dataVars, Times
<1>1. Pulling(w)
  BY DEF CursorInv
<1>2. cursor' >= cursor /\ cursor' <= clock'
  BY <1>1 DEF Pulling
<1>3. NotBehind'
  BY <1>1 DEF Pulling, Late, NotBehind
<1>4. \A v \in Workers : pc'[v] \notin Reading
  BY OneReader DEF Return, Goto
<1>5. \A v \in Workers : Pulling(v)'
  BY <1>4 DEF Pulling
<1>. QED
  BY <1>2, <1>3, <1>5 DEF CursorInv

LEMMA CursorStep ==
  ASSUME TypeOK, Shape, OnePullPerPair, CursorInv, [Next]_vars
  PROVE  CursorInv' /\ cursor' >= cursor
<1>. DEFINE Goal == CursorInv' /\ cursor' >= cursor
<1>. SUFFICES Goal
  OBVIOUS
<1>. USE RunsAssumption DEF RunsAssumption, Reading, Times, runVars, stateVars, pairVars,
         workerVars, dataVars, bounds, Goto, Return
<1>0. cursor \in Int /\ clock \in Int /\ cursor >= cursor
  BY DEF TypeOK
<1>1. ASSUME NEW r \in Runs, Api(r)  PROVE Goal
  <2>1. UNCHANGED <<stateVars, workerVars, dataVars, clock>>
    BY <1>1 DEF Api, ImportStart, CreateStart, UpdateStart, HandlerEnqueue,
                HandlerEnqueueFails, HandlerGone, Error, Fault
  <2>. QED
    BY <2>1, <1>0, Untouched
<1>2. ASSUME NEW w \in Workers, Schedule(w)  PROVE Goal
  <2>1. UNCHANGED <<cursor, dataVars, clock, startedAt, window, fetched>>
        /\ \A v \in Workers : pc'[v] \in Reading => pc'[v] = pc[v]
    BY <1>2 DEF Schedule, SchedulePairs, ScheduleSelect, ScheduleCommit, TypeOK
  <2>. QED
    BY <2>1, <1>0, Untouched
<1>3. ASSUME NEW w \in Workers, Claim(w)  PROVE Goal
  <2>1. UNCHANGED <<cursor, dataVars, clock, startedAt, window, fetched>>
        /\ \A v \in Workers : pc'[v] \in Reading => pc'[v] = pc[v]
    BY <1>3 DEF Claim, TypeOK
  <2>. QED
    BY <2>1, <1>0, Untouched
<1>4. ASSUME NEW w \in Workers, PollBegin(w) \/ ImportBegin(w)  PROVE Goal
  <2>1. /\ UNCHANGED <<cursor, dataVars, clock, fetched>>
        /\ startedAt' = [startedAt EXCEPT ![w] = clock]
        /\ pc' \in {[pc EXCEPT ![w] = "list"], [pc EXCEPT ![w] = "mark"]}
    BY <1>4 DEF PollBegin, ImportBegin
  <2>2. \/ window' = [window EXCEPT ![w] = PollingSince]
        \/ window' = window /\ window[w] = Full
    BY <1>4 DEF PollBegin, ImportBegin, Shape, ReadersPull
  <2>3. window'[w] = Full \/ (cursor # NoTime /\ window'[w] = cursor - Overlap)
    BY <2>2 DEF PollingSince, TypeOK
  <2>4. Pulling(w)'
    BY <2>1, <2>3, <1>0 DEF Pulling, CursorInv, TypeOK
  <2>5. ASSUME NEW v \in Workers, v # w  PROVE Pulling(v)'
    <3>1. /\ pc'[v] = pc[v] /\ startedAt'[v] = startedAt[v] /\ window'[v] = window[v]
          /\ fetched'[v] = fetched[v]
      BY <2>1, <2>2, <2>5 DEF TypeOK
    <3>2. Pulling(v)
      BY DEF CursorInv
    <3>. QED
      BY <2>1, <3>1, <3>2 DEF Pulling, Late
  <2>6. NotBehind' /\ cursor' <= clock'
    BY <2>1 DEF CursorInv, NotBehind
  <2>. QED
    BY <2>1, <2>4, <2>5, <2>6, <1>0 DEF CursorInv
<1>5. ASSUME NEW w \in Workers, List(w)  PROVE Goal
  <2>1. Pulling(w)
    BY DEF CursorInv
  <2>2. pc' = [pc EXCEPT ![w] = "reconcile"] /\ pc[w] = "list"
        /\ UNCHANGED <<cursor, dataVars, clock, startedAt, window>>
        /\ fetched' = [fetched EXCEPT ![w] =
             {c \in Changes : stamp[c] # NoTime /\ (window[w] = Full \/ stamp[c] >= window[w])}]
    BY <1>5 DEF List
  <2>3. ASSUME NEW c \in Changes, stamp[c] # NoTime, c \notin applied, c \notin fetched'[w]
        PROVE  Late(w, c)
    <3>1. window[w] # Full /\ ~(stamp[c] >= window[w])
      BY <2>2, <2>3 DEF TypeOK
    <3>2. cursor # NoTime /\ window[w] = cursor - Overlap
      BY <2>1, <2>2, <3>1 DEF Pulling
    <3>3. stamp[c] >= cursor - Overlap
      BY <2>3, <3>2 DEF CursorInv, NotBehind
    <3>. QED
      BY <3>1, <3>2, <3>3
  <2>4. Pulling(w)'
    BY <2>1, <2>2, <2>3 DEF Pulling, Late, TypeOK
  <2>5. ASSUME NEW v \in Workers, v # w  PROVE Pulling(v)'
    BY <2>2, <2>5 DEF CursorInv, Pulling, Late, TypeOK
  <2>6. NotBehind' /\ cursor' <= clock'
    BY <2>2 DEF CursorInv, NotBehind
  <2>. QED
    BY <2>2, <2>4, <2>5, <2>6, <1>0 DEF CursorInv
<1>6. ASSUME NEW w \in Workers, Reconcile(w)  PROVE Goal
  <2>1. pc' = [pc EXCEPT ![w] = "save"] /\ pc[w] = "reconcile"
        /\ applied' = applied \cup fetched[w]
        /\ UNCHANGED <<cursor, stamp, clock, startedAt, window, fetched>>
    BY <1>6 DEF Reconcile
  <2>2. Pulling(w)'
    BY <2>1 DEF CursorInv, Pulling, Late, TypeOK
  <2>3. ASSUME NEW v \in Workers, v # w  PROVE Pulling(v)'
    BY <2>1, <2>3 DEF CursorInv, Pulling, Late, TypeOK
  <2>4. NotBehind' /\ cursor' <= clock'
    BY <2>1 DEF CursorInv, NotBehind
  <2>. QED
    BY <2>1, <2>2, <2>3, <2>4, <1>0 DEF CursorInv
<1>7. ASSUME NEW w \in Workers, ReconcileSome(w)  PROVE Goal
  <2>1. pc' = [pc EXCEPT ![w] = "mark"] /\ applied \subseteq applied'
        /\ UNCHANGED <<cursor, stamp, clock, startedAt, window, fetched>>
    BY <1>7 DEF ReconcileSome, Error
  <2>2. ASSUME NEW v \in Workers  PROVE Pulling(v)'
    BY <2>1, <2>2 DEF CursorInv, Pulling, Late, TypeOK
  <2>3. NotBehind' /\ cursor' <= clock'
    BY <2>1 DEF CursorInv, NotBehind
  <2>. QED
    BY <2>1, <2>2, <2>3, <1>0 DEF CursorInv
<1>8. ASSUME NEW w \in Workers, PollSave(w) \/ ImportSave(w)  PROVE Goal
  BY <1>8, SaveStep DEF PollSave, ImportSave
<1>9. ASSUME NEW w \in Workers,
             \/ MutationBegin(w) \/ Push(w) \/ MarkEvent(w)
             \/ StepFails(w) \/ BeginFails(w) \/ MarkLost(w)
      PROVE  Goal
  <2>1. UNCHANGED <<cursor, dataVars, clock, startedAt, window, fetched>>
        /\ \A v \in Workers : pc'[v] \in Reading => pc'[v] = pc[v]
    BY <1>9 DEF MutationBegin, Push, MarkEvent, StepFails, BeginFails, MarkLost, Error, Fault, TypeOK
  <2>. QED
    BY <2>1, <1>0, Untouched
<1>10. ASSUME NEW w \in Workers, Settle(w) \/ Crash(w)  PROVE Goal
  <2>1. UNCHANGED <<cursor, dataVars, clock>> /\ Rest(w)
    BY <1>10 DEF Settle, Crash, Fault
  <2>2. \A v \in Workers : pc'[v] \in Reading =>
          pc'[v] = pc[v] /\ startedAt'[v] = startedAt[v] /\ window'[v] = window[v]
            /\ fetched'[v] = fetched[v]
    BY <2>1 DEF Rest, TypeOK
  <2>. QED
    BY <2>1, <2>2, <1>0, Untouched
<1>11. ASSUME NEW c \in Changes, ProviderChange(c)  PROVE Goal
  <2>1. PICK t \in 1..clock : t >= clock - Skew /\ stamp' = [stamp EXCEPT ![c] = t]
    BY <1>11 DEF ProviderChange
  <2>2. UNCHANGED <<cursor, clock, applied, pc, startedAt, window, fetched>> /\ stamp[c] = NoTime
    BY <1>11 DEF ProviderChange
  <2>3. t >= clock - Overlap
    BY <1>0, <2>1
  <2>4. NotBehind' /\ cursor' <= clock'
    BY <2>1, <2>2, <2>3 DEF CursorInv, NotBehind, TypeOK
  <2>5. ASSUME NEW v \in Workers  PROVE Pulling(v)'
    <3>1. Pulling(v)
      BY DEF CursorInv
    <3>2. ASSUME startedAt[v] <= clock, NEW d \in Changes, Late(v, d) \/ d = c  PROVE Late(v, d)'
      BY <2>1, <2>2, <2>3, <3>2 DEF Late, TypeOK
    <3>. QED
      BY <2>1, <2>2, <3>1, <3>2 DEF Pulling, TypeOK
  <2>. QED
    BY <2>2, <2>4, <2>5, <1>0 DEF CursorInv
<1>12. CASE Tick
  <2>1. clock' = clock + 1 /\ UNCHANGED <<stateVars, workerVars, dataVars>>
    BY <1>12 DEF Tick
  <2>2. NotBehind' /\ cursor' <= clock'
    BY <2>1, <1>0 DEF CursorInv, NotBehind
  <2>3. ASSUME NEW v \in Workers  PROVE Pulling(v)'
    BY <2>1, <1>0 DEF CursorInv, Pulling, Late, TypeOK
  <2>. QED
    BY <2>1, <2>2, <2>3, <1>0 DEF CursorInv
<1>13. CASE IntervalElapses \/ Toggle \/ UNCHANGED vars
  <2>1. UNCHANGED <<cursor, dataVars, clock, workerVars>>
    BY <1>13 DEF IntervalElapses, Toggle, vars
  <2>. QED
    BY <2>1, <1>0, Untouched
<1>. QED
  BY <1>1, <1>2, <1>3, <1>4, <1>5, <1>6, <1>7, <1>8, <1>9, <1>10, <1>11, <1>12, <1>13
  DEF Next, Process

LEMMA CursorHolds == Spec => [](TypeOK /\ Shape /\ OnePullPerPair /\ CursorInv)
<1>1. Init => CursorInv
  BY RunsAssumption
  DEF RunsAssumption, Init, CursorInv, NotBehind, Pulling, Reading, NoTime
<1>. QED
  BY <1>1, CursorStep, PullsExclude, ShapeHolds, PTL DEF Spec

(* A change that is not reconciled is never older than the window the next *)
(* poll lists, however polls, imports, failures and crashes interleave.    *)
THEOREM NoChangeSkipped == Spec => []NothingSkipped
<1>1. CursorInv => NothingSkipped
  BY DEF CursorInv, NotBehind, NothingSkipped, PollingSince
<1>. QED
  BY <1>1, CursorHolds, PTL

(* The unconditional writes of the cursor are in the order of the pulls'   *)
(* starts: no slow pull overwrites the cursor of a later one.              *)
THEOREM CursorNeverBack == Spec => CursorAdvances
<1>1. TypeOK /\ Shape /\ OnePullPerPair /\ CursorInv /\ [Next]_vars => [cursor' >= cursor]_vars
  BY CursorStep
<1>. QED
  BY <1>1, CursorHolds, PTL DEF Spec, CursorAdvances

=============================================================================
