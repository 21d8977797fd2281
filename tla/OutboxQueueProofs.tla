------------------------ MODULE OutboxQueueProofs ------------------------
(***************************************************************************)
(* Theorems about OutboxQueue, for any sets of jobs and workers and any    *)
(* bounds.  The inductive invariant adds to the properties what makes them *)
(* inductive: a worker has an outcome exactly while it holds a job, and    *)
(* the attempts that are still left before each outcome is written.        *)
(***************************************************************************)
EXTENDS OutboxQueue, FiniteSetTheorems, TLAPS

HeldIffOutcome == \A w \in Workers : held[w] = NoJob <=> outcome[w] = "none"

BudgetLeft ==
  /\ \A j \in Jobs :
       status[j] \in {"absent", "pending"} => attempts[j] < RetryLimit + deferrals
  /\ \A w \in Workers :
       outcome[w] = "deferred" => attempts[held[w]] < RetryLimit + deferrals

StrandedCounted == IsFiniteSet(Stranded) /\ StrandedBounded

RowInv == HeldIffOutcome /\ WritesOwnClaim /\ Exclusive

-----------------------------------------------------------------------------
(* Every variable keeps its type under Spec: the actions of queue.go write *)
(* only statuses, counters and times the schema allows.                    *)
THEOREM TypeCorrect == Spec => []TypeOK
<1>. USE QueueAssumption DEF QueueAssumption
<1>1. Init => TypeOK
  BY DEF Init, TypeOK, Statuses, Outcomes
<1>2. ASSUME TypeOK, [Next]_vars  PROVE TypeOK'
  <2>. USE <1>2 DEF TypeOK, Statuses, Outcomes, jobVars, workerVars
  <2>1. ASSUME NEW j \in Jobs, Enqueue(j)  PROVE TypeOK'
    BY <2>1 DEF Enqueue
  <2>2. ASSUME NEW w \in Workers, Claim(w)  PROVE TypeOK'
    BY <2>2 DEF Claim, ClaimRow
  <2>3. ASSUME NEW w \in Workers, Process(w)  PROVE TypeOK'
    BY <2>3 DEF Process
  <2>4. ASSUME NEW w \in Workers, Succeed(w)  PROVE TypeOK'
    BY <2>4 DEF Succeed, Release
  <2>5. ASSUME NEW w \in Workers, Fail(w)  PROVE TypeOK'
    <3>1. \A n \in Nat : Backoff(n) \in Nat
      BY DEF Backoff
    <3>2. runAt' \in [Jobs -> Nat]
      <4>1. CASE Retry(w)
        <5>1. runAt' = [runAt EXCEPT ![held[w]] = clock + Backoff(attempts[held[w]])]
          BY <2>5, <4>1 DEF Fail
        <5>2. held[w] \in Jobs => clock + Backoff(attempts[held[w]]) \in Nat
          BY <3>1
        <5>. QED
          BY <5>1, <5>2
      <4>2. CASE ~Retry(w)
        BY <2>5, <4>2 DEF Fail
      <4>. QED
        BY <4>1, <4>2
    <3>3. status' \in [Jobs -> Statuses]
      BY <2>5 DEF Fail
    <3>. QED
      BY <2>5, <3>2, <3>3 DEF Fail, Release
  <2>6. ASSUME NEW w \in Workers, DeferUntil(w)  PROVE TypeOK'
    <3>1. PICK retryAt \in 0..Horizon :
            runAt' = [runAt EXCEPT ![held[w]] =
                        IF retryAt > clock THEN retryAt ELSE clock + DeferBump]
      BY <2>6 DEF DeferUntil
    <3>2. (IF retryAt > clock THEN retryAt ELSE clock + DeferBump) \in Nat
      OBVIOUS
    <3>3. runAt' \in [Jobs -> Nat]
      BY <3>1, <3>2
    <3>. QED
      BY <2>6, <3>3 DEF DeferUntil, Release
  <2>7. ASSUME NEW w \in Workers, ClaimLost(w)  PROVE TypeOK'
    BY <2>7 DEF ClaimLost, ClaimRow
  <2>8. ASSUME NEW w \in Workers, SettleLost(w) \/ Crash(w)  PROVE TypeOK'
    BY <2>8 DEF SettleLost, Crash, Release
  <2>9. CASE Tick
    BY <2>9 DEF Tick
  <2>10. CASE UNCHANGED vars
    BY <2>10 DEF vars
  <2>. QED
    BY <2>1, <2>2, <2>3, <2>4, <2>5, <2>6, <2>7, <2>8, <2>9, <2>10
    DEF Next, Step, Settle
<1>. QED
  BY <1>1, <1>2, PTL DEF Spec

-----------------------------------------------------------------------------
(* A worker that releases its job leaves the others' claims as they were.  *)
LEMMA ReleaseKeeps ==
  ASSUME TypeOK, RowInv, NEW w \in Workers, Release(w)
  PROVE  /\ HeldIffOutcome'
         /\ \A v, u \in Workers : held'[v] # NoJob /\ held'[v] = held'[u] => v = u
         /\ \A v \in Workers : held'[v] # NoJob =>
              held'[v] = held[v] /\ held[v] # held[w] /\ seen'[v] = seen[v]
<1>1. held' = [held EXCEPT ![w] = NoJob] /\ outcome' = [outcome EXCEPT ![w] = "none"]
      /\ seen' = seen
  BY DEF Release
<1>. QED
  BY <1>1 DEF TypeOK, RowInv, HeldIffOutcome, Exclusive

(* A statement that changes one row, which no other worker holds.          *)
LEMMA RowStep ==
  ASSUME TypeOK, RowInv, [Next]_vars
  PROVE  RowInv'
<1>. USE QueueAssumption DEF QueueAssumption
<1>1. ASSUME NEW j \in Jobs, Enqueue(j)  PROVE RowInv'
  BY <1>1 DEF Enqueue, RowInv, HeldIffOutcome, WritesOwnClaim, Exclusive, TypeOK, workerVars
<1>2. ASSUME NEW w \in Workers, Claim(w)  PROVE RowInv'
  <2>1. PICK j \in Jobs :
          /\ status[j] = "pending"
          /\ status' = [status EXCEPT ![j] = "processing"]
          /\ attempts' = [attempts EXCEPT ![j] = @ + 1]
          /\ held' = [held EXCEPT ![w] = j]
          /\ seen' = [seen EXCEPT ![w] = attempts[j] + 1]
    BY <1>2 DEF Claim, ClaimRow, Claimable
  <2>2. outcome' = [outcome EXCEPT ![w] = "running"]
    BY <1>2 DEF Claim
  <2>3. \A v \in Workers : held[v] # j
    BY <2>1 DEF RowInv, WritesOwnClaim
  <2>4. HeldIffOutcome'
    BY <2>1, <2>2 DEF RowInv, HeldIffOutcome, TypeOK
  <2>5. WritesOwnClaim'
    BY <2>1, <2>3 DEF RowInv, WritesOwnClaim, TypeOK
  <2>6. Exclusive'
    BY <2>1, <2>3 DEF RowInv, Exclusive, TypeOK
  <2>. QED
    BY <2>4, <2>5, <2>6 DEF RowInv
<1>3. ASSUME NEW w \in Workers, Process(w)  PROVE RowInv'
  BY <1>3 DEF Process, jobVars, RowInv, HeldIffOutcome, WritesOwnClaim, Exclusive, TypeOK
<1>4. ASSUME NEW w \in Workers, Settle(w)  PROVE RowInv'
  <2>1. /\ Release(w) /\ attempts' = attempts
        /\ \A k \in Jobs : k # held[w] => status'[k] = status[k]
    BY <1>4 DEF Settle, Succeed, Fail, DeferUntil, TypeOK
  <2>. QED
    BY <2>1, ReleaseKeeps DEF RowInv, WritesOwnClaim, Exclusive, TypeOK
<1>5. ASSUME NEW w \in Workers, SettleLost(w) \/ Crash(w)  PROVE RowInv'
  <2>1. Release(w) /\ attempts' = attempts /\ status' = status
    BY <1>5 DEF SettleLost, Crash, jobVars
  <2>. QED
    BY <2>1, ReleaseKeeps DEF RowInv, WritesOwnClaim, Exclusive
<1>6. ASSUME NEW w \in Workers, ClaimLost(w)  PROVE RowInv'
  <2>1. PICK j \in Jobs :
          /\ status[j] = "pending"
          /\ status' = [status EXCEPT ![j] = "processing"]
          /\ attempts' = [attempts EXCEPT ![j] = @ + 1]
    BY <1>6 DEF ClaimLost, ClaimRow, Claimable
  <2>2. workerVars' = workerVars
    BY <1>6 DEF ClaimLost
  <2>3. \A v \in Workers : held[v] # j
    BY <2>1 DEF RowInv, WritesOwnClaim
  <2>. QED
    BY <2>1, <2>2, <2>3 DEF RowInv, HeldIffOutcome, WritesOwnClaim, Exclusive, TypeOK, workerVars
<1>7. CASE Tick \/ UNCHANGED vars
  BY <1>7 DEF Tick, vars, jobVars, workerVars, RowInv, HeldIffOutcome, WritesOwnClaim, Exclusive
<1>. QED
  BY <1>1, <1>2, <1>3, <1>4, <1>5, <1>6, <1>7 DEF Next, Step

LEMMA RowInvariant == Spec => []RowInv
<1>1. Init => RowInv
  BY QueueAssumption DEF QueueAssumption, Init, RowInv, HeldIffOutcome, WritesOwnClaim, Exclusive
<1>. QED
  BY <1>1, RowStep, TypeCorrect, PTL DEF Spec

(* No job is ever on two workers, whatever claims race, retries happen and *)
(* faults strike (Claim of queue.go).                                      *)
THEOREM ExclusiveClaims == Spec => []Exclusive
<1>1. RowInv => Exclusive
  BY DEF RowInv
<1>. QED
  BY <1>1, RowInvariant, PTL

(* Succeed, Fail and DeferUntil, which write by id alone, only ever write  *)
(* the row as their worker claimed it.                                     *)
THEOREM OwnClaimWritten == Spec => []WritesOwnClaim
<1>1. RowInv => WritesOwnClaim
  BY DEF RowInv
<1>. QED
  BY <1>1, RowInvariant, PTL

(* A succeeded or failed job is never touched again.                       *)
THEOREM SettledStays == Spec => SettledIsFinal
<1>1. ASSUME TypeOK, RowInv, [Next]_vars, NEW k \in Jobs, status[k] \in Settled
      PROVE  status'[k] = status[k]
  <2>1. \A w \in Workers : outcome[w] # "none" => held[w] # k
    BY <1>1, QueueAssumption
    DEF RowInv, HeldIffOutcome, WritesOwnClaim, Settled, QueueAssumption
  <2>2. ASSUME NEW w \in Workers, Settle(w)  PROVE status'[k] = status[k]
    BY <2>1, <2>2, <1>1 DEF Settle, Succeed, Fail, DeferUntil, TypeOK
  <2>3. ASSUME NEW j \in Jobs, Enqueue(j) \/ ClaimRow(j)  PROVE status'[k] = status[k]
    BY <2>3, <1>1 DEF Enqueue, ClaimRow, Claimable, Settled, TypeOK
  <2>. QED
    BY <2>2, <2>3, <1>1
    DEF Next, Step, Claim, ClaimLost, Process, SettleLost, Crash, Tick, vars, jobVars
<1>2. TypeOK /\ RowInv /\ [Next]_vars
        => [\A j \in Jobs : status[j] \in Settled => status'[j] = status[j]]_vars
  BY <1>1
<1>. QED
  BY <1>2, TypeCorrect, RowInvariant, PTL DEF Spec, SettledIsFinal

-----------------------------------------------------------------------------
(* Growing a finite set by at most one element.                            *)
LEMMA AtMostOneMore ==
  ASSUME NEW S, IsFiniteSet(S), NEW T, NEW x, T \subseteq S \cup {x}
  PROVE  IsFiniteSet(T) /\ Cardinality(T) \in Nat /\ Cardinality(T) <= Cardinality(S) + 1
<1>1. /\ IsFiniteSet(S \cup {x}) /\ Cardinality(S \cup {x}) \in Nat
      /\ Cardinality(S) \in Nat /\ Cardinality(S \cup {x}) <= Cardinality(S) + 1
  BY FS_AddElement, FS_CardinalityType
<1>2. IsFiniteSet(T) /\ Cardinality(T) <= Cardinality(S \cup {x})
  BY <1>1, FS_Subset
<1>. QED
  BY <1>1, <1>2, FS_CardinalityType

LEMMA NoMore ==
  ASSUME NEW S, IsFiniteSet(S), NEW T, T \subseteq S
  PROVE  IsFiniteSet(T) /\ Cardinality(T) \in Nat /\ Cardinality(T) <= Cardinality(S)
         /\ Cardinality(S) \in Nat
BY FS_Subset, FS_CardinalityType

(* What a step can add to the stranded rows: nothing, unless it is a fault,*)
(* and then the one row the fault hit.                                     *)
LEMMA StrandedGrowth ==
  ASSUME TypeOK, RowInv, [Next]_vars
  PROVE  \/ Stranded' \subseteq Stranded /\ faults' = faults
         \/ /\ faults' = faults + 1
            /\ \E j : Stranded' \subseteq Stranded \cup {j}
<1>. USE QueueAssumption DEF QueueAssumption
<1>1. ASSUME NEW j \in Jobs, Enqueue(j)  PROVE Stranded' \subseteq Stranded /\ faults' = faults
  BY <1>1 DEF Enqueue, Stranded, workerVars, TypeOK
<1>2. ASSUME NEW w \in Workers, Claim(w)  PROVE Stranded' \subseteq Stranded /\ faults' = faults
  <2>1. PICK j \in Jobs : /\ status' = [status EXCEPT ![j] = "processing"]
                          /\ held' = [held EXCEPT ![w] = j]
    BY <1>2 DEF Claim, ClaimRow
  <2>2. held[w] = NoJob /\ faults' = faults
    BY <1>2 DEF Claim
  <2>. QED
    BY <2>1, <2>2 DEF Stranded, TypeOK
<1>3. ASSUME NEW w \in Workers, ClaimLost(w)
      PROVE faults' = faults + 1 /\ \E j : Stranded' \subseteq Stranded \cup {j}
  <2>1. PICK j \in Jobs : status' = [status EXCEPT ![j] = "processing"]
    BY <1>3 DEF ClaimLost, ClaimRow
  <2>2. held' = held /\ faults' = faults + 1
    BY <1>3 DEF ClaimLost, workerVars
  <2>3. Stranded' \subseteq Stranded \cup {j}
    BY <2>1, <2>2 DEF Stranded, TypeOK
  <2>. QED
    BY <2>2, <2>3
<1>4. ASSUME NEW w \in Workers, Settle(w)  PROVE Stranded' \subseteq Stranded /\ faults' = faults
  <2>1. /\ held' = [held EXCEPT ![w] = NoJob] /\ faults' = faults
        /\ \A k \in Jobs : k # held[w] => status'[k] = status[k]
        /\ held[w] \in Jobs => status'[held[w]] # "processing"
    BY <1>4 DEF Settle, Succeed, Fail, DeferUntil, Release, TypeOK
  <2>. QED
    BY <2>1 DEF Stranded, TypeOK
<1>5. ASSUME NEW w \in Workers, SettleLost(w) \/ Crash(w)
      PROVE faults' = faults + 1 /\ \E j : Stranded' \subseteq Stranded \cup {j}
  <2>1. /\ status' = status /\ held' = [held EXCEPT ![w] = NoJob]
        /\ faults' = faults + 1
    BY <1>5 DEF SettleLost, Crash, Release, jobVars
  <2>2. Stranded' \subseteq Stranded \cup {held[w]}
    BY <2>1 DEF Stranded, TypeOK
  <2>. QED
    BY <2>1, <2>2
<1>6. ASSUME \/ \E w \in Workers : Process(w)
             \/ Tick
             \/ UNCHANGED vars
      PROVE Stranded' \subseteq Stranded /\ faults' = faults
  BY <1>6 DEF Process, Tick, vars, jobVars, workerVars, Stranded
<1>. QED
  BY <1>1, <1>2, <1>3, <1>4, <1>5, <1>6 DEF Next, Step

(* A fault strands at most one row, and nothing else strands any.          *)
THEOREM StrandedOnlyByFaults == Spec => []StrandedBounded
<1>1. Init => StrandedCounted
  <2>1. Init => Stranded = {}
    BY DEF Init, Stranded
  <2>. QED
    BY <2>1, FS_EmptySet DEF Init, StrandedCounted, StrandedBounded
<1>2. ASSUME TypeOK, RowInv, StrandedCounted, [Next]_vars  PROVE StrandedCounted'
  <2>1. faults \in Nat /\ IsFiniteSet(Stranded) /\ Cardinality(Stranded) <= faults
    BY <1>2, QueueAssumption DEF TypeOK, StrandedCounted, StrandedBounded, QueueAssumption
  <2>2. CASE Stranded' \subseteq Stranded /\ faults' = faults
    BY <2>1, <2>2, NoMore DEF StrandedCounted, StrandedBounded
  <2>3. CASE faults' = faults + 1 /\ \E j : Stranded' \subseteq Stranded \cup {j}
    <3>1. PICK j : Stranded' \subseteq Stranded \cup {j}
      BY <2>3
    <3>2. /\ IsFiniteSet(Stranded') /\ Cardinality(Stranded') \in Nat
          /\ Cardinality(Stranded') <= Cardinality(Stranded) + 1
      BY <2>1, <3>1, AtMostOneMore
    <3>3. Cardinality(Stranded) \in Nat
      BY <2>1, FS_CardinalityType
    <3>. QED
      BY <2>1, <2>3, <3>2, <3>3 DEF StrandedCounted, StrandedBounded
  <2>. QED
    BY <1>2, <2>2, <2>3, StrandedGrowth
<1>3. StrandedCounted => StrandedBounded
  BY DEF StrandedCounted
<1>. QED
  BY <1>1, <1>2, <1>3, TypeCorrect, RowInvariant, PTL DEF Spec

-----------------------------------------------------------------------------
(* The attempts left before each outcome is written.                       *)
LEMMA BudgetStep ==
  ASSUME TypeOK, RowInv, RetryBudget, BudgetLeft, [Next]_vars
  PROVE  RetryBudget' /\ BudgetLeft'
<1>. USE QueueAssumption DEF QueueAssumption
<1>. DEFINE Budget == RetryBudget /\ BudgetLeft
<1>1. ASSUME NEW j \in Jobs, Enqueue(j)  PROVE Budget'
  BY <1>1 DEF Enqueue, TypeOK, RetryBudget, BudgetLeft, workerVars
<1>2. ASSUME NEW j \in Jobs, ClaimRow(j), deferrals' = deferrals,
             \A w \in Workers : outcome'[w] = "deferred" =>
               outcome[w] = "deferred" /\ held'[w] = held[w]
      PROVE Budget'
  <2>1. \A w \in Workers : held[w] # j
    BY <1>2 DEF ClaimRow, Claimable, RowInv, WritesOwnClaim
  <2>2. /\ attempts' = [attempts EXCEPT ![j] = @ + 1]
        /\ status' = [status EXCEPT ![j] = "processing"]
        /\ status[j] = "pending"
    BY <1>2 DEF ClaimRow, Claimable
  <2>3. RetryBudget'
    BY <1>2, <2>2 DEF RetryBudget, BudgetLeft, TypeOK
  <2>4. \A k \in Jobs : status'[k] \in {"absent", "pending"} => attempts'[k] < RetryLimit + deferrals'
    BY <1>2, <2>2 DEF BudgetLeft, TypeOK
  <2>5. \A w \in Workers : outcome'[w] = "deferred" => attempts'[held'[w]] < RetryLimit + deferrals'
    BY <1>2, <2>1, <2>2 DEF BudgetLeft, TypeOK, RowInv, HeldIffOutcome
  <2>. QED
    BY <2>3, <2>4, <2>5 DEF BudgetLeft
<1>3. ASSUME NEW w \in Workers, Claim(w)  PROVE Budget'
  <2>1. PICK j \in Jobs : ClaimRow(j) /\ held' = [held EXCEPT ![w] = j]
    BY <1>3 DEF Claim
  <2>2. outcome' = [outcome EXCEPT ![w] = "running"] /\ deferrals' = deferrals
    BY <1>3 DEF Claim
  <2>. QED
    BY <1>2, <2>1, <2>2 DEF TypeOK
<1>4. ASSUME NEW w \in Workers, ClaimLost(w)  PROVE Budget'
  BY <1>4, <1>2 DEF ClaimLost, workerVars
<1>5. ASSUME NEW w \in Workers, Process(w)  PROVE Budget'
  <2>1. attempts' = attempts /\ status' = status /\ held' = held
    BY <1>5 DEF Process, jobVars
  <2>2. held[w] \in Jobs /\ attempts[held[w]] <= RetryLimit + deferrals
    BY <1>5 DEF Process, RowInv, HeldIffOutcome, TypeOK, RetryBudget
  <2>3. CASE deferrals' = deferrals /\ \E o \in {"ok", "error"} : outcome' = [outcome EXCEPT ![w] = o]
    BY <2>1, <2>3 DEF RetryBudget, BudgetLeft, TypeOK
  <2>4. CASE deferrals' = deferrals + 1 /\ outcome' = [outcome EXCEPT ![w] = "deferred"]
    <3>1. RetryBudget'
      BY <2>1, <2>4 DEF RetryBudget, TypeOK
    <3>2. \A v \in Workers : outcome'[v] = "deferred" => attempts'[held'[v]] < RetryLimit + deferrals'
      BY <2>1, <2>2, <2>4 DEF BudgetLeft, TypeOK, RowInv, HeldIffOutcome
    <3>. QED
      BY <2>1, <2>4, <3>1, <3>2 DEF BudgetLeft, TypeOK
  <2>. QED
    BY <1>5, <2>3, <2>4 DEF Process
<1>6. ASSUME NEW w \in Workers, Settle(w)  PROVE Budget'
  <2>1. /\ attempts' = attempts /\ deferrals' = deferrals
        /\ outcome' = [outcome EXCEPT ![w] = "none"]
        /\ held' = [held EXCEPT ![w] = NoJob]
        /\ \A k \in Jobs : k # held[w] => status'[k] = status[k]
    BY <1>6 DEF Settle, Succeed, Fail, DeferUntil, Release, TypeOK
  <2>2. held[w] \in Jobs /\ attempts[held[w]] = seen[w]
    BY <1>6 DEF Settle, Succeed, Fail, DeferUntil, RowInv, HeldIffOutcome, WritesOwnClaim, TypeOK
  <2>3. /\ status'[held[w]] \in {"succeeded", "pending", "failed"}
        /\ status'[held[w]] = "failed" => attempts[held[w]] >= RetryLimit
        /\ status'[held[w]] = "pending" => attempts[held[w]] < RetryLimit + deferrals
    BY <1>6, <2>2 DEF Settle, Succeed, Fail, Retry, DeferUntil, BudgetLeft, TypeOK
  <2>4. RetryBudget'
    BY <2>1, <2>3 DEF RetryBudget, TypeOK
  <2>5. BudgetLeft'
    BY <2>1, <2>3 DEF BudgetLeft, TypeOK
  <2>. QED
    BY <2>4, <2>5
<1>7. ASSUME NEW w \in Workers, SettleLost(w) \/ Crash(w)  PROVE Budget'
  BY <1>7 DEF SettleLost, Crash, Release, jobVars, RetryBudget, BudgetLeft, TypeOK
<1>8. CASE Tick \/ UNCHANGED vars
  BY <1>8 DEF Tick, vars, jobVars, workerVars, RetryBudget, BudgetLeft
<1>. QED
  BY <1>1, <1>3, <1>4, <1>5, <1>6, <1>7, <1>8 DEF Next, Step

(* A job is given up only after RetryLimit claims, and is claimed at most  *)
(* once more for every rate-limit answer (RunOnce's job.Attempts < 8).     *)
THEOREM RetriesEnd == Spec => []RetryBudget
<1>1. Init => RetryBudget /\ BudgetLeft
  BY QueueAssumption DEF QueueAssumption, Init, RetryBudget, BudgetLeft
<1>. QED
  BY <1>1, BudgetStep, TypeCorrect, RowInvariant, PTL DEF Spec

-----------------------------------------------------------------------------
(* Refinement of JobLedger.                                                *)
LEMMA HolderIs ==
  ASSUME Exclusive, NEW w \in Workers, held[w] # NoJob
  PROVE  HolderOf(held[w]) = w
BY DEF HolderOf, Exclusive

LEMMA NobodyHolds ==
  ASSUME NEW j, \A w \in Workers : held[w] # j
  PROVE  HolderOf(j) = NoJob
BY DEF HolderOf

(* The holder of each row depends on held alone.                           *)
LEMMA HolderStep ==
  ASSUME NEW j \in Jobs, \A w \in Workers : held'[w] = j <=> held[w] = j
  PROVE  HolderOf(j)' = HolderOf(j)
<1>1. {w \in Workers : held'[w] = j} = {w \in Workers : held[w] = j}
  OBVIOUS
<1>2. \A w : (w \in Workers /\ held'[w] = j) <=> (w \in Workers /\ held[w] = j)
  OBVIOUS
<1>. QED
  BY <1>2 DEF HolderOf

LEMMA HolderHolds ==
  ASSUME NEW j \in Jobs, NEW w \in Workers, HolderOf(j) = w
  PROVE  held[w] = j
BY QueueAssumption DEF HolderOf, QueueAssumption

(* A step that touches one row is a Move of that row in the ledger.        *)
LEMMA OneRowMoves ==
  ASSUME TypeOK, TypeOK', NEW j \in Jobs,
         \A k \in Jobs : k # j => /\ status'[k] = status[k]
                                 /\ \A w \in Workers : held'[w] = k <=> held[w] = k
  PROVE  Ledger!Move(j, LedgerPhase[j], LedgerPhase'[j], LedgerHolder'[j])
<1>1. LedgerPhase' = [LedgerPhase EXCEPT ![j] = LedgerPhase'[j]]
  <2>1. \A k \in Jobs : k # j => LedgerPhase'[k] = LedgerPhase[k]
    BY DEF LedgerPhase
  <2>. QED
    BY <2>1 DEF LedgerPhase
<1>2. \A k \in Jobs : k # j => LedgerHolder'[k] = LedgerHolder[k]
  BY HolderStep DEF LedgerHolder
<1>3. LedgerHolder' = [LedgerHolder EXCEPT ![j] = LedgerHolder'[j]]
  BY <1>2 DEF LedgerHolder
<1>. QED
  BY <1>1, <1>3 DEF Ledger!Move

(* Every step of the outbox is a step of the ledger or leaves it as it is. *)
LEMMA LedgerStep ==
  ASSUME TypeOK, TypeOK', RowInv, RowInv', [Next]_vars
  PROVE  [Ledger!Next]_(Ledger!ledger)
<1>. USE QueueAssumption DEF QueueAssumption
<1>1. ASSUME NEW j \in Jobs, Enqueue(j)  PROVE Ledger!Add(j)
  <2>1. /\ status[j] = "absent" /\ status' = [status EXCEPT ![j] = "pending"] /\ held' = held
    BY <1>1 DEF Enqueue, workerVars
  <2>2. LedgerHolder'[j] = NoJob
    <3>1. \A w \in Workers : held'[w] # j
      BY <2>1 DEF RowInv, WritesOwnClaim
    <3>. QED
      BY <3>1 DEF LedgerHolder, HolderOf
  <2>3. LedgerPhase[j] = "absent" /\ LedgerPhase'[j] = "open"
    BY <2>1 DEF LedgerPhase, PhaseOf, Settled, TypeOK
  <2>4. Ledger!Move(j, LedgerPhase[j], LedgerPhase'[j], LedgerHolder'[j])
    BY <2>1, OneRowMoves DEF TypeOK
  <2>. QED
    BY <2>2, <2>3, <2>4 DEF Ledger!Add
<1>2. ASSUME NEW w \in Workers, Claim(w)  PROVE \E j \in Jobs : Ledger!Take(j, w)
  <2>1. PICK j \in Jobs : /\ status[j] = "pending"
                          /\ status' = [status EXCEPT ![j] = "processing"]
                          /\ held' = [held EXCEPT ![w] = j]
    BY <1>2 DEF Claim, ClaimRow, Claimable
  <2>2. held[w] = NoJob
    BY <1>2 DEF Claim
  <2>3. Ledger!Idle(w)
    BY <2>2, HolderHolds DEF Ledger!Idle, LedgerHolder
  <2>4. LedgerHolder'[j] = w
    <3>1. held'[w] = j /\ \A v \in Workers : held'[v] = j => v = w
      BY <2>1 DEF TypeOK, RowInv, WritesOwnClaim
    <3>. QED
      BY <3>1 DEF LedgerHolder, HolderOf
  <2>5. LedgerPhase[j] = "open" /\ LedgerPhase'[j] = "taken"
    BY <2>1 DEF LedgerPhase, PhaseOf, Settled, TypeOK
  <2>6. Ledger!Move(j, LedgerPhase[j], LedgerPhase'[j], LedgerHolder'[j])
    BY <2>1, <2>2, OneRowMoves DEF TypeOK
  <2>. QED
    BY <2>3, <2>4, <2>5, <2>6 DEF Ledger!Take
<1>3. ASSUME NEW w \in Workers, ClaimLost(w)  PROVE \E j \in Jobs : Ledger!Lose(j)
  <2>1. PICK j \in Jobs : /\ status[j] = "pending"
                          /\ status' = [status EXCEPT ![j] = "processing"]
    BY <1>3 DEF ClaimLost, ClaimRow, Claimable
  <2>2. held' = held
    BY <1>3 DEF ClaimLost, workerVars
  <2>3. LedgerHolder'[j] = NoJob
    <3>1. \A v \in Workers : held'[v] # j
      BY <2>1, <2>2 DEF RowInv, WritesOwnClaim
    <3>. QED
      BY <3>1 DEF LedgerHolder, HolderOf
  <2>4. LedgerPhase[j] = "open" /\ LedgerPhase'[j] = "taken"
    BY <2>1 DEF LedgerPhase, PhaseOf, Settled, TypeOK
  <2>5. Ledger!Move(j, LedgerPhase[j], LedgerPhase'[j], LedgerHolder'[j])
    BY <2>1, <2>2, OneRowMoves DEF TypeOK
  <2>. QED
    BY <2>3, <2>4, <2>5 DEF Ledger!Lose
<1>4. ASSUME NEW w \in Workers, Release(w), held[w] \in Jobs,
             \A k \in Jobs : k # held[w] => status'[k] = status[k]
      PROVE  /\ LedgerPhase[held[w]] = "taken" /\ LedgerHolder[held[w]] = w
             /\ Ledger!Move(held[w], "taken", LedgerPhase'[held[w]], NoJob)
  <2>1. held' = [held EXCEPT ![w] = NoJob]
    BY <1>4 DEF Release
  <2>2. LedgerPhase[held[w]] = "taken"
    BY <1>4 DEF LedgerPhase, PhaseOf, Settled, RowInv, WritesOwnClaim
  <2>3. LedgerHolder[held[w]] = w
    BY <1>4, HolderIs DEF LedgerHolder, RowInv
  <2>5. \A v \in Workers : held'[v] # held[w]
    BY <1>4, <2>1 DEF RowInv, Exclusive, TypeOK
  <2>6. \A k \in Jobs : k # held[w] =>
          /\ status'[k] = status[k]
          /\ \A v \in Workers : held'[v] = k <=> held[v] = k
    BY <1>4, <2>1 DEF TypeOK
  <2>7. PICK j \in Jobs : j = held[w]
    BY <1>4
  <2>8. LedgerHolder'[j] = NoJob
    BY <2>5, <2>7 DEF LedgerHolder, HolderOf
  <2>9. Ledger!Move(j, LedgerPhase[j], LedgerPhase'[j], LedgerHolder'[j])
    BY <2>6, <2>7, OneRowMoves
  <2>. QED
    BY <2>2, <2>3, <2>7, <2>8, <2>9
<1>5. ASSUME NEW w \in Workers, Settle(w)
      PROVE  \E j \in Jobs : Ledger!PutBack(j, w) \/ Ledger!Close(j, w)
  <2>1. /\ Release(w) /\ held[w] \in Jobs
        /\ \A k \in Jobs : k # held[w] => status'[k] = status[k]
        /\ status'[held[w]] \in {"succeeded", "failed", "pending"}
    BY <1>5 DEF Settle, Succeed, Fail, DeferUntil, RowInv, HeldIffOutcome, TypeOK
  <2>2. LedgerPhase'[held[w]] \in {"open", "closed"}
    BY <2>1 DEF LedgerPhase, PhaseOf, Settled
  <2>. QED
    BY <1>4, <2>1, <2>2 DEF Ledger!PutBack, Ledger!Close
<1>6. ASSUME NEW w \in Workers, SettleLost(w) \/ Crash(w)
      PROVE  \E j \in Jobs : Ledger!Lose(j)
  <2>1. Release(w) /\ held[w] \in Jobs /\ status' = status
    BY <1>6 DEF SettleLost, Crash, jobVars, RowInv, HeldIffOutcome, TypeOK
  <2>2. LedgerPhase' = LedgerPhase
    BY <2>1 DEF LedgerPhase, PhaseOf, Settled
  <2>. QED
    BY <1>4, <2>1, <2>2 DEF Ledger!Lose
<1>7. ASSUME \/ \E w \in Workers : Process(w)
             \/ Tick
             \/ UNCHANGED vars
      PROVE  UNCHANGED Ledger!ledger
  <2>1. status' = status /\ held' = held
    BY <1>7 DEF Process, Tick, vars, jobVars, workerVars
  <2>2. LedgerPhase' = LedgerPhase
    BY <2>1 DEF LedgerPhase, PhaseOf, Settled
  <2>3. LedgerHolder' = LedgerHolder
    BY <2>1, HolderStep DEF LedgerHolder
  <2>. QED
    BY <2>2, <2>3 DEF Ledger!ledger
<1>. QED
  BY <1>1, <1>2, <1>3, <1>5, <1>6, <1>7 DEF Next, Step, Ledger!Next

(* The outbox with its clock, retries, deferrals and faults implements the *)
(* ledger of jobs: one taker, and only it closes or puts back its job.     *)
THEOREM OutboxImplementsLedger == Spec => ImplementsLedger
<1>1. Init => Ledger!Init
  <2>1. ASSUME Init  PROVE LedgerPhase = [j \in Jobs |-> "absent"]
    BY <2>1 DEF Init, LedgerPhase, PhaseOf, Settled
  <2>2. ASSUME Init  PROVE LedgerHolder = [j \in Jobs |-> NoJob]
    BY <2>2, NobodyHolds, QueueAssumption DEF Init, LedgerHolder, QueueAssumption
  <2>. QED
    BY <2>1, <2>2 DEF Ledger!Init
<1>. QED
  BY <1>1, LedgerStep, TypeCorrect, RowInvariant, PTL DEF Spec, ImplementsLedger, Ledger!Spec

=============================================================================
