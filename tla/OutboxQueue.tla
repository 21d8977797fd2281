---------------------------- MODULE OutboxQueue ----------------------------
(***************************************************************************)
(* The PostgreSQL outbox of services/backend/internal/queue/queue.go: the  *)
(* table outbox_jobs, and the worker processes that call RunOnce.          *)
(*                                                                         *)
(* A worker's RunOnce is not one step.  Claim is one SQL statement, the    *)
(* job's processor then runs for as long as the provider takes, and the    *)
(* outcome is written back by another statement that may itself fail.  A   *)
(* worker may die anywhere in between.  Nothing in the code reads          *)
(* locked_at: a job whose worker is gone is never taken back.              *)
(*                                                                         *)
(* Time is one clock in units of the first back-off step (5 s).            *)
(***************************************************************************)
EXTENDS Naturals, FiniteSets

CONSTANTS
  Jobs,           \* identities of the rows that may be inserted
  Workers,        \* worker processes, one RunOnce at a time each
  NoJob,          \* what an idle worker holds
  RetryLimit,     \* 8 in RunOnce
  BackoffCap,     \* 1 hour in Fail
  DeferBump,      \* 1 minute in DeferUntil
  Horizon,        \* bound on the clock
  MaxDeferrals,   \* bound on the provider's rate-limit answers
  MaxFaults       \* bound on crashes and lost writes

ASSUME QueueAssumption ==
  /\ NoJob \notin Jobs \cup Workers
  /\ RetryLimit \in Nat \ {0}
  /\ BackoffCap \in Nat \ {0}
  /\ DeferBump \in Nat \ {0}
  /\ Horizon \in Nat
  /\ MaxDeferrals \in Nat
  /\ MaxFaults \in Nat

VARIABLES
  status,     \* outbox_jobs.status, "absent" before the INSERT
  attempts,   \* outbox_jobs.attempts
  runAt,      \* outbox_jobs.run_at
  createdAt,  \* outbox_jobs.created_at
  held,       \* the job a worker's RunOnce returned from Claim
  seen,       \* job.Attempts in that worker's copy of the row
  outcome,    \* what the processor returned to RunOnce
  clock,
  deferrals,  \* rate-limit answers so far
  faults      \* crashes and lost writes so far

jobVars    == <<status, attempts, runAt, createdAt>>
workerVars == <<held, seen, outcome>>
vars       == <<jobVars, workerVars, clock, deferrals, faults>>

Statuses == {"absent", "pending", "processing", "succeeded", "failed"}
Outcomes == {"none", "running", "ok", "error", "deferred"}
Settled  == {"succeeded", "failed"}

TypeOK ==
  /\ status \in [Jobs -> Statuses]
  /\ attempts \in [Jobs -> Nat]
  /\ runAt \in [Jobs -> Nat]
  /\ createdAt \in [Jobs -> Nat]
  /\ held \in [Workers -> Jobs \cup {NoJob}]
  /\ seen \in [Workers -> Nat]
  /\ outcome \in [Workers -> Outcomes]
  /\ clock \in 0..Horizon
  /\ deferrals \in 0..MaxDeferrals
  /\ faults \in 0..MaxFaults

Init ==
  /\ status = [j \in Jobs |-> "absent"]
  /\ attempts = [j \in Jobs |-> 0]
  /\ runAt = [j \in Jobs |-> 0]
  /\ createdAt = [j \in Jobs |-> 0]
  /\ held = [w \in Workers |-> NoJob]
  /\ seen = [w \in Workers |-> 0]
  /\ outcome = [w \in Workers |-> "none"]
  /\ clock = 0
  /\ deferrals = 0
  /\ faults = 0

-----------------------------------------------------------------------------
(* LEAST(attempts * attempts * 5 seconds, 1 hour) *)
Backoff(n) == IF n * n < BackoffCap THEN n * n ELSE BackoffCap

(* Mutants of Claimable: a claim that takes over rows already processing,  *)
(* and one that picks failed rows up again.                                *)
ClaimableProcessing(j) == status[j] \in {"pending", "processing"} /\ runAt[j] <= clock
ClaimableFailed(j)     == status[j] \in {"pending", "failed"} /\ runAt[j] <= clock

(* WHERE status = 'pending' AND run_at <= now() *)
Claimable(j) == status[j] = "pending" /\ runAt[j] <= clock

(* ORDER BY run_at ASC, created_at ASC *)
Precedes(j, k) ==
  \/ runAt[j] < runAt[k]
  \/ runAt[j] = runAt[k] /\ createdAt[j] <= createdAt[k]

Release(w) ==
  /\ held' = [held EXCEPT ![w] = NoJob]
  /\ outcome' = [outcome EXCEPT ![w] = "none"]
  /\ UNCHANGED seen

-----------------------------------------------------------------------------
(* Enqueue, or the commit of a transaction that called EnqueueTx. *)
Enqueue(j) ==
  /\ status[j] = "absent"
  /\ status' = [status EXCEPT ![j] = "pending"]
  /\ runAt' = [runAt EXCEPT ![j] = clock]
  /\ createdAt' = [createdAt EXCEPT ![j] = clock]
  /\ UNCHANGED <<attempts, workerVars, clock, deferrals, faults>>

(* The UPDATE ... FROM (SELECT ... FOR UPDATE SKIP LOCKED LIMIT 1). *)
ClaimRow(j) ==
  /\ Claimable(j)
  /\ \A k \in Jobs : Claimable(k) => Precedes(j, k)
  /\ status' = [status EXCEPT ![j] = "processing"]
  /\ attempts' = [attempts EXCEPT ![j] = @ + 1]
  /\ UNCHANGED <<runAt, createdAt>>

Claim(w) ==
  /\ held[w] = NoJob
  /\ \E j \in Jobs :
       /\ ClaimRow(j)
       /\ held' = [held EXCEPT ![w] = j]
       /\ seen' = [seen EXCEPT ![w] = attempts[j] + 1]
  /\ outcome' = [outcome EXCEPT ![w] = "running"]
  /\ UNCHANGED <<clock, deferrals, faults>>

(* The statement committed, its answer did not reach the worker: RunOnce   *)
(* returns the error and nobody holds the row.                             *)
ClaimLost(w) ==
  /\ held[w] = NoJob
  /\ faults < MaxFaults
  /\ \E j \in Jobs : ClaimRow(j)
  /\ faults' = faults + 1
  /\ UNCHANGED <<workerVars, clock, deferrals>>

(* process(ctx, job) returns; a rate limit is an error with a RetryAt. *)
Process(w) ==
  /\ outcome[w] = "running"
  /\ \/ /\ outcome' = [outcome EXCEPT ![w] = "ok"]
        /\ UNCHANGED deferrals
     \/ /\ outcome' = [outcome EXCEPT ![w] = "error"]
        /\ UNCHANGED deferrals
     \/ /\ deferrals < MaxDeferrals
        /\ outcome' = [outcome EXCEPT ![w] = "deferred"]
        /\ deferrals' = deferrals + 1
  /\ UNCHANGED <<jobVars, held, seen, clock, faults>>

Succeed(w) ==
  /\ outcome[w] = "ok"
  /\ status' = [status EXCEPT ![held[w]] = "succeeded"]
  /\ Release(w)
  /\ UNCHANGED <<attempts, runAt, createdAt, clock, deferrals, faults>>

(* Mutant of Retry: one attempt too many. *)
RetryOnceMore(w) == seen[w] <= RetryLimit

(* job.Attempts < 8, on the worker's copy of the row. *)
Retry(w) == seen[w] < RetryLimit

(* Mutant of Fail: the retry is scheduled, the status is not reset. *)
FailKeepsStatus(w) ==
  /\ outcome[w] = "error"
  /\ IF Retry(w)
     THEN /\ runAt' = [runAt EXCEPT ![held[w]] = clock + Backoff(attempts[held[w]])]
          /\ UNCHANGED status
     ELSE /\ status' = [status EXCEPT ![held[w]] = "failed"]
          /\ UNCHANGED runAt
  /\ Release(w)
  /\ UNCHANGED <<attempts, createdAt, clock, deferrals, faults>>

(* The delay is computed from the row's attempts, in the UPDATE itself. *)
Fail(w) ==
  /\ outcome[w] = "error"
  /\ IF Retry(w)
     THEN /\ status' = [status EXCEPT ![held[w]] = "pending"]
          /\ runAt' = [runAt EXCEPT ![held[w]] = clock + Backoff(attempts[held[w]])]
     ELSE /\ status' = [status EXCEPT ![held[w]] = "failed"]
          /\ UNCHANGED runAt
  /\ Release(w)
  /\ UNCHANGED <<attempts, createdAt, clock, deferrals, faults>>

(* retryAt is the provider's; one that has passed is replaced. *)
DeferUntil(w) ==
  /\ outcome[w] = "deferred"
  /\ status' = [status EXCEPT ![held[w]] = "pending"]
  /\ \E retryAt \in 0..Horizon :
       runAt' = [runAt EXCEPT ![held[w]] =
                   IF retryAt > clock THEN retryAt ELSE clock + DeferBump]
  /\ Release(w)
  /\ UNCHANGED <<attempts, createdAt, clock, deferrals, faults>>

(* The outcome's UPDATE fails (database away, or the context cancelled by  *)
(* SIGTERM): RunOnce returns the error and leaves the row as it is.        *)
SettleLost(w) ==
  /\ outcome[w] \in {"ok", "error", "deferred"}
  /\ faults < MaxFaults
  /\ faults' = faults + 1
  /\ Release(w)
  /\ UNCHANGED <<jobVars, clock, deferrals>>

(* The worker process dies while its processor runs, and is restarted. *)
Crash(w) ==
  /\ outcome[w] = "running"
  /\ faults < MaxFaults
  /\ faults' = faults + 1
  /\ Release(w)
  /\ UNCHANGED <<jobVars, clock, deferrals>>

Tick ==
  /\ clock < Horizon
  /\ clock' = clock + 1
  /\ UNCHANGED <<jobVars, workerVars, deferrals, faults>>

Settle(w) == Succeed(w) \/ Fail(w) \/ DeferUntil(w)

Step(w) == Claim(w) \/ Process(w) \/ Settle(w)

Next ==
  \/ \E j \in Jobs : Enqueue(j)
  \/ \E w \in Workers : Step(w) \/ ClaimLost(w) \/ SettleLost(w) \/ Crash(w)
  \/ Tick

(* Claim's ticker fires again and again, and the statements that settle a  *)
(* job end.  That a processor ends is an assumption about the provider:    *)
(* its clients have no timeout (integrations/github/client.go 101), and a  *)
(* request that hangs holds its worker.  Nothing makes a user enqueue.     *)
Fairness ==
  /\ \A w \in Workers : WF_vars(Process(w)) /\ WF_vars(Settle(w)) /\ WF_vars(Claim(w))
  /\ WF_vars(Tick)

Spec     == Init /\ [][Next]_vars
FairSpec == Spec /\ Fairness

-----------------------------------------------------------------------------
(* No job runs on two workers at once: claims that race, retries and       *)
(* crashes never hand a row to a second RunOnce while a first one has it.  *)
Exclusive ==
  \A v, w \in Workers : held[v] # NoJob /\ held[v] = held[w] => v = w

(* The outcome is written WHERE id = ? alone, without the status or the    *)
(* attempt it was computed for: that is right only while the row is still  *)
(* as the worker claimed it, whatever other workers did in the meantime.   *)
WritesOwnClaim ==
  \A w \in Workers : held[w] # NoJob =>
    /\ status[held[w]] = "processing"
    /\ attempts[held[w]] = seen[w]

(* Rows marked processing that no worker is working on. *)
Stranded == {j \in Jobs : status[j] = "processing" /\ \A w \in Workers : held[w] # j}

(* A crash or a lost write strands at most the one job it hit; without one *)
(* no retry, deferral or race ever leaves a processing row behind.         *)
StrandedBounded == Cardinality(Stranded) <= faults

(* A job is given up only after RetryLimit claims, and is claimed more     *)
(* often than that only when a rate limit answered: retries end.           *)
RetryBudget ==
  \A j \in Jobs :
    /\ status[j] = "failed" => attempts[j] >= RetryLimit
    /\ attempts[j] <= RetryLimit + deferrals

(* A settled job is never run, retried or settled again, although Succeed, *)
(* Fail and DeferUntil would each overwrite any status.                    *)
SettledIsFinal ==
  [][\A j \in Jobs : status[j] \in Settled => status'[j] = status[j]]_vars

(* The model's clock ends before this job falls due. *)
BeyondHorizon(j) == status[j] = "pending" /\ runAt[j] > Horizon

(* Every enqueued job is settled in the end, unless a fault stranded one:  *)
(* the back-off, the deferrals and the order of claims starve none.        *)
SettledOrStranded ==
  \A j \in Jobs :
    status[j] = "pending" ~>
      \/ status[j] \in Settled
      \/ BeyondHorizon(j)
      \/ faults > 0 /\ j \in Stranded

-----------------------------------------------------------------------------
(* The outbox as a ledger of jobs: a row is held by the worker, if any,    *)
(* whose RunOnce has it.                                                   *)
PhaseOf(st) ==
  CASE st = "pending"    -> "open"
    [] st = "processing" -> "taken"
    [] st \in Settled    -> "closed"
    [] OTHER             -> "absent"

LedgerPhase == [j \in Jobs |-> PhaseOf(status[j])]

HolderOf(j) ==
  IF \E w \in Workers : held[w] = j
  THEN CHOOSE w \in Workers : held[w] = j
  ELSE NoJob

LedgerHolder == [j \in Jobs |-> HolderOf(j)]

Ledger == INSTANCE JobLedger
            WITH Nobody <- NoJob, phase <- LedgerPhase, holder <- LedgerHolder

(* Whatever the clock, the retries and the faults do, the outbox behaves   *)
(* as JobLedger says: one taker, and only the taker closes or puts back.   *)
ImplementsLedger == Ledger!Spec

=============================================================================
