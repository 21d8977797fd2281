------------------------------ MODULE SyncRuns ------------------------------
(***************************************************************************)
(* The sync runs of one project/repository pair: the scheduler of          *)
(* internal/sync/scheduler.go, the import endpoint of internal/httpapi,    *)
(* and the worker that processes the runs' jobs (internal/sync/poll.go and *)
(* processGitHubImport of processor.go).                                   *)
(*                                                                         *)
(* A run is a row of sync_events and the outbox job that names it.  A poll *)
(* is inserted with its job in one transaction; an import or an outbound   *)
(* create is inserted first and its job enqueued by a later statement.     *)
(* Before it inserts, a poll or an import looks for an active run of the   *)
(* pair under an advisory lock.  A worker reads the pair's cursor, asks    *)
(* the provider for what changed since, reconciles it, and only then moves *)
(* the cursor to the time it started.                                      *)
(*                                                                         *)
(* What an item holds is the subject of IssueSync; here a change is        *)
(* the provider's timestamp on it and whether it has been reconciled.      *)
(***************************************************************************)
EXTENDS Integers, FiniteSets

CONSTANTS
  Runs,          \* run identities; a finished run's identity is used again
  Workers,       \* worker processes
  Changes,       \* provider changes
  NoRun,         \* what an idle worker works on
  ApiKinds,      \* the kinds of run the API starts: "import", "create", "update"
  RetryLimit,    \* 8 in queue.go
  MaxAttempts,   \* bound on the attempts rate limits add to a job
  Overlap,       \* the second pollingSince subtracts from the cursor
  Skew,          \* how far the provider's clock runs behind the worker's
  MaxTime,       \* bound on the clock
  MaxErrors,     \* bound on provider and database errors that are reported
  MaxFaults,     \* bound on crashes and on writes whose loss is ignored
  MaxToggles     \* bound on attaching, detaching, (de)activating

ASSUME RunsAssumption ==
  /\ NoRun \notin Runs
  /\ ApiKinds \subseteq {"import", "create", "update"}
  /\ RetryLimit \in Nat /\ MaxAttempts \in Nat /\ MaxTime \in Nat \ {0}
  /\ MaxErrors \in Nat /\ MaxFaults \in Nat /\ MaxToggles \in Nat
  /\ Overlap \in Nat /\ Skew \in Nat
  /\ Skew <= Overlap

NoTime   == 0    \* NULL cursor; also the stamp of a change not yet made
Full     == -1   \* the window of a listing without "since"

VARIABLES
  kind, event, job, attempts,  \* the runs: sync_events and outbox_jobs
  handler,                     \* the API request between its commit and Enqueue
  row, due, cursor, backfilled,\* the pair's git_sync_states row: whether it is there,
                               \* next_run_at passed, the cursors; its status is only shown
  attached, active,            \* project_repositories row; connection.active
  pc, run, startedAt, window, fetched, failed,  \* the workers
  stamp, applied,              \* provider changes, and those reconciled
  clock, errors, faults, toggles

runVars    == <<kind, event, job, attempts, handler>>
stateVars  == <<row, due, cursor, backfilled>>
pairVars   == <<attached, active>>
workerVars == <<pc, run, startedAt, window, fetched, failed>>
dataVars   == <<stamp, applied>>
bounds     == <<clock, errors, faults, toggles>>
vars       == <<runVars, stateVars, pairVars, workerVars, dataVars, bounds>>

Kinds    == {"none", "poll", "import", "create", "update"}
Events   == {"none", "queued", "processing", "succeeded", "failed"}
JobState == {"none", "pending", "processing", "succeeded", "failed"}
PCs      == {"idle", "paired", "selected",                        \* SchedulePolls
             "begin", "list", "reconcile", "save", "push", "mark", "settle"}
Times    == 0..MaxTime

TypeOK ==
  /\ kind \in [Runs -> Kinds] /\ event \in [Runs -> Events]
  /\ job \in [Runs -> JobState] /\ attempts \in [Runs -> Nat]
  /\ handler \in [Runs -> BOOLEAN]
  /\ row \in BOOLEAN /\ due \in BOOLEAN /\ cursor \in Times /\ backfilled \in BOOLEAN
  /\ attached \in BOOLEAN /\ active \in BOOLEAN
  /\ pc \in [Workers -> PCs] /\ run \in [Workers -> Runs \cup {NoRun}]
  /\ startedAt \in [Workers -> Times] /\ window \in [Workers -> Int]
  /\ fetched \in [Workers -> SUBSET Changes] /\ failed \in [Workers -> BOOLEAN]
  /\ stamp \in [Changes -> Times] /\ applied \in SUBSET Changes
  /\ clock \in 1..MaxTime /\ errors \in 0..MaxErrors
  /\ faults \in 0..MaxFaults /\ toggles \in 0..MaxToggles

Init ==
  /\ kind = [r \in Runs |-> "none"] /\ event = [r \in Runs |-> "none"]
  /\ job = [r \in Runs |-> "none"] /\ attempts = [r \in Runs |-> 0]
  /\ handler = [r \in Runs |-> FALSE]
  /\ backfilled = FALSE
  /\ \/ row = FALSE /\ due = FALSE /\ cursor = NoTime
     \/ row = TRUE /\ due = TRUE /\ cursor = 1   \* migration 013
  /\ attached = TRUE /\ active = TRUE
  /\ pc = [w \in Workers |-> "idle"] /\ run = [w \in Workers |-> NoRun]
  /\ startedAt = [w \in Workers |-> NoTime] /\ window = [w \in Workers |-> Full]
  /\ fetched = [w \in Workers |-> {}] /\ failed = [w \in Workers |-> FALSE]
  /\ stamp = [c \in Changes |-> NoTime] /\ applied = {}
  /\ clock = 1 /\ errors = 0 /\ faults = 0 /\ toggles = 0

-----------------------------------------------------------------------------
Unfinished == {"queued", "processing"}
Waiting    == {"pending", "processing"}

(* Mutant of Active: only the event's status is asked. *)
ActiveByEvent(r) == event[r] \in Unfinished

(* The query of activeSyncForPair and of importGitProject: an "update" job *)
(* has no sync event, so it is never found.                                *)
Active(r) == event[r] # "none" /\ (event[r] \in Unfinished \/ job[r] \in Waiting)
PairActive == \E r \in Runs : Active(r)

(* No row still in use has this identity. *)
Unused(r) ==
  /\ event[r] \notin Unfinished /\ job[r] \notin Waiting /\ ~handler[r]
  /\ \A w \in Workers : run[w] # r

NewRun(r, k, e, j) ==
  /\ Unused(r)
  /\ kind' = [kind EXCEPT ![r] = k]
  /\ event' = [event EXCEPT ![r] = e]
  /\ job' = [job EXCEPT ![r] = j]
  /\ attempts' = [attempts EXCEPT ![r] = 0]

Goto(w, l) == pc' = [pc EXCEPT ![w] = l]

(* The worker returns to the ticker loop with nothing in hand. *)
Rest(w) ==
  /\ Goto(w, "idle")
  /\ run' = [run EXCEPT ![w] = NoRun]
  /\ startedAt' = [startedAt EXCEPT ![w] = NoTime]
  /\ window' = [window EXCEPT ![w] = Full]
  /\ fetched' = [fetched EXCEPT ![w] = {}]
  /\ failed' = [failed EXCEPT ![w] = FALSE]

(* An error that the code sees and reports, and a fault it does not.       *)
Error == errors < MaxErrors /\ errors' = errors + 1 /\ UNCHANGED <<clock, faults, toggles>>
Fault == faults < MaxFaults /\ faults' = faults + 1 /\ UNCHANGED <<clock, errors, toggles>>

-----------------------------------------------------------------------------
(* SchedulePolls.  The attachments are read before the transaction. *)
SchedulePairs(w) ==
  /\ pc[w] = "idle"
  /\ attached /\ active
  /\ Goto(w, "paired")
  /\ UNCHANGED <<runVars, stateVars, pairVars, run, startedAt, window, fetched,
                 failed, dataVars, bounds>>

(* Under the scheduler's lock: insert the missing row, select it when it   *)
(* is due and the joins still hold.  The insert is not yet committed.      *)
ScheduleSelect(w) ==
  /\ pc[w] = "paired"
  /\ \A v \in Workers : pc[v] # "selected"
  /\ IF (~row \/ due) /\ attached /\ active
     THEN Goto(w, "selected") /\ UNCHANGED stateVars
     ELSE /\ Goto(w, "idle")
          /\ row' = TRUE
          /\ due' = (~row \/ due)
          /\ UNCHANGED <<cursor, backfilled>>
  /\ UNCHANGED <<runVars, pairVars, run, startedAt, window, fetched, failed,
                 dataVars, bounds>>

(* Under the pair's lock: an active run defers the poll by an interval,    *)
(* otherwise event, job and checkpoint are committed together.             *)
ScheduleCommit(w) ==
  /\ pc[w] = "selected"
  /\ IF PairActive
     THEN UNCHANGED runVars
     ELSE (\E r \in Runs : NewRun(r, "poll", "queued", "pending")) /\ UNCHANGED handler
  /\ row' = TRUE
  /\ due' = FALSE
  /\ Goto(w, "idle")
  /\ UNCHANGED <<cursor, backfilled, pairVars, run, startedAt, window, fetched,
                 failed, dataVars, bounds>>

(* next_run_at passes. *)
IntervalElapses ==
  /\ row /\ ~due
  /\ due' = TRUE
  /\ UNCHANGED <<runVars, row, cursor, backfilled, pairVars, workerVars, dataVars, bounds>>

-----------------------------------------------------------------------------
(* importGitProject up to its commit: check and insert under the pair's lock. *)
ImportStart(r) ==
  /\ "import" \in ApiKinds
  /\ attached /\ active
  /\ ~PairActive
  /\ NewRun(r, "import", "queued", "none")
  /\ handler' = [handler EXCEPT ![r] = TRUE]
  /\ UNCHANGED <<stateVars, pairVars, workerVars, dataVars, bounds>>

(* enqueueTaskIssueCreate and enqueueMilestoneCreate up to the event: no   *)
(* lock, no check.                                                         *)
CreateStart(r) ==
  /\ "create" \in ApiKinds
  /\ attached /\ active
  /\ NewRun(r, "create", "queued", "none")
  /\ handler' = [handler EXCEPT ![r] = TRUE]
  /\ UNCHANGED <<stateVars, pairVars, workerVars, dataVars, bounds>>

(* updateTask and updateMilestone of a linked item: a job without an event. *)
UpdateStart(r) ==
  /\ "update" \in ApiKinds
  /\ NewRun(r, "update", "none", "pending")
  /\ UNCHANGED <<handler, stateVars, pairVars, workerVars, dataVars, bounds>>

HandlerEnqueue(r) ==
  /\ handler[r]
  /\ job' = [job EXCEPT ![r] = "pending"]
  /\ handler' = [handler EXCEPT ![r] = FALSE]
  /\ UNCHANGED <<kind, event, attempts, stateVars, pairVars, workerVars, dataVars, bounds>>

(* Mutant of HandlerEnqueueFails: the event is left queued. *)
HandlerEnqueueIgnored(r) ==
  /\ handler[r]
  /\ Error
  /\ handler' = [handler EXCEPT ![r] = FALSE]
  /\ job' = job \/ job' = [job EXCEPT ![r] = "pending"]
  /\ UNCHANGED <<kind, event, attempts, stateVars, pairVars, workerVars, dataVars>>

(* Enqueue returns an error, whether or not its INSERT took effect. *)
HandlerEnqueueFails(r) ==
  /\ handler[r]
  /\ Error
  /\ event' = [event EXCEPT ![r] = "failed"]
  /\ handler' = [handler EXCEPT ![r] = FALSE]
  /\ job' = job \/ job' = [job EXCEPT ![r] = "pending"]
  /\ UNCHANGED <<kind, attempts, stateVars, pairVars, workerVars, dataVars>>

(* The API process dies, or the client goes away and cancels the context   *)
(* both the INSERT of the job and the UPDATE of the event would use.       *)
HandlerGone(r) ==
  /\ handler[r]
  /\ Fault
  /\ handler' = [handler EXCEPT ![r] = FALSE]
  /\ UNCHANGED <<kind, event, job, attempts, stateVars, pairVars, workerVars, dataVars>>

-----------------------------------------------------------------------------
(* RunOnce of the queue, as far as a run sees it (OutboxQueue has the rest). *)
Claim(w) ==
  /\ pc[w] = "idle"
  /\ \E r \in Runs :
       /\ job[r] = "pending"
       /\ job' = [job EXCEPT ![r] = "processing"]
       /\ attempts' = [attempts EXCEPT ![r] = @ + 1]
       /\ run' = [run EXCEPT ![w] = r]
  /\ Goto(w, "begin")
  /\ UNCHANGED <<kind, event, handler, stateVars, pairVars, startedAt, window,
                 fetched, failed, dataVars, bounds>>

Works(w, k) == run[w] # NoRun /\ kind[run[w]] = k

(* The job's deferred function runs next, with returnErr set or nil. *)
Return(w, error) ==
  /\ Goto(w, "mark")
  /\ failed' = [failed EXCEPT ![w] = error]

(* Mutant of PollingSince: the window begins at the cursor. *)
PollingSinceCursor == IF cursor = NoTime \/ ~backfilled THEN Full ELSE cursor

(* "since" of the next listing of a poll that reads this cursor. *)
PollingSince == IF cursor = NoTime \/ ~backfilled THEN Full ELSE cursor - Overlap

(* processGitPoll up to the provider client: read the cursor, take the     *)
(* time, mark the event, and fail on an inactive connection.           *)
PollBegin(w) ==
  /\ pc[w] = "begin" /\ Works(w, "poll")
  /\ window' = [window EXCEPT ![w] = PollingSince]
  /\ startedAt' = [startedAt EXCEPT ![w] = clock]
  /\ event' = [event EXCEPT ![run[w]] = "processing"]
  /\ IF active THEN Goto(w, "list") /\ UNCHANGED failed ELSE Return(w, TRUE)
  /\ UNCHANGED <<kind, job, attempts, handler, stateVars, pairVars, run, fetched, dataVars,
                 bounds>>

(* processGitHubImport up to the provider client. *)
ImportBegin(w) ==
  /\ pc[w] = "begin" /\ Works(w, "import")
  /\ startedAt' = [startedAt EXCEPT ![w] = clock]
  /\ event' = [event EXCEPT ![run[w]] = "processing"]
  /\ IF active THEN Goto(w, "list") /\ UNCHANGED failed ELSE Return(w, TRUE)
  /\ UNCHANGED <<kind, job, attempts, handler, stateVars, pairVars, run, window,
                 fetched, dataVars, bounds>>

MutationBegin(w) ==
  /\ pc[w] = "begin" /\ (Works(w, "create") \/ Works(w, "update"))
  /\ event' = [event EXCEPT ![run[w]] = IF Works(w, "create") THEN "processing" ELSE @]
  /\ Goto(w, "push")
  /\ UNCHANGED <<kind, job, attempts, handler, stateVars, pairVars, run, startedAt,
                 window, fetched, failed, dataVars, bounds>>

(* The provider's answer to an outbound create or update. *)
Push(w) ==
  /\ pc[w] = "push"
  /\ Return(w, FALSE)
  /\ UNCHANGED <<runVars, stateVars, pairVars, run, startedAt, window, fetched,
                 dataVars, bounds>>

(* ListIssues and ListMilestones, or their Since forms. *)
List(w) ==
  /\ pc[w] = "list"
  /\ fetched' = [fetched EXCEPT ![w] =
       {c \in Changes : stamp[c] # NoTime /\ (window[w] = Full \/ stamp[c] >= window[w])}]
  /\ Goto(w, "reconcile")
  /\ UNCHANGED <<runVars, stateVars, pairVars, run, startedAt, window, failed,
                 dataVars, bounds>>

Reconcile(w) ==
  /\ pc[w] = "reconcile"
  /\ applied' = applied \cup fetched[w]
  /\ Goto(w, "save")
  /\ UNCHANGED <<runVars, stateVars, pairVars, run, startedAt, window, fetched,
                 failed, stamp, bounds>>

(* Mutant of ReconcileSome: the failures are not counted. *)
ReconcileSomeIgnored(w) ==
  /\ pc[w] = "reconcile"
  /\ Error
  /\ \E some \in SUBSET fetched[w] : some # fetched[w] /\ applied' = applied \cup some
  /\ Goto(w, "save")
  /\ UNCHANGED <<runVars, stateVars, pairVars, run, startedAt, window, fetched, failed, stamp>>

(* Some items fail; the loop goes on with the others. *)
ReconcileSome(w) ==
  /\ pc[w] = "reconcile"
  /\ Error
  /\ \E some \in SUBSET fetched[w] : some # fetched[w] /\ applied' = applied \cup some
  /\ Return(w, TRUE)
  /\ UNCHANGED <<runVars, stateVars, pairVars, run, startedAt, window, fetched, stamp>>

(* Mutant of PollSave: the cursor moves to the time the poll ends. *)
PollSaveNow(w) ==
  /\ pc[w] = "save" /\ Works(w, "poll")
  /\ cursor' = clock
  /\ backfilled' = TRUE
  /\ Return(w, FALSE)
  /\ UNCHANGED <<runVars, row, due, pairVars, run, startedAt, window, fetched, dataVars, bounds>>

(* markWorkflowLabelBackfilled and the cursor update of the deferred       *)
(* function: both cursors move to the time the poll started.               *)
PollSave(w) ==
  /\ pc[w] = "save" /\ Works(w, "poll")
  /\ cursor' = startedAt[w]
  /\ backfilled' = TRUE
  /\ Return(w, FALSE)
  /\ UNCHANGED <<runVars, row, due, pairVars, run, startedAt, window, fetched, dataVars, bounds>>

(* seedGitSyncCursor.  The upsert waits for a scheduler that has inserted  *)
(* the row and not committed.                                              *)
ImportSave(w) ==
  /\ pc[w] = "save" /\ Works(w, "import")
  /\ ~row => \A v \in Workers : pc[v] # "selected"
  /\ cursor' = startedAt[w]
  /\ backfilled' = TRUE
  /\ due' = FALSE
  /\ row' = TRUE
  /\ Return(w, FALSE)
  /\ UNCHANGED <<runVars, pairVars, run, startedAt, window, fetched, dataVars, bounds>>

(* A provider or database error in any of these steps; a poll whose cursor *)
(* update fails may have marked the backfill.                              *)
StepFails(w) ==
  /\ pc[w] \in {"begin", "list", "push", "save"}
  /\ ~(pc[w] = "begin" /\ Works(w, "create"))
  /\ Error
  /\ Return(w, TRUE)
  /\ \/ UNCHANGED backfilled
     \/ pc[w] = "save" /\ Works(w, "poll") /\ backfilled' = TRUE
  /\ UNCHANGED <<runVars, row, due, cursor, pairVars, run, startedAt, window,
                 fetched, dataVars>>

(* An import or a create that cannot mark its event "processing" returns   *)
(* before the deferred function is there: the event stays as it is.        *)
BeginFails(w) ==
  /\ pc[w] = "begin" /\ (Works(w, "import") \/ Works(w, "create"))
  /\ Error
  /\ failed' = [failed EXCEPT ![w] = TRUE]
  /\ Goto(w, "settle")
  /\ UNCHANGED <<runVars, stateVars, pairVars, run, startedAt, window, fetched, dataVars>>

(* The deferred function's setSyncEvent. *)
MarkEvent(w) ==
  /\ pc[w] = "mark"
  /\ event' = [event EXCEPT ![run[w]] =
       IF Works(w, "update") THEN @ ELSE IF failed[w] THEN "failed" ELSE "succeeded"]
  /\ Goto(w, "settle")
  /\ UNCHANGED <<kind, job, attempts, handler, stateVars, pairVars, run, startedAt, window,
                 fetched, failed, dataVars, bounds>>

(* The event of a poll or an import keeps its status when that UPDATE      *)
(* fails: a warning at most.  A create reports it and is retried.          *)
MarkLost(w) ==
  /\ pc[w] = "mark" /\ ~Works(w, "update")
  /\ Fault
  /\ failed' = [failed EXCEPT ![w] = @ \/ Works(w, "create")]
  /\ Goto(w, "settle")
  /\ UNCHANGED <<runVars, stateVars, pairVars, run, startedAt, window, fetched, dataVars>>

(* Succeed, Fail or DeferUntil of the queue. *)
Settle(w) ==
  /\ pc[w] = "settle"
  /\ \E to \in {"succeeded", "pending", "failed"} :
       /\ to = "succeeded" <=> ~failed[w]
       /\ to = "failed" => attempts[run[w]] >= RetryLimit
       /\ to = "pending" => attempts[run[w]] < RetryLimit \/ attempts[run[w]] < MaxAttempts
       /\ job' = [job EXCEPT ![run[w]] = to]
  /\ Rest(w)
  /\ UNCHANGED <<kind, event, attempts, handler, stateVars, pairVars, dataVars, bounds>>

(* Process death, or a settling UPDATE that fails. *)
Crash(w) ==
  /\ pc[w] # "idle"
  /\ Fault
  /\ Rest(w)
  /\ UNCHANGED <<runVars, stateVars, pairVars, dataVars>>

-----------------------------------------------------------------------------
(* Users attach and detach the repository and (de)activate its connection. *)
Toggle ==
  /\ toggles < MaxToggles
  /\ toggles' = toggles + 1
  /\ \/ attached' = ~attached /\ UNCHANGED active
     \/ active' = ~active /\ UNCHANGED attached
  /\ UNCHANGED <<runVars, stateVars, workerVars, dataVars, clock, errors, faults>>

(* An item changes at the provider, stamped with the provider's clock. *)
ProviderChange(c) ==
  /\ stamp[c] = NoTime
  /\ \E t \in 1..clock : t >= clock - Skew /\ stamp' = [stamp EXCEPT ![c] = t]
  /\ UNCHANGED <<runVars, stateVars, pairVars, workerVars, applied, bounds>>

Tick ==
  /\ clock < MaxTime
  /\ clock' = clock + 1
  /\ UNCHANGED <<runVars, stateVars, pairVars, workerVars, dataVars, errors, faults, toggles>>

Api(r) ==
  \/ ImportStart(r) \/ CreateStart(r) \/ UpdateStart(r)
  \/ HandlerEnqueue(r) \/ HandlerEnqueueFails(r) \/ HandlerGone(r)

Schedule(w) == SchedulePairs(w) \/ ScheduleSelect(w) \/ ScheduleCommit(w)

(* The steps a worker takes on a claimed job when nothing goes wrong. *)
Process(w) ==
  \/ PollBegin(w) \/ ImportBegin(w) \/ MutationBegin(w) \/ Push(w) \/ List(w)
  \/ Reconcile(w) \/ PollSave(w) \/ ImportSave(w) \/ MarkEvent(w) \/ Settle(w)

Next ==
  \/ \E r \in Runs : Api(r)
  \/ \E w \in Workers :
       \/ Schedule(w) \/ Claim(w) \/ Process(w)
       \/ ReconcileSome(w) \/ StepFails(w) \/ BeginFails(w) \/ MarkLost(w) \/ Crash(w)
  \/ \E c \in Changes : ProviderChange(c)
  \/ IntervalElapses \/ Toggle \/ Tick

(* main.go's select takes any ready ticker, and its inner loop ends when   *)
(* the queue is empty: assuming that it is now and then, neither           *)
(* scheduling nor claiming is passed over for ever.  A handler goes on,    *)
(* and so does a claimed job whose provider answers.                       *)
Fairness ==
  /\ \A w \in Workers :
       /\ SF_vars(SchedulePairs(w)) /\ SF_vars(Claim(w))
       /\ WF_vars(ScheduleSelect(w)) /\ WF_vars(ScheduleCommit(w)) /\ WF_vars(Process(w))
  /\ \A r \in Runs : WF_vars(HandlerEnqueue(r))
  /\ WF_vars(IntervalElapses)

Spec     == Init /\ [][Next]_vars
FairSpec == Spec /\ Fairness

-----------------------------------------------------------------------------
(* The runs that read the provider's items. *)
Pulls(r) == kind[r] \in {"poll", "import"}

(* Polls and imports of the pair exclude each other from the commit of     *)
(* their event until their job has left the queue, across retries, lost    *)
(* updates and crashes: the invariant that server.go 3708-3711 says the    *)
(* server must own.                                                        *)
OnePullPerPair ==
  \A r, s \in Runs : Pulls(r) /\ Pulls(s) /\ Active(r) /\ Active(s) => r = s

(* poll.go 15-18: a failed run cannot silently skip a provider change.     *)
(* What has not been reconciled is no older than the next window's start,  *)
(* whatever failed, crashed or was retried in between, though the          *)
(* provider's clock be behind by as much as the windows overlap.           *)
NothingSkipped ==
  \A c \in Changes :
    stamp[c] # NoTime /\ c \notin applied =>
      PollingSince = Full \/ stamp[c] >= PollingSince

(* The cursor never moves back, although the poll's update and the         *)
(* import's upsert overwrite it unconditionally.                           *)
CursorAdvances == [][cursor' >= cursor]_vars

(* Without faults every change made at the provider is reconciled.         *)
ChangesArrive == \A c \in Changes : stamp[c] # NoTime ~> c \in applied

(* README 109: an attached repository is polled for ever; an import, which *)
(* defers the poll by an interval, counts as one.                          *)
PullsRecur == []<>(\E w \in Workers : Works(w, "poll") \/ Works(w, "import"))

(* README 114-115: a scheduled poll never overlaps an active import or     *)
(* provider mutation for the same project/repository pair.                 *)
PollOverlapsNothing ==
  \A v, w \in Workers : Works(v, "poll") /\ pc[v] # "begin" /\ v # w =>
    ~(run[w] # NoRun /\ kind[run[w]] # "poll" /\ pc[w] \in {"list", "reconcile", "save", "push"})

=============================================================================
