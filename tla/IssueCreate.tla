---------------------------- MODULE IssueCreate ----------------------------
(***************************************************************************)
(* The provider issue of a task that was made locally: enqueueTaskIssue-   *)
(* Create of internal/httpapi/server.go, which createTask and updateTask   *)
(* call as long as the task has no link, processIssueCreate of             *)
(* internal/sync/processor.go, which makes the issue and the link, and     *)
(* the part of reconcileIssue that imports an issue without a link, for    *)
(* the provider announces the new issue while it is being linked.          *)
(*                                                                         *)
(* The sync event's delivery_id is made of task and repository, so there   *)
(* is one event, and it stands for the job; every statement is a           *)
(* transaction of its own.  Deferrals and the order of jobs are left to    *)
(* OutboxQueue, the other runs of the pair to SyncRuns.  No handler of the *)
(* server deletes a task, but the processor reckons with one that is gone  *)
(* (a row deleted by hand), so the model lets it go at any moment; the     *)
(* links name it without a foreign key and stay.                           *)
(***************************************************************************)
EXTENDS Integers, FiniteSets

CONSTANTS
  Requests,    \* API requests that can be under way together
  Jobs,        \* outbox rows
  Issues,      \* identities for the provider's issues
  Workers,
  NoJob, NoIssue,
  RetryLimit,  \* 8 in queue.go
  MaxTouches,  \* bound on the requests that create or edit the task
  MaxErrors,   \* bound on failures that leave nothing behind
  MaxLost      \* bound on answers, processes and second statements lost

ASSUME CreateAssumption ==
  /\ NoJob \notin Jobs /\ NoIssue \notin Issues
  /\ RetryLimit \in Nat \ {0} /\ MaxTouches \in Nat
  /\ MaxErrors \in Nat /\ MaxLost \in Nat
  /\ IsFiniteSet(Issues)

VARIABLES
  task,             \* the row of the task: "there" or "deleted"
  event,            \* the sync event of the creation
  rpc,              \* where each request is
  job, attempts,    \* the git.issue.create jobs
  link,             \* the issue external_links has for the task, or NoIssue
  imported,         \* the issues it has for tasks that were imported
  strays,           \* imported tasks without a link
  issues,           \* the provider's issues that came from this task
  inbox,            \* those that a webhook or a poll is about to reconcile
  pc, held, got,    \* the workers: step, job, issue
  touches, errors, lost

runVars    == <<event, job, attempts>>
localVars  == <<task, link, imported, strays>>
remoteVars == <<issues, inbox>>
workerVars == <<pc, held, got>>
bounds     == <<touches, errors, lost>>
vars == <<runVars, rpc, localVars, remoteVars, workerVars, bounds>>

Events   == {"none", "queued", "processing", "succeeded", "failed"}
JobState == {"none", "pending", "processing", "succeeded", "failed"}
Steps    == {"idle", "mark", "check", "create", "link", "done", "failed", "succeed", "retry",
             "find", "importTask", "importLink"}

Init ==
  /\ event = "none" /\ rpc = [r \in Requests |-> "idle"]
  /\ job = [j \in Jobs |-> "none"] /\ attempts = [j \in Jobs |-> 0]
  /\ task = "there" /\ link = NoIssue /\ imported = {} /\ strays = 0
  /\ issues = {} /\ inbox = {}
  /\ pc = [w \in Workers |-> "idle"] /\ held = [w \in Workers |-> NoJob]
  /\ got = [w \in Workers |-> NoIssue]
  /\ touches = 0 /\ errors = 0 /\ lost = 0

-----------------------------------------------------------------------------
Error == errors < MaxErrors /\ errors' = errors + 1 /\ UNCHANGED <<touches, lost>>
Lose  == lost < MaxLost /\ lost' = lost + 1 /\ UNCHANGED <<touches, errors>>

Reply(r, l) == rpc' = [rpc EXCEPT ![r] = l]
Goto(w, l)  == pc' = [pc EXCEPT ![w] = l]

-----------------------------------------------------------------------------
(* createTask, or updateTask of a task without a link. *)
TouchTask(r) ==
  /\ rpc[r] = "idle" /\ task = "there" /\ link = NoIssue
  /\ touches < MaxTouches /\ touches' = touches + 1
  /\ Reply(r, "insert")
  /\ UNCHANGED <<runVars, localVars, remoteVars, workerVars, errors, lost>>

(* The row of the task is deleted. *)
DeleteTask ==
  /\ task = "there" /\ task' = "deleted"
  /\ UNCHANGED <<runVars, rpc, link, imported, strays, remoteVars, workerVars, bounds>>

(* INSERT ... ON CONFLICT (delivery_id) DO NOTHING *)
InsertEvent(r) ==
  /\ rpc[r] = "insert"
  /\ event' = IF event = "none" THEN "queued" ELSE event
  /\ Reply(r, IF event = "none" THEN "enqueue" ELSE "load")
  /\ UNCHANGED <<job, attempts, localVars, remoteVars, workerVars, bounds>>

(* The event was there: only a failed one is taken up again. *)
LoadEvent(r) ==
  /\ rpc[r] = "load"
  /\ Reply(r, IF event = "failed" THEN "requeue" ELSE "idle")
  /\ UNCHANGED <<runVars, localVars, remoteVars, workerVars, bounds>>

RequeueEvent(r) ==
  /\ rpc[r] = "requeue"
  /\ event' = "queued"
  /\ Reply(r, "enqueue")
  /\ UNCHANGED <<job, attempts, localVars, remoteVars, workerVars, bounds>>

EnqueueCreate(r) ==
  /\ rpc[r] = "enqueue"
  /\ \E j \in Jobs : job[j] = "none" /\ job' = [job EXCEPT ![j] = "pending"]
  /\ Reply(r, "idle")
  /\ UNCHANGED <<event, attempts, localVars, remoteVars, workerVars, bounds>>

(* Mutant of EnqueueFails: the event is left queued. *)
EnqueueFailsSilently(r) ==
  /\ rpc[r] = "enqueue"
  /\ Error
  /\ Reply(r, "idle")
  /\ UNCHANGED <<runVars, localVars, remoteVars, workerVars>>

EnqueueFails(r) ==
  /\ rpc[r] = "enqueue"
  /\ Error
  /\ event' = "failed"
  /\ Reply(r, "idle")
  /\ UNCHANGED <<job, attempts, localVars, remoteVars, workerVars>>

(* The client goes away, which cancels the statements still to come. *)
RequestGone(r) ==
  /\ rpc[r] # "idle"
  /\ Lose
  /\ Reply(r, "idle")
  /\ UNCHANGED <<runVars, localVars, remoteVars, workerVars>>

-----------------------------------------------------------------------------
Claim(w) ==
  /\ pc[w] = "idle"
  /\ \E j \in Jobs :
       /\ job[j] = "pending"
       /\ job' = [job EXCEPT ![j] = "processing"]
       /\ attempts' = [attempts EXCEPT ![j] = @ + 1]
       /\ held' = [held EXCEPT ![w] = j]
  /\ Goto(w, "mark")
  /\ UNCHANGED <<event, rpc, localVars, remoteVars, got, bounds>>

MarkProcessing(w) ==
  /\ pc[w] = "mark"
  /\ event' = "processing"
  /\ Goto(w, "check")
  /\ UNCHANGED <<job, attempts, rpc, localVars, remoteVars, held, got, bounds>>

(* Mutant of CheckLink: a retried job does not look for the link. *)
CheckNothing(w) ==
  /\ pc[w] = "check"
  /\ Goto(w, "create")
  /\ UNCHANGED <<runVars, rpc, localVars, remoteVars, held, got, bounds>>

(* Nothing is left to make for a task that is gone or linked. *)
CheckLink(w) ==
  /\ pc[w] = "check"
  /\ Goto(w, IF task = "there" /\ link = NoIssue THEN "create" ELSE "done")
  /\ UNCHANGED <<runVars, rpc, localVars, remoteVars, held, got, bounds>>

(* The provider makes the issue, and announces it. *)
NewIssue(i) ==
  /\ i \notin issues
  /\ issues' = issues \cup {i}
  /\ inbox' = inbox \cup {i}

CreateIssue(w) ==
  /\ pc[w] = "create"
  /\ \E i \in Issues : NewIssue(i) /\ got' = [got EXCEPT ![w] = i]
  /\ Goto(w, "link")
  /\ UNCHANGED <<runVars, rpc, localVars, held, bounds>>

(* The provider makes the issue and its answer is lost. *)
CreateUnanswered(w) ==
  /\ pc[w] = "create"
  /\ Lose
  /\ \E i \in Issues : NewIssue(i)
  /\ Goto(w, "failed")
  /\ UNCHANGED <<runVars, rpc, localVars, held, got>>

(* INSERT of the link.  A link of the task is left as it is; a link of the *)
(* issue, which an import made, is an error.                               *)
SaveIssueLink(w) ==
  /\ pc[w] = "link"
  /\ IF link = NoIssue /\ got[w] \notin imported THEN link' = got[w] ELSE UNCHANGED link
  /\ Goto(w, IF link = NoIssue /\ got[w] \in imported THEN "failed" ELSE "done")
  /\ got' = [got EXCEPT ![w] = NoIssue]
  /\ UNCHANGED <<runVars, rpc, task, imported, strays, remoteVars, held, bounds>>

(* A statement or a request before the issue is made fails; until the mark *)
(* is written the deferred function is not there.                          *)
CreateFails(w) ==
  /\ pc[w] \in {"mark", "check", "create"}
  /\ Error
  /\ Goto(w, IF pc[w] = "mark" THEN "retry" ELSE "failed")
  /\ UNCHANGED <<runVars, rpc, localVars, remoteVars, held, got>>

(* The INSERT of the link fails, and nothing remembers the issue. *)
LinkFails(w) ==
  /\ pc[w] = "link"
  /\ Lose
  /\ Goto(w, "failed")
  /\ got' = [got EXCEPT ![w] = NoIssue]
  /\ UNCHANGED <<runVars, rpc, localVars, remoteVars, held>>

(* Mutant of MarkEvent: the event succeeds whatever the job did. *)
MarkSucceeded(w) ==
  /\ pc[w] \in {"done", "failed"}
  /\ event' = "succeeded"
  /\ Goto(w, IF pc[w] = "done" THEN "succeed" ELSE "retry")
  /\ UNCHANGED <<job, attempts, rpc, localVars, remoteVars, held, got, bounds>>

(* The deferred function. *)
MarkEvent(w) ==
  /\ pc[w] \in {"done", "failed"}
  /\ event' = IF pc[w] = "done" THEN "succeeded" ELSE "failed"
  /\ Goto(w, IF pc[w] = "done" THEN "succeed" ELSE "retry")
  /\ UNCHANGED <<job, attempts, rpc, localVars, remoteVars, held, got, bounds>>

(* The mark fails, which is an error of the job. *)
MarkFails(w) ==
  /\ pc[w] \in {"done", "failed"}
  /\ Error
  /\ Goto(w, "retry")
  /\ UNCHANGED <<runVars, rpc, localVars, remoteVars, held, got>>

Settle(w) ==
  /\ pc[w] \in {"succeed", "retry"}
  /\ job' = [job EXCEPT ![held[w]] =
               IF pc[w] = "succeed" THEN "succeeded"
               ELSE IF attempts[held[w]] < RetryLimit THEN "pending" ELSE "failed"]
  /\ held' = [held EXCEPT ![w] = NoJob]
  /\ Goto(w, "idle")
  /\ UNCHANGED <<event, attempts, rpc, localVars, remoteVars, got, bounds>>

(* The process dies; a claimed job stays as it is. *)
Crash(w) ==
  /\ pc[w] # "idle"
  /\ Lose
  /\ Goto(w, "idle")
  /\ held' = [held EXCEPT ![w] = NoJob]
  /\ got' = [got EXCEPT ![w] = NoIssue]
  /\ UNCHANGED <<runVars, rpc, localVars, remoteVars>>

-----------------------------------------------------------------------------
Linked(i) == link = i \/ i \in imported

(* reconcileIssue of an issue: is there a link? *)
TakeInbound(w) ==
  /\ pc[w] = "idle"
  /\ \E i \in inbox :
       /\ inbox' = inbox \ {i}
       /\ got' = [got EXCEPT ![w] = i]
  /\ Goto(w, "find")
  /\ UNCHANGED <<runVars, rpc, localVars, issues, held, bounds>>

(* Mutant of FindLink: every issue is imported. *)
FindNothing(w) ==
  /\ pc[w] = "find"
  /\ Goto(w, "importTask")
  /\ UNCHANGED <<runVars, rpc, localVars, remoteVars, held, got, bounds>>

FindLink(w) ==
  /\ pc[w] = "find"
  /\ IF Linked(got[w])
     THEN Goto(w, "idle") /\ got' = [got EXCEPT ![w] = NoIssue]
     ELSE Goto(w, "importTask") /\ UNCHANGED got
  /\ UNCHANGED <<runVars, rpc, localVars, remoteVars, held, bounds>>

ImportTask(w) ==
  /\ pc[w] = "importTask"
  /\ strays' = strays + 1
  /\ Goto(w, "importLink")
  /\ UNCHANGED <<runVars, rpc, task, link, imported, remoteVars, held, got, bounds>>

(* The second link of an issue is refused; the task stays, the delivery is *)
(* tried again.                                                            *)
ImportLink(w) ==
  /\ pc[w] = "importLink"
  /\ IF Linked(got[w])
     THEN inbox' = inbox \cup {got[w]} /\ UNCHANGED <<imported, strays>>
     ELSE imported' = imported \cup {got[w]} /\ strays' = strays - 1 /\ UNCHANGED inbox
  /\ Goto(w, "idle")
  /\ got' = [got EXCEPT ![w] = NoIssue]
  /\ UNCHANGED <<runVars, rpc, task, link, issues, held, bounds>>

Request(r) ==
  \/ TouchTask(r) \/ InsertEvent(r) \/ LoadEvent(r) \/ RequeueEvent(r)
  \/ EnqueueCreate(r) \/ EnqueueFails(r) \/ RequestGone(r)

(* What a worker does on a job when nothing goes wrong. *)
Process(w) ==
  \/ MarkProcessing(w) \/ CheckLink(w) \/ CreateIssue(w) \/ SaveIssueLink(w)
  \/ MarkEvent(w) \/ Settle(w)

Inbound(w) == FindLink(w) \/ ImportTask(w) \/ ImportLink(w)

Next ==
  \/ DeleteTask
  \/ \E r \in Requests : Request(r)
  \/ \E w \in Workers :
       \/ Claim(w) \/ Process(w) \/ TakeInbound(w) \/ Inbound(w)
       \/ CreateUnanswered(w) \/ CreateFails(w) \/ LinkFails(w) \/ MarkFails(w) \/ Crash(w)

(* A request that started goes on, and so does a worker whose provider     *)
(* answers; jobs and deliveries take turns in the queue, so neither is     *)
(* passed over for ever.                                                   *)
Fairness ==
  /\ \A r \in Requests :
       WF_vars(InsertEvent(r) \/ LoadEvent(r) \/ RequeueEvent(r) \/ EnqueueCreate(r))
  /\ \A w \in Workers :
       SF_vars(Claim(w)) /\ SF_vars(TakeInbound(w)) /\ WF_vars(Process(w) \/ Inbound(w))

Spec     == Init /\ [][Next]_vars
FairSpec == Spec /\ Fairness

-----------------------------------------------------------------------------
(* Every issue but the first was paid for by a lost answer, a lost link or *)
(* a crash: no retry, no edit and no requeued event makes one.             *)
IssuesExplained == Cardinality(issues) <= 1 + lost

(* The same for the second local task of an issue, linked or stray.        *)
TwinsExplained ==
  Cardinality(imported) + strays
    <= lost + Cardinality({w \in Workers : pc[w] = "importLink"})

(* processor.go 1632: a job does not make an issue after the link is there. *)
NoCreateAfterLink == [][issues' # issues => link = NoIssue]_vars

(* processor.go 1607-1624: a run that the history shows as succeeded has   *)
(* linked the task, whatever failed, was retried or imported in between;   *)
(* only for a task that is gone does it succeed without a link.            *)
SucceededIsLinked == event = "succeeded" => link # NoIssue \/ task = "deleted"

(* When the errors are fewer than a job's attempts, and no process or      *)
(* request is lost, a run that the history shows as open comes to an end:  *)
(* every path that gives up also marks the event (server.go 1729-1745,     *)
(* processor.go 1607-1617).                                                *)
RunEnds == event \in {"queued", "processing"} ~> event \in {"succeeded", "failed"} \/ lost > 0

(* server.go 1697-1698: the existing event owns the worker job, which      *)
(* makes task updates before the first create completes duplicate-free.    *)
DuplicateFree == Cardinality(issues) <= 1

=============================================================================
