--------------------------- MODULE WebhookIntake ----------------------------
(***************************************************************************)
(* The deliveries of the providers' webhooks: githubWebhook and gitlab-    *)
(* Webhook of internal/httpapi/server.go, which record a delivery once and *)
(* enqueue a job for it, and processGitHubWebhook of internal/sync/        *)
(* processor.go with its GitLab counterpart, which find the repository and *)
(* the project it concerns and reconcile it.  A provider sends a delivery  *)
(* again when it was refused or on demand, so a delivery can have several  *)
(* jobs, and several workers.                                              *)
(*                                                                         *)
(* Every statement is a step.  What reconciling does is left to IssueSync, *)
(* the order and the delay of jobs to OutboxQueue.  Requests that do not   *)
(* parse or whose signature no secret explains change nothing.             *)
(***************************************************************************)
EXTENDS Naturals, FiniteSets

CONSTANTS
    WhRequests,    \* requests of the providers
    WhDelivery,    \* the delivery each carries
    WhWorkers,
    WhRetryLimit,  \* 8 in queue.go
    NoRequest,
    WhScenes       \* bounds: the provider, the repository at first, what may fail

ASSUME WhAssumption ==
    /\ NoRequest \notin WhRequests /\ IsFiniteSet(WhWorkers)
    /\ WhRetryLimit \in Nat \ {0}

VARIABLES
    whEvent,       \* the sync event of each delivery
    whRpc,         \* where the handler of each request is
    whJob, whTried,  \* the job a request enqueued, and its attempts
    whPc, whHeld,  \* the workers: step, and the request whose job they hold
    whGit,         \* the repository: "none" (no active connection), "connected", "attached"
    whApplied,     \* how often each delivery was reconciled without an error
    whDismissed,   \* deliveries that were found to concern no project
    whExcuses,     \* per delivery: successes that went unrecorded, jobs that overlapped
    whLeft         \* the scene, less what happened of it

whQueue == <<whJob, whTried>>
whWork  == <<whPc, whHeld>>
whBooks == <<whApplied, whDismissed, whExcuses>>
whVars  == <<whEvent, whRpc, whQueue, whWork, whGit, whBooks, whLeft>>

WhDeliveries == {WhDelivery[r] : r \in WhRequests}

WhSpend(what) == whLeft[what] > 0 /\ whLeft' = [whLeft EXCEPT ![what] = @ - 1]
Handler(r, at) == whRpc' = [whRpc EXCEPT ![r] = at]
Worker(w, at) == whPc' = [whPc EXCEPT ![w] = at]
SetSyncEvent(d, status) == whEvent' = [whEvent EXCEPT ![d] = status]
Excuse(d) == whExcuses' = [whExcuses EXCEPT ![d] = @ + 1]

-----------------------------------------------------------------------------
(* The handlers of the two endpoints *)

\* The connection whose secret signed the request, or for GitHub the global secret.
ReceiveWebhook(r) ==
    /\ whRpc[r] = "none"
    /\ whGit = "none" => whLeft.provider = "github" /\ whLeft.global
    /\ Handler(r, "insert")
    /\ UNCHANGED <<whEvent, whQueue, whWork, whGit, whBooks, whLeft>>

\* ON CONFLICT (delivery_id) DO NOTHING.
InsertDelivery(r) ==
    /\ whRpc[r] = "insert"
    /\ \/ /\ whEvent[WhDelivery[r]] = "none"
          /\ SetSyncEvent(WhDelivery[r], "queued") /\ Handler(r, "enqueue")
       \/ /\ whEvent[WhDelivery[r]] # "none"
          /\ Handler(r, "existing") /\ UNCHANGED whEvent
    /\ UNCHANGED <<whQueue, whWork, whGit, whBooks, whLeft>>

(* Mutant of LoadExisting: any duplicate is taken for done. *)
LoadExistingUnasked(r) ==
    /\ whRpc[r] = "existing" /\ Handler(r, "accepted")
    /\ UNCHANGED <<whEvent, whQueue, whWork, whGit, whBooks, whLeft>>

LoadExisting(r) ==
    /\ whRpc[r] = "existing"
    /\ Handler(r, IF whEvent[WhDelivery[r]] = "succeeded" THEN "accepted" ELSE "enqueue")
    /\ UNCHANGED <<whEvent, whQueue, whWork, whGit, whBooks, whLeft>>

EnqueueDelivery(r) ==
    /\ whRpc[r] = "enqueue"
    /\ whJob' = [whJob EXCEPT ![r] = "pending"] /\ Handler(r, "accepted")
    /\ UNCHANGED <<whEvent, whTried, whWork, whGit, whBooks, whLeft>>

EnqueueDeliveryFails(r) ==
    /\ whRpc[r] = "enqueue" /\ WhSpend("errors") /\ Handler(r, "mark")
    /\ UNCHANGED <<whEvent, whQueue, whWork, whGit, whBooks>>

\* Whatever has become of the delivery meanwhile.
MarkUnqueued(r) ==
    /\ whRpc[r] = "mark"
    /\ SetSyncEvent(WhDelivery[r], "failed") /\ Handler(r, "refused")
    /\ Excuse(WhDelivery[r])
    /\ UNCHANGED <<whQueue, whWork, whGit, whApplied, whDismissed, whLeft>>

\* A statement fails, or the process ends.
HandlerStops(r) ==
    /\ whRpc[r] \in {"insert", "existing", "enqueue", "mark"}
    /\ WhSpend("faults") /\ Handler(r, "refused")
    /\ UNCHANGED <<whEvent, whQueue, whWork, whGit, whBooks>>

-----------------------------------------------------------------------------
(* The worker on a git.webhook job *)

OnDelivery(w) == WhDelivery[whHeld[w]]
Busy == {"start", "resolve", "stamp", "project", "reconcile", "succeed", "skip", "fail"}
Beside(w) == \E v \in WhWorkers \ {w} : whPc[v] \in Busy /\ OnDelivery(v) = OnDelivery(w)

ClaimDelivery(w, r) ==
    /\ whPc[w] = "idle" /\ whJob[r] = "pending"
    /\ whJob' = [whJob EXCEPT ![r] = "processing"] /\ whTried' = [whTried EXCEPT ![r] = @ + 1]
    /\ whHeld' = [whHeld EXCEPT ![w] = r] /\ Worker(w, "load")
    /\ UNCHANGED <<whEvent, whRpc, whGit, whBooks, whLeft>>

(* Mutant of LoadDelivery: a delivery that succeeded is taken up again. *)
LoadDeliveryAgain(w) ==
    /\ whPc[w] = "load" /\ Worker(w, "start")
    /\ IF Beside(w) THEN Excuse(OnDelivery(w)) ELSE UNCHANGED whExcuses
    /\ UNCHANGED <<whEvent, whRpc, whQueue, whHeld, whGit, whApplied, whDismissed, whLeft>>

LoadDelivery(w) ==
    /\ whPc[w] = "load"
    /\ \/ /\ whEvent[OnDelivery(w)] = "succeeded"
          /\ Worker(w, "done") /\ UNCHANGED whExcuses
       \/ /\ whEvent[OnDelivery(w)] # "succeeded"
          /\ Worker(w, "start")
          /\ IF Beside(w) THEN Excuse(OnDelivery(w)) ELSE UNCHANGED whExcuses
    /\ UNCHANGED <<whEvent, whRpc, whQueue, whHeld, whGit, whApplied, whDismissed, whLeft>>

\* First without, then (GitHub) with the tenant and connection that were found.
MarkProcessing(w) ==
    /\ \/ whPc[w] = "start" /\ Worker(w, "resolve")
       \/ whPc[w] = "stamp" /\ Worker(w, "project")
    /\ SetSyncEvent(OnDelivery(w), "processing")
    /\ UNCHANGED <<whRpc, whQueue, whHeld, whGit, whBooks, whLeft>>

ResolveRepository(w) ==
    /\ whPc[w] = "resolve"
    /\ Worker(w, CASE whLeft.provider = "github" -> IF whGit = "none" THEN "skip" ELSE "stamp"
                   [] OTHER -> IF whGit = "none" THEN "fail" ELSE "project")
    /\ UNCHANGED <<whEvent, whRpc, whQueue, whHeld, whGit, whBooks, whLeft>>

FindProject(w) ==
    /\ whPc[w] = "project"
    /\ \/ whGit = "attached" /\ Worker(w, "reconcile") /\ UNCHANGED whDismissed
       \/ /\ whGit # "attached" /\ Worker(w, "succeed")
          /\ whDismissed' = whDismissed \cup {OnDelivery(w)}
    /\ UNCHANGED <<whEvent, whRpc, whQueue, whHeld, whGit, whApplied, whExcuses, whLeft>>

Reconcile(w) ==
    /\ whPc[w] = "reconcile" /\ Worker(w, "succeed")
    /\ whApplied' = [whApplied EXCEPT ![OnDelivery(w)] = @ + 1]
    /\ UNCHANGED <<whEvent, whRpc, whQueue, whHeld, whGit, whDismissed, whExcuses, whLeft>>

\* A statement fails, or reconciling returns an error or panics.  GitHub's lookup of the
\* connection takes an error for no match.
StepFails(w) ==
    /\ WhSpend("errors")
    /\ \/ whPc[w] \in {"load", "start", "stamp"} /\ Worker(w, "error")
       \/ whPc[w] = "resolve" /\ whLeft.provider = "github" /\ Worker(w, "skip")
       \/ whPc[w] \in {"resolve", "project", "reconcile"} /\ Worker(w, "fail")
    /\ UNCHANGED <<whEvent, whRpc, whQueue, whHeld, whGit, whBooks>>

MarkEnd(w) ==
    /\ \/ /\ whPc[w] = "succeed" /\ SetSyncEvent(OnDelivery(w), "succeeded")
          /\ Worker(w, "done") /\ UNCHANGED whDismissed
       \/ /\ whPc[w] = "skip" /\ SetSyncEvent(OnDelivery(w), "succeeded")
          /\ Worker(w, "done") /\ whDismissed' = whDismissed \cup {OnDelivery(w)}
       \/ /\ whPc[w] = "fail" /\ SetSyncEvent(OnDelivery(w), "failed")
          /\ Worker(w, "error") /\ UNCHANGED whDismissed
    /\ UNCHANGED <<whRpc, whQueue, whHeld, whGit, whApplied, whExcuses, whLeft>>

\* The mark of a delivery without a match may fail unnoticed.
MarkEndFails(w) ==
    /\ WhSpend("errors")
    /\ \/ /\ whPc[w] = "succeed" /\ Worker(w, "error")
          /\ Excuse(OnDelivery(w)) /\ UNCHANGED whDismissed
       \/ /\ whPc[w] = "skip" /\ Worker(w, "done")
          /\ whDismissed' = whDismissed \cup {OnDelivery(w)} /\ UNCHANGED whExcuses
       \/ whPc[w] = "fail" /\ Worker(w, "error") /\ UNCHANGED <<whDismissed, whExcuses>>
    /\ UNCHANGED <<whEvent, whRpc, whQueue, whHeld, whGit, whApplied>>

SettleDelivery(w) ==
    /\ whPc[w] \in {"done", "error"}
    /\ whJob' = [whJob EXCEPT ![whHeld[w]] =
                   CASE whPc[w] = "done" -> "succeeded"
                     [] whTried[whHeld[w]] >= WhRetryLimit -> "failed"
                     [] OTHER -> "pending"]
    /\ Worker(w, "idle") /\ whHeld' = [whHeld EXCEPT ![w] = NoRequest]
    /\ UNCHANGED <<whEvent, whRpc, whTried, whGit, whBooks, whLeft>>

\* The process ends, or the outcome is not written: the job stays processing.
WorkerEnds(w) ==
    /\ whPc[w] # "idle" /\ WhSpend("faults")
    /\ Worker(w, "idle") /\ whHeld' = [whHeld EXCEPT ![w] = NoRequest]
    /\ IF whPc[w] = "succeed" THEN Excuse(OnDelivery(w)) ELSE UNCHANGED whExcuses
    /\ UNCHANGED <<whEvent, whRpc, whQueue, whGit, whApplied, whDismissed>>

(* Connections and repositories come and go. *)
GitChanges ==
    /\ WhSpend("changes") /\ whGit' \in {"none", "connected", "attached"} \ {whGit}
    /\ UNCHANGED <<whEvent, whRpc, whQueue, whWork, whBooks>>

-----------------------------------------------------------------------------
WhInit ==
    /\ whLeft \in WhScenes /\ whGit = whLeft.git
    /\ whEvent = [d \in WhDeliveries |-> "none"] /\ whRpc = [r \in WhRequests |-> "none"]
    /\ whJob = [r \in WhRequests |-> "none"] /\ whTried = [r \in WhRequests |-> 0]
    /\ whPc = [w \in WhWorkers |-> "idle"] /\ whHeld = [w \in WhWorkers |-> NoRequest]
    /\ whApplied = [d \in WhDeliveries |-> 0] /\ whExcuses = [d \in WhDeliveries |-> 0]
    /\ whDismissed = {}

Handling(r) ==
    \/ ReceiveWebhook(r) \/ InsertDelivery(r) \/ LoadExisting(r) \/ EnqueueDelivery(r)
    \/ EnqueueDeliveryFails(r) \/ MarkUnqueued(r) \/ HandlerStops(r)
Working(w) ==
    \/ LoadDelivery(w) \/ MarkProcessing(w) \/ ResolveRepository(w) \/ FindProject(w)
    \/ Reconcile(w) \/ StepFails(w) \/ MarkEnd(w) \/ MarkEndFails(w)
    \/ SettleDelivery(w) \/ WorkerEnds(w)

WhNext ==
    \/ GitChanges
    \/ \E r \in WhRequests : Handling(r)
    \/ \E w \in WhWorkers : Working(w) \/ \E r \in WhRequests : ClaimDelivery(w, r)

WhSpec == WhInit /\ [][WhNext]_whVars

-----------------------------------------------------------------------------
(* Properties *)

\* A delivery that was answered with 202 is reconciled, found to concern no project, given
\* up after the last attempt, or has a job that is still to be processed: whatever failed
\* when it came first, whether this is the first or a later request that brings it, and
\* though a request that meets a success enqueues nothing.
AcceptedIsKept ==
    \A r \in WhRequests : whRpc[r] = "accepted" =>
      LET d == WhDelivery[r]
      IN  \/ whApplied[d] > 0 \/ d \in whDismissed
          \/ \E q \in WhRequests :
               /\ WhDelivery[q] = d
               /\ \/ whJob[q] \in {"pending", "processing"}
                  \/ whJob[q] = "failed" /\ whTried[q] >= WhRetryLimit

\* "delivery IDs are deduplicated" (README 66): however often a delivery is sent, it is
\* reconciled once, unless its success could not be recorded, a handler that could not
\* enqueue it marked it failed, or two workers were on it at the same time.
EffectsExplained == \A d \in WhDeliveries : whApplied[d] <= 1 + whExcuses[d]
=============================================================================
