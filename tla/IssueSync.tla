----------------------------- MODULE IssueSync -----------------------------
(***************************************************************************)
(* One task linked to one provider issue, kept in agreement by the worker: *)
(* reconcileIssue, processIssueUpdate and processConflictResolution of     *)
(* internal/sync/processor.go, with the API's updateTask and               *)
(* resolveConflict, which start them.                                      *)
(*                                                                         *)
(* The link keeps the base of a three-way merge: the fields as the         *)
(* provider last had them and when.  A worker reads link, task, provider   *)
(* and conflicts in statements of their own and writes them one after the  *)
(* other outside any transaction, so every read here is an action and so   *)
(* is every write.                                                         *)
(*                                                                         *)
(* A field's value is one of a few; which provider value stands for which  *)
(* local one (state and status, login and user) is left out, so every      *)
(* login has a user.  The queue's crashes are the subject of OutboxQueue;  *)
(* here a step may fail, and its job is then tried again.                  *)
(***************************************************************************)
EXTENDS Integers, FiniteSets

CONSTANTS
  Fields,        \* the synchronized fields
  StatusFields,  \* those written locally only when the provider changed them
  LabelFields,   \* those in a table of their own, outside the task's version
  OmittedFields, \* those an update leaves out when empty (GitHub's body)
  FlaggedFields, \* those an update carries only when its job says so (assignees)
  Values, Empty, \* what a field may hold, and what it holds when cleared
  NoRow,         \* what a worker that resolves no conflict has
  Workers, Users,
  Resolutions,   \* the ways users resolve conflicts: "local", "remote", "ignore"
  MaxTime,       \* bound on the clock, so on edits and other stamped writes
  MaxJobs,       \* bound on the update jobs that wait
  MaxErrors      \* bound on statements that fail

ASSUME SyncAssumption ==
  /\ StatusFields \subseteq Fields /\ LabelFields \subseteq Fields
  /\ OmittedFields \subseteq Fields /\ FlaggedFields \subseteq Fields
  /\ StatusFields \cap (LabelFields \cup OmittedFields \cup FlaggedFields) = {}
  /\ FlaggedFields \cap LabelFields = {}
  /\ Empty \in Values
  /\ Resolutions \subseteq {"local", "remote", "ignore"}
  /\ MaxTime \in Nat \ {0} /\ MaxJobs \in Nat /\ MaxErrors \in Nat

VARIABLES
  task, taskAt, version,  \* the task row (and its labels): fields, updated_at, version
  base, linkAt,           \* external_links: field_snapshot, remote_updated_at
  remote, remoteAt,       \* the provider's issue: fields, updated_at
  conflicts,              \* rows of sync_conflicts
  inbox,                  \* snapshots in webhook events or poll listings not yet done
  updates,                \* how many git.issue.update jobs wait, by what they carry
  resolves,               \* the git.conflict.resolved jobs that wait
  pc, snap, read, link, row, scope, \* the workers: what they do and what they have read
  upc, seen, edited,      \* the users: what they do, see, and have just saved
  clock, errors,
  lost, unsent, tied      \* history: see below

(* History.  lost: the fields of edits whose job was not queued, since the *)
(* task was last read for a push.  unsent: the fields in which the last    *)
(* push left the provider's value standing.  tied: the provider's last two *)
(* states have the same stamp.                                             *)

taskVars     == <<task, taskAt, version>>
linkVars     == <<base, linkAt>>
providerVars == <<remote, remoteAt>>
jobVars      == <<inbox, updates, resolves>>
workerVars   == <<pc, snap, read, link, row, scope>>
userVars     == <<upc, seen, edited>>
historyVars  == <<lost, unsent, tied>>
vars == <<taskVars, linkVars, providerVars, conflicts, jobVars, workerVars, userVars,
          clock, errors, historyVars>>

Times     == 1..MaxTime
Contents  == [Fields -> Values]
Scopes    == {"all", "rest"}   \* with the assignees, and without (assigneeChanged)
Statuses  == {"open", "resolved", "ignored"}
Rows      == [field : Fields, status : Statuses, local : Values, remote : Values, at : Times,
              resolution : {"none", "local", "remote", "ignore"}]

(* What a process that has read nothing holds. *)
Blank == [value |-> [f \in Fields |-> CHOOSE v \in Values : TRUE], at |-> 1]
Unseen == [value |-> Blank.value, version |-> 0]

(* Just imported: task, base and provider agree. *)
Init ==
  /\ task = Blank.value /\ taskAt = 1 /\ version = 1
  /\ base = task /\ linkAt = 1
  /\ remote = task /\ remoteAt = 1
  /\ conflicts = {} /\ inbox = {} /\ resolves = {}
  /\ updates = [carried \in Scopes |-> 0]
  /\ pc = [w \in Workers |-> "idle"]
  /\ snap = [w \in Workers |-> Blank] /\ read = [w \in Workers |-> Blank]
  /\ link = [w \in Workers |-> Blank] /\ row = [w \in Workers |-> NoRow]
  /\ scope = [w \in Workers |-> "rest"]
  /\ upc = [u \in Users |-> "idle"] /\ seen = [u \in Users |-> Unseen]
  /\ edited = [u \in Users |-> NoRow]
  /\ clock = 1 /\ errors = 0
  /\ lost = {} /\ unsent = {} /\ tied = FALSE

-----------------------------------------------------------------------------
(* The task's stamp, in fractions of a second, is later than those before. *)
Stamp == clock < MaxTime /\ clock' = clock + 1

(* The provider's is cut to whole seconds: it may lie before stamps of the *)
(* task, or be the one of the provider's own last change.                  *)
RemoteStamp ==
  /\ Stamp
  /\ remoteAt' \in remoteAt..clock'
  /\ tied' = (remoteAt' = remoteAt)

Goto(w, l) == pc' = [pc EXCEPT ![w] = l]

(* The worker is done and keeps nothing of what it read. *)
Rest(w) ==
  /\ Goto(w, "idle")
  /\ snap' = [snap EXCEPT ![w] = Blank]
  /\ read' = [read EXCEPT ![w] = Blank]
  /\ link' = [link EXCEPT ![w] = Blank]
  /\ row' = [row EXCEPT ![w] = NoRow]
  /\ scope' = [scope EXCEPT ![w] = "rest"]

(* Enqueue of git.issue.update for a change of field f. *)
Scope(f) == IF f \in FlaggedFields THEN "all" ELSE "rest"
Queued(carried) ==
  /\ updates["all"] + updates["rest"] < MaxJobs
  /\ updates' = [updates EXCEPT ![carried] = @ + 1]

Row(f, status) == {r \in conflicts : r.field = f /\ r.status = status}
Open(f) == Row(f, "open") # {}

-----------------------------------------------------------------------------
(* Somebody edits the issue at the provider, which sends a webhook. *)
RemoteEdit ==
  /\ RemoteStamp
  /\ \E f \in Fields, v \in Values :
       v # remote[f] /\ remote' = [remote EXCEPT ![f] = v]
  /\ inbox' = inbox \cup {[value |-> remote', at |-> remoteAt']}
  /\ UNCHANGED <<taskVars, linkVars, conflicts, updates, resolves, workerVars, userVars, errors,
                 lost, unsent>>

(* A poll or an import lists the issue as it is now. *)
ListIssue ==
  /\ inbox' = inbox \cup {[value |-> remote, at |-> remoteAt]}
  /\ UNCHANGED <<taskVars, linkVars, providerVars, conflicts, updates, resolves,
                 workerVars, userVars, clock, errors, historyVars>>

-----------------------------------------------------------------------------
(* A user opens the task; the page keeps its version. *)
UserOpens(u) ==
  /\ upc[u] = "idle"
  /\ upc' = [upc EXCEPT ![u] = "editing"]
  /\ seen' = [seen EXCEPT ![u] = [value |-> task, version |-> version]]
  /\ UNCHANGED <<taskVars, linkVars, providerVars, conflicts, jobVars, workerVars, edited,
                 clock, errors, historyVars>>

(* updateTask up to its UPDATE, which names the version the user saw.  A   *)
(* client of the API may leave it out, which is read as 0 and stands for   *)
(* the version the row has.  The labels, written by the next statement,    *)
(* are taken with the rest.                                                *)
UpdateTask(u) ==
  /\ upc[u] = "editing"
  /\ \E named \in {seen[u].version, 0} :
       \/ /\ named \in {version, 0}
          /\ Stamp
          /\ \E f \in Fields, v \in Values :
               /\ v # seen[u].value[f] /\ task' = [task EXCEPT ![f] = v]
               /\ edited' = [edited EXCEPT ![u] = [field |-> f, version |-> named]]
          /\ taskAt' = clock'
          /\ version' = version + 1
          /\ upc' = [upc EXCEPT ![u] = "saved"]
       \/ /\ named \notin {version, 0}        \* 409
          /\ upc' = [upc EXCEPT ![u] = "idle"]
          /\ UNCHANGED <<taskVars, edited, clock>>
  /\ seen' = [seen EXCEPT ![u] = Unseen]
  /\ UNCHANGED <<linkVars, providerVars, conflicts, jobVars, workerVars, errors, historyVars>>

(* The rest of updateTask: the job of a linked task.  That a statement     *)
(* after the UPDATE, the look for the link or Enqueue failed is logged at  *)
(* most, and the edit stays.                                               *)
EnqueueUpdate(u) ==
  /\ upc[u] = "saved"
  /\ \/ Queued(Scope(edited[u].field)) /\ UNCHANGED lost
     \/ lost' = lost \cup {edited[u].field} /\ UNCHANGED updates
  /\ upc' = [upc EXCEPT ![u] = "idle"]
  /\ edited' = [edited EXCEPT ![u] = NoRow]
  /\ UNCHANGED <<taskVars, linkVars, providerVars, conflicts, inbox, resolves, workerVars,
                 seen, clock, errors, unsent, tied>>

(* resolveConflict of an open row.  UNIQUE (link, field, status) refuses a *)
(* second row of the field with the same outcome.                          *)
ResolveConflict(r) ==
  /\ r \in conflicts /\ r.status = "open"
  /\ \E how \in Resolutions :
       LET done == [r EXCEPT !.status = IF how = "ignore" THEN "ignored" ELSE "resolved",
                             !.resolution = how]
       IN  /\ Row(r.field, done.status) = {}
           /\ conflicts' = (conflicts \ {r}) \cup {done}
           /\ resolves' = resolves \cup {done}
  /\ UNCHANGED <<taskVars, linkVars, providerVars, inbox, updates, workerVars, userVars,
                 clock, errors, historyVars>>

-----------------------------------------------------------------------------
(* Mutant of LoadLink: a stale delivery is not turned away. *)
LoadLinkAlways(w) ==
  /\ pc[w] = "idle"
  /\ \E s \in inbox :
       /\ inbox' = inbox \ {s}
       /\ Goto(w, "load")
       /\ snap' = [snap EXCEPT ![w] = s]
       /\ link' = [link EXCEPT ![w] = [value |-> base, at |-> linkAt]]
       /\ UNCHANGED <<read, row, scope>>
  /\ UNCHANGED <<taskVars, linkVars, providerVars, conflicts, updates, resolves, userVars,
                 clock, errors, historyVars>>

(* reconcileIssue of a snapshot: load the link, and leave when the         *)
(* snapshot is not newer than what the link has.                           *)
LoadLink(w) ==
  /\ pc[w] = "idle"
  /\ \E s \in inbox :
       /\ inbox' = inbox \ {s}
       /\ IF s.at <= linkAt THEN UNCHANGED workerVars
          ELSE /\ Goto(w, "load")
               /\ snap' = [snap EXCEPT ![w] = s]
               /\ link' = [link EXCEPT ![w] = [value |-> base, at |-> linkAt]]
               /\ UNCHANGED <<read, row, scope>>
  /\ UNCHANGED <<taskVars, linkVars, providerVars, conflicts, updates, resolves, userVars,
                 clock, errors, historyVars>>

LoadTask(w) ==
  /\ pc[w] = "load"
  /\ read' = [read EXCEPT ![w] = [value |-> task, at |-> taskAt]]
  /\ Goto(w, "merge")
  /\ UNCHANGED <<taskVars, linkVars, providerVars, conflicts, jobVars, snap, link, row, scope,
                 userVars, clock, errors, historyVars>>

(* A task without an assignee counts as having the one of the base.        *)
Local(w, f) ==
  IF f \in FlaggedFields /\ read[w].value[f] = Empty THEN link[w].value[f] ELSE read[w].value[f]

RemoteChanged(w, f) == link[w].value[f] # snap[w].value[f]
LocalChanged(w, f)  == link[w].value[f] # Local(w, f)

(* The fields in conflict: changed on both sides, the task since the last  *)
(* snapshot.                                                               *)
Blocked(w) ==
  {f \in Fields : RemoteChanged(w, f) /\ LocalChanged(w, f) /\ read[w].at > link[w].at}

(* The fields the provider's value is written to. *)
Taken(w) ==
  {f \in Fields \ Blocked(w) :
     /\ Local(w, f) # snap[w].value[f]
     /\ f \in StatusFields => RemoteChanged(w, f)}

(* What becomes of the base: a field in conflict keeps its own. *)
Merged(w) ==
  [f \in Fields |-> IF f \in Blocked(w) THEN link[w].value[f] ELSE snap[w].value[f]]

(* upsertConflict for each field in conflict. *)
SaveConflicts(w) ==
  /\ pc[w] = "merge"
  /\ conflicts' =
       {r \in conflicts : r.status # "open" \/ r.field \notin Blocked(w)} \cup
       {[field |-> f, status |-> "open", local |-> read[w].value[f],
         remote |-> snap[w].value[f], at |-> snap[w].at, resolution |-> "none"] :
          f \in Blocked(w)}
  /\ Goto(w, "task")
  /\ UNCHANGED <<taskVars, linkVars, providerVars, jobVars, snap, read, link, row,
                 scope, userVars, clock, errors, historyVars>>

(* What UPDATE tasks SET f = snap[f] for every f of fields does. *)
WriteTask(fields, value) ==
  /\ Stamp
  /\ task' = [f \in Fields |-> IF f \in fields THEN value[f] ELSE task[f]]
  /\ taskAt' = clock'
  /\ version' = version + 1

(* Mutant of SaveTask: the version is left to the users. *)
SaveTaskUnversioned(w) ==
  /\ pc[w] = "task"
  /\ LET fields == Taken(w) \ LabelFields IN
       IF fields = {} THEN UNCHANGED <<taskVars, clock>>
       ELSE /\ Stamp
            /\ task' = [f \in Fields |-> IF f \in fields THEN snap[w].value[f] ELSE task[f]]
            /\ taskAt' = clock'
            /\ UNCHANGED version
  /\ Goto(w, "labels")
  /\ UNCHANGED <<linkVars, providerVars, conflicts, jobVars, snap, read, link, row, scope, userVars,
                 errors, historyVars>>

SaveTask(w) ==
  /\ pc[w] = "task"
  /\ LET fields == Taken(w) \ LabelFields IN
       IF fields = {} THEN UNCHANGED <<taskVars, clock>> ELSE WriteTask(fields, snap[w].value)
  /\ Goto(w, "labels")
  /\ UNCHANGED <<linkVars, providerVars, conflicts, jobVars, snap, read, link, row, scope, userVars,
                 errors, historyVars>>

(* replaceTaskLabels: neither updated_at nor version moves. *)
SaveLabels(w) ==
  /\ pc[w] = "labels"
  /\ task' = [f \in Fields |-> IF f \in Taken(w) \cap LabelFields THEN snap[w].value[f]
                                                                  ELSE task[f]]
  /\ Goto(w, "link")
  /\ UNCHANGED <<taskAt, version, linkVars, providerVars, conflicts, jobVars, snap, read,
                 link, row, scope, userVars, clock, errors, historyVars>>

(* updateExternalLink, without a condition. *)
SaveLink(w) ==
  /\ pc[w] = "link"
  /\ base' = Merged(w)
  /\ linkAt' = snap[w].at
  /\ Rest(w)
  /\ UNCHANGED <<taskVars, providerVars, conflicts, jobVars, userVars, clock, errors, historyVars>>

-----------------------------------------------------------------------------
(* processIssueUpdate: read the task, send it, keep the answer. *)
TakeUpdate(w) ==
  /\ pc[w] = "idle"
  /\ \E carried \in Scopes :
       /\ updates[carried] > 0
       /\ updates' = [updates EXCEPT ![carried] = @ - 1]
       /\ scope' = [scope EXCEPT ![w] = carried]
  /\ read' = [read EXCEPT ![w] = [value |-> task, at |-> taskAt]]
  /\ lost' = {}
  /\ Goto(w, "push")
  /\ UNCHANGED <<taskVars, linkVars, providerVars, conflicts, inbox, resolves, snap, link,
                 row, userVars, clock, errors, unsent, tied>>

(* What the patch carries. *)
Sent(w) ==
  {f \in Fields : /\ f \in OmittedFields => read[w].value[f] # Empty
                  /\ f \in FlaggedFields => scope[w] = "all"}
Patched(w) == [f \in Fields |-> IF f \in Sent(w) THEN read[w].value[f] ELSE remote[f]]

(* The provider stamps the issue, and sends a webhook, when it changed. *)
Push(w) ==
  /\ pc[w] = "push"
  /\ IF Patched(w) = remote THEN UNCHANGED <<providerVars, inbox, clock, tied>>
     ELSE /\ RemoteStamp
          /\ remote' = Patched(w)
          /\ inbox' = inbox \cup {[value |-> remote', at |-> remoteAt']}
  /\ snap' = [snap EXCEPT ![w] = [value |-> remote', at |-> remoteAt']]
  /\ unsent' = {f \in Fields : remote'[f] # read[w].value[f]}
  /\ Goto(w, "pushed")
  /\ UNCHANGED <<taskVars, linkVars, conflicts, updates, resolves, read, link, row, scope,
                 userVars, errors, lost>>

(* Mutant of SavePushed: the base takes what was to be sent. *)
SavePushedAsRead(w) ==
  /\ pc[w] = "pushed"
  /\ base' = read[w].value
  /\ linkAt' = snap[w].at
  /\ Rest(w)
  /\ UNCHANGED <<taskVars, providerVars, conflicts, jobVars, userVars, clock, errors, historyVars>>

SavePushed(w) ==
  /\ pc[w] = "pushed"
  /\ base' = snap[w].value
  /\ linkAt' = snap[w].at
  /\ Rest(w)
  /\ UNCHANGED <<taskVars, providerVars, conflicts, jobVars, userVars, clock, errors, historyVars>>

-----------------------------------------------------------------------------
(* processConflictResolution.  A "local" resolution queues another push;   *)
(* the others go on with the link as it is now.                            *)
TakeResolve(w) ==
  /\ pc[w] = "idle"
  /\ \E r \in resolves :
       /\ resolves' = resolves \ {r}
       /\ IF r.resolution = "local"
          THEN Queued(Scope(r.field)) /\ UNCHANGED workerVars
          ELSE /\ Goto(w, IF r.resolution = "remote" THEN "apply" ELSE "applied")
               /\ link' = [link EXCEPT ![w] = [value |-> base, at |-> linkAt]]
               /\ row' = [row EXCEPT ![w] = r]
               /\ UNCHANGED <<updates, snap, read, scope>>
  /\ UNCHANGED <<taskVars, linkVars, providerVars, conflicts, inbox, userVars, clock, errors,
                 historyVars>>

(* applyRemoteConflict *)
ApplyRemote(w) ==
  /\ pc[w] = "apply"
  /\ LET r == row[w] IN
       IF r.field \in LabelFields
       THEN task' = [task EXCEPT ![r.field] = r.remote] /\ UNCHANGED <<taskAt, version, clock>>
       ELSE WriteTask({r.field}, [Blank.value EXCEPT ![r.field] = r.remote])
  /\ Goto(w, "applied")
  /\ UNCHANGED <<linkVars, providerVars, conflicts, jobVars, snap, read, link, row, scope, userVars,
                 errors, historyVars>>

(* The base takes the row's value, and the row's time. *)
SaveResolved(w) ==
  /\ pc[w] = "applied"
  /\ base' = [link[w].value EXCEPT ![row[w].field] = row[w].remote]
  /\ linkAt' = row[w].at
  /\ Rest(w)
  /\ UNCHANGED <<taskVars, providerVars, conflicts, jobVars, userVars, clock, errors, historyVars>>

(* Mutant of StepFails: a failed push is not tried again. *)
StepFailsForGood(w) ==
  /\ pc[w] # "idle"
  /\ errors < MaxErrors
  /\ errors' = errors + 1
  /\ \/ /\ pc[w] \in {"load", "merge", "task", "labels", "link"}
        /\ inbox' = inbox \cup {snap[w]}
        /\ UNCHANGED resolves
     \/ /\ pc[w] \in {"push", "pushed"}
        /\ UNCHANGED <<inbox, resolves>>
     \/ /\ pc[w] \in {"apply", "applied"}
        /\ resolves' = resolves \cup {row[w]}
        /\ UNCHANGED inbox
  /\ Rest(w)
  /\ UNCHANGED <<taskVars, linkVars, providerVars, conflicts, updates, userVars, clock,
                 historyVars>>

(* A statement or a request fails: the job goes back to the queue. *)
StepFails(w) ==
  /\ pc[w] # "idle"
  /\ errors < MaxErrors
  /\ errors' = errors + 1
  /\ \/ /\ pc[w] \in {"load", "merge", "task", "labels", "link"}
        /\ inbox' = inbox \cup {snap[w]}
        /\ UNCHANGED <<updates, resolves>>
     \/ /\ pc[w] \in {"push", "pushed"} /\ Queued(scope[w])
        /\ UNCHANGED <<inbox, resolves>>
     \/ /\ pc[w] \in {"apply", "applied"}
        /\ resolves' = resolves \cup {row[w]}
        /\ UNCHANGED <<inbox, updates>>
  /\ Rest(w)
  /\ UNCHANGED <<taskVars, linkVars, providerVars, conflicts, userVars, clock, historyVars>>

Reconcile(w) ==
  LoadLink(w) \/ LoadTask(w) \/ SaveConflicts(w) \/ SaveTask(w) \/ SaveLabels(w) \/ SaveLink(w)

Update(w)  == TakeUpdate(w) \/ Push(w) \/ SavePushed(w)
Resolve(w) == TakeResolve(w) \/ ApplyRemote(w) \/ SaveResolved(w)

Next ==
  \/ RemoteEdit \/ ListIssue
  \/ \E u \in Users : UserOpens(u) \/ UpdateTask(u) \/ EnqueueUpdate(u)
  \/ \E r \in conflicts : ResolveConflict(r)
  \/ \E w \in Workers : Reconcile(w) \/ Update(w) \/ Resolve(w) \/ StepFails(w)

Spec == Init /\ [][Next]_vars

-----------------------------------------------------------------------------
(* Nothing waits and nobody works. *)
Quiet ==
  /\ inbox = {} /\ resolves = {} /\ \A carried \in Scopes : updates[carried] = 0
  /\ \A w \in Workers : pc[w] = "idle"
  /\ \A u \in Users : upc[u] # "saved"

(* No conflict was resolved in any other way than for the local value: the *)
(* other ways put back what the link knew when the conflict was recorded.  *)
KeptLocal == \A r \in conflicts : r.resolution \in {"none", "local"}

(* A failure between the task's write and the link's can leave a           *)
(* difference in a status, which is written only when the provider changed *)
(* it, and in an assignee, whose absence counts as no change.              *)
LeftByFailure(f) == f \in StatusFields \cup FlaggedFields /\ errors > 0

(* Once every job is done, task and provider agree on every field that is  *)
(* not in an open conflict: no order of edits, deliveries, retries and     *)
(* pushes leaves a difference that nothing is going to remove.  Excepted   *)
(* are an edit whose job was not queued, what the last push did not carry, *)
(* two changes at the provider with one stamp, and LeftByFailure.          *)
Agreement ==
  Quiet /\ KeptLocal /\ ~tied => \A f \in Fields :
    task[f] = remote[f] \/ Open(f) \/ f \in lost \/ f \in unsent \/ LeftByFailure(f)

(* The base is what the provider last said: once everything is done it     *)
(* differs from the provider only where a conflict was recorded, so the    *)
(* next merge compares with the truth; two changes at the provider with    *)
(* one stamp are excepted.                                                 *)
BaseIsTrue ==
  Quiet /\ KeptLocal /\ ~tied => \A f \in Fields : base[f] = remote[f] \/ Open(f)

(* processor.go 706-707: a delivery at or before the snapshot already      *)
(* applied does not move the projection back (a resolution may: see above).*)
LinkNeverBack == [][KeptLocal => linkAt' >= linkAt]_vars

(* server.go 2029: an edit that names a version goes through only when the *)
(* task is as the user saw it, whatever the worker wrote meanwhile.  Labels *)
(* are outside, and so is an edit that names no version (2025-2028).       *)
NoBlindEdit ==
  [][\A u \in Users : upc[u] = "editing" /\ upc'[u] = "saved" /\ edited'[u].version # 0 =>
       \A f \in Fields \ LabelFields : task[f] = seen[u].value[f]]_vars

(* openapi.yaml 975-988: an open conflict can be resolved for either side, *)
(* or ignored; all it takes is that no earlier row of the field stands in  *)
(* the way.                                                                *)
ConflictsResolvable ==
  \A f \in Fields : Open(f) => Row(f, "resolved") = {} /\ Row(f, "ignored") = {}

=============================================================================
