-------------------------- MODULE IssueSyncProofs ---------------------------
(***************************************************************************)
(* Theorems about IssueSync, for any fields, values, users and bounds.     *)
(*                                                                         *)
(* That no edit overwrites what its user has not seen holds for any number *)
(* of workers: every write of a versioned field moves the version on, so   *)
(* an equal version means equal fields (Viewed).  That the link never goes *)
(* back holds for one worker: between its read of the link and its write   *)
(* nobody else writes it, and the provider's stamps only grow (Forward).   *)
(* That a settled task agrees with its issue, and that the merge base is   *)
(* the provider's, hold for one worker too: a field that differs is named  *)
(* by an open conflict, is still on its way as an announced change or a    *)
(* queued push, or is one of the differences Agreement excepts (Merging).  *)
(***************************************************************************)
EXTENDS IssueSync, TLAPS

OneWorker == \A v, w \in Workers : v = w

Versioned == Fields \ LabelFields

(* While the version is the one a user saw, so are the fields. *)
Viewed ==
  /\ version \in Nat /\ DOMAIN task = Fields
  /\ DOMAIN upc = Users /\ DOMAIN seen = Users /\ DOMAIN edited = Users
  /\ \A u \in Users :
       /\ seen[u].version \in Nat /\ seen[u].version <= version
       /\ upc[u] = "editing" /\ seen[u].version = version =>
            \A f \in Versioned : task[f] = seen[u].value[f]

Reconciling == {"load", "merge", "task", "labels", "link"}

Resolved(r) ==
  /\ {"at", "status", "resolution"} \subseteq DOMAIN r
  /\ r \in conflicts /\ r.status # "open" /\ r.resolution \in {"local", "remote", "ignore"}

(* What the worker that read the link knows when it writes it. *)
Working(w) ==
  /\ pc[w] \in Reconciling => snap[w].at \in Nat /\ linkAt < snap[w].at /\ snap[w].at <= remoteAt
  /\ pc[w] = "pushed" => snap[w].at \in Nat /\ linkAt <= snap[w].at /\ snap[w].at <= remoteAt
  /\ pc[w] \in {"apply", "applied"} => Resolved(row[w]) /\ row[w].resolution # "local"

Forward ==
  /\ clock \in Nat /\ remoteAt \in Nat /\ linkAt \in Nat
  /\ linkAt <= remoteAt /\ remoteAt <= clock
  /\ \A s \in inbox : s.at \in Nat /\ s.at <= remoteAt
  /\ \A r \in conflicts : /\ {"at", "status", "resolution"} \subseteq DOMAIN r
                          /\ r.at \in Nat /\ r.at <= remoteAt
  /\ \A r \in resolves : Resolved(r)
  /\ DOMAIN pc = Workers /\ DOMAIN snap = Workers /\ DOMAIN row = Workers
  /\ \A w \in Workers : Working(w)

-----------------------------------------------------------------------------
(* A step keeps Viewed when it leaves the users alone and either keeps the *)
(* versioned fields or moves the version on.                               *)
LEMMA ViewKept ==
  ASSUME Viewed, UNCHANGED userVars, DOMAIN task' = Fields,
         \/ version' = version /\ \A f \in Versioned : task'[f] = task[f]
         \/ version' = version + 1
  PROVE  Viewed'
BY DEF Viewed, userVars

LEMMA ViewedInv == Spec => []Viewed
<1>. USE SyncAssumption DEF SyncAssumption, taskVars, linkVars, providerVars, jobVars, workerVars,
         userVars, historyVars
<1>1. Init => Viewed
  BY DEF Init, Viewed, Unseen, Blank
<1>2. Viewed /\ [Next]_vars => Viewed'
  <2>. SUFFICES ASSUME Viewed, [Next]_vars
                PROVE  Viewed'
    OBVIOUS
  <2>0. ASSUME UNCHANGED taskVars, UNCHANGED userVars
        PROVE  Viewed'
    BY <2>0 DEF Viewed
  <2>1. CASE UNCHANGED vars
    BY <2>0, <2>1 DEF vars
  <2>2. CASE RemoteEdit \/ ListIssue
    BY <2>0, <2>2 DEF RemoteEdit, ListIssue
  <2>3. ASSUME NEW u \in Users, UserOpens(u)
        PROVE  Viewed'
    BY <2>3 DEF UserOpens, Viewed
  <2>4. ASSUME NEW u \in Users, UpdateTask(u)
        PROVE  Viewed'
    BY <2>4 DEF UpdateTask, Stamp, Viewed, Unseen
  <2>5. ASSUME NEW u \in Users, EnqueueUpdate(u)
        PROVE  Viewed'
    BY <2>5 DEF EnqueueUpdate, Viewed
  <2>6. ASSUME NEW r \in conflicts, ResolveConflict(r)
        PROVE  Viewed'
    BY <2>0, <2>6 DEF ResolveConflict
  <2>7. ASSUME NEW w \in Workers, SaveTask(w)
        PROVE  Viewed'
    <3>1. UNCHANGED userVars
      BY <2>7 DEF SaveTask
    <3>2. \/ UNCHANGED <<task, version>>
          \/ DOMAIN task' = Fields /\ version' = version + 1
      BY <2>7 DEF SaveTask, WriteTask
    <3>. QED
      BY <3>1, <3>2, ViewKept DEF Viewed
  <2>8. ASSUME NEW w \in Workers, SaveLabels(w)
        PROVE  Viewed'
    BY <2>8, ViewKept DEF SaveLabels, Versioned
  <2>9. ASSUME NEW w \in Workers, ApplyRemote(w)
        PROVE  Viewed'
    <3>1. UNCHANGED userVars
      BY <2>9 DEF ApplyRemote
    <3>2. CASE row[w].field \in LabelFields
      <4>1. task' = [task EXCEPT ![row[w].field] = row[w].remote] /\ version' = version
        BY <2>9, <3>2 DEF ApplyRemote
      <4>. QED
        BY <3>1, <3>2, <4>1, ViewKept DEF Viewed, Versioned
    <3>3. CASE row[w].field \notin LabelFields
      <4>1. DOMAIN task' = Fields /\ version' = version + 1
        BY <2>9, <3>3 DEF ApplyRemote, WriteTask
      <4>. QED
        BY <3>1, <4>1, ViewKept
    <3>. QED
      BY <3>2, <3>3
  <2>10. ASSUME NEW w \in Workers, LoadLink(w) \/ LoadTask(w) \/ SaveConflicts(w) \/ SaveLink(w)
                                     \/ Update(w) \/ TakeResolve(w) \/ SaveResolved(w) \/ StepFails(w)
         PROVE  Viewed'
    BY <2>0, <2>10 DEF LoadLink, LoadTask, SaveConflicts, SaveLink, Update, TakeUpdate, Push,
                       SavePushed, TakeResolve, SaveResolved, StepFails
  <2>. QED
    BY <2>1, <2>2, <2>3, <2>4, <2>5, <2>6, <2>7, <2>8, <2>9, <2>10
       DEF Next, Reconcile, Resolve
<1>. QED
  BY <1>1, <1>2, PTL DEF Spec

(* updateTask's UPDATE names the version the user saw (server.go 2029):    *)
(* whatever workers and other users write meanwhile, an edit that names a  *)
(* version goes through only on a task whose versioned fields are the ones *)
(* its user saw.                                                           *)
THEOREM EditsSeeTheTask == Spec => NoBlindEdit
<1>. DEFINE A == \A u \in Users :
                   upc[u] = "editing" /\ upc'[u] = "saved" /\ edited'[u].version # 0 =>
                     \A f \in Fields \ LabelFields : task[f] = seen[u].value[f]
<1>1. Viewed /\ [Next]_vars => [A]_vars
  <2>. SUFFICES ASSUME Viewed, Next, NEW u \in Users, upc[u] = "editing", upc'[u] = "saved",
                       edited'[u].version # 0
                PROVE  \A f \in Versioned : task[f] = seen[u].value[f]
    BY DEF Versioned
  <2>1. UpdateTask(u)
    <3>1. PICK v \in Users : UserOpens(v) \/ UpdateTask(v) \/ EnqueueUpdate(v)
      BY DEF Next, RemoteEdit, ListIssue, ResolveConflict, Reconcile, LoadLink, LoadTask,
             SaveConflicts, SaveTask, SaveLabels, SaveLink, Update, TakeUpdate, Push, SavePushed,
             Resolve, TakeResolve, ApplyRemote, SaveResolved, StepFails, userVars
    <3>. QED
      BY <3>1 DEF UserOpens, UpdateTask, EnqueueUpdate, Viewed
  <2>2. PICK named \in {seen[u].version, 0}, f \in Fields :
          /\ named \in {version, 0}
          /\ edited' = [edited EXCEPT ![u] = [field |-> f, version |-> named]]
    BY <2>1 DEF UpdateTask, Viewed
  <2>3. edited'[u].version = named
    BY <2>2 DEF Viewed
  <2>. QED
    BY <2>2, <2>3 DEF Viewed
<1>. QED
  BY <1>1, ViewedInv, PTL DEF Spec, NoBlindEdit

-----------------------------------------------------------------------------
LEMMA ForwardInv ==
  ASSUME OneWorker
  PROVE  Spec => []Forward
<1>. USE SyncAssumption DEF SyncAssumption, OneWorker, taskVars, linkVars, providerVars, jobVars,
         workerVars, userVars, Reconciling
<1>1. Init => Forward
  BY DEF Init, Forward, Working, Blank
<1>2. Forward /\ [Next]_vars => Forward'
  <2>. SUFFICES ASSUME Forward, [Next]_vars
                PROVE  Forward'
    OBVIOUS
  <2>. USE DEF Forward, Working, Resolved
  <2>1. CASE UNCHANGED vars
    BY <2>1 DEF vars
  <2>2. CASE RemoteEdit
    BY <2>2 DEF RemoteEdit, RemoteStamp, Stamp
  <2>3. CASE ListIssue
    BY <2>3 DEF ListIssue
  <2>4. ASSUME NEW u \in Users, UserOpens(u) \/ UpdateTask(u) \/ EnqueueUpdate(u)
        PROVE  Forward'
    BY <2>4 DEF UserOpens, UpdateTask, EnqueueUpdate, Stamp
  <2>5. ASSUME NEW r \in conflicts, ResolveConflict(r)
        PROVE  Forward'
    <3>1. PICK how \in Resolutions :
            LET done == [r EXCEPT !.status = IF how = "ignore" THEN "ignored" ELSE "resolved",
                                  !.resolution = how]
            IN  conflicts' = (conflicts \ {r}) \cup {done} /\ resolves' = resolves \cup {done}
      BY <2>5 DEF ResolveConflict
    <3>. DEFINE done == [r EXCEPT !.status = IF how = "ignore" THEN "ignored" ELSE "resolved",
                                  !.resolution = how]
    <3>2. /\ DOMAIN done = DOMAIN r /\ done.at = r.at /\ done.status # "open"
          /\ done.resolution \in {"local", "remote", "ignore"}
      OBVIOUS
    <3>3. conflicts' = (conflicts \ {r}) \cup {done} /\ resolves' = resolves \cup {done}
      BY <3>1
    <3>. HIDE DEF done
    <3>4. r.status = "open" /\ UNCHANGED <<linkVars, providerVars, inbox, workerVars, clock>>
      BY <2>5 DEF ResolveConflict
    <3>. QED
      BY <3>2, <3>3, <3>4
  <2>6. ASSUME NEW w \in Workers, LoadLink(w)
        PROVE  Forward'
    BY <2>6 DEF LoadLink, Goto
  <2>7. ASSUME NEW w \in Workers, LoadTask(w) \/ SaveTask(w) \/ SaveLabels(w)
        PROVE  Forward'
    BY <2>7 DEF LoadTask, SaveTask, SaveLabels, WriteTask, Stamp, Goto
  <2>8. ASSUME NEW w \in Workers, SaveConflicts(w)
        PROVE  Forward'
    <3>1. /\ \A r \in conflicts' : r \in conflicts \/ (/\ DOMAIN r = {"field", "status", "local",
                                                               "remote", "at", "resolution"}
                                                       /\ r.at = snap[w].at)
          /\ \A r \in conflicts : r.status # "open" => r \in conflicts'
      BY <2>8 DEF SaveConflicts
    <3>2. /\ pc[w] = "merge" /\ pc' = [pc EXCEPT ![w] = "task"]
          /\ UNCHANGED <<linkVars, providerVars, jobVars, snap, row, clock>>
      BY <2>8 DEF SaveConflicts, Goto
    <3>. QED
      BY <3>1, <3>2
  <2>9. ASSUME NEW w \in Workers, SaveLink(w) \/ SavePushed(w) \/ SaveResolved(w)
        PROVE  Forward'
    BY <2>9 DEF SaveLink, SavePushed, SaveResolved, Rest, Goto
  <2>10. ASSUME NEW w \in Workers, TakeUpdate(w)
         PROVE  Forward'
    BY <2>10 DEF TakeUpdate, Goto
  <2>11. ASSUME NEW w \in Workers, Push(w)
         PROVE  Forward'
    BY <2>11 DEF Push, RemoteStamp, Stamp, Goto
  <2>12. ASSUME NEW w \in Workers, TakeResolve(w) \/ ApplyRemote(w)
         PROVE  Forward'
    BY <2>12 DEF TakeResolve, ApplyRemote, WriteTask, Stamp, Goto
  <2>13. ASSUME NEW w \in Workers, StepFails(w)
         PROVE  Forward'
    BY <2>13 DEF StepFails, Rest, Goto
  <2>. QED
    BY <2>1, <2>2, <2>3, <2>4, <2>5, <2>6, <2>7, <2>8, <2>9, <2>10, <2>11, <2>12, <2>13
       DEF Next, Reconcile, Update, Resolve
<1>. QED
  BY <1>1, <1>2, PTL DEF Spec

(* "A delivery at or before the snapshot already applied cannot safely     *)
(* move the local projection back" (processor.go 706-707): with one worker *)
(* none does, however deliveries, pushes and failures interleave, as long  *)
(* as every conflict was resolved for the local side.                      *)
THEOREM LinkKeepsForward ==
  ASSUME OneWorker
  PROVE  Spec => LinkNeverBack
<1>1. Forward /\ [Next]_vars => [KeptLocal => linkAt' >= linkAt]_vars
  <2>. SUFFICES ASSUME Forward, Next, KeptLocal
                PROVE  linkAt' >= linkAt
    OBVIOUS
  <2>1. CASE linkAt' = linkAt
    BY <2>1 DEF Forward
  <2>2. CASE linkAt' # linkAt
    <3>1. PICK w \in Workers : SaveLink(w) \/ SavePushed(w) \/ SaveResolved(w)
      BY <2>2 DEF Next, RemoteEdit, ListIssue, UserOpens, UpdateTask, EnqueueUpdate,
           ResolveConflict, Reconcile, LoadLink, LoadTask, SaveConflicts, SaveTask, SaveLabels,
           Update, TakeUpdate, Push, Resolve, TakeResolve, ApplyRemote, StepFails, linkVars
    <3>2. ~SaveResolved(w)
      BY DEF SaveResolved, Forward, Working, Resolved, KeptLocal
    <3>. QED
      BY <3>1, <3>2 DEF SaveLink, SavePushed, Forward, Working, Reconciling
  <2>. QED
    BY <2>1, <2>2
<1>. QED
  BY <1>1, ForwardInv, PTL DEF Spec, LinkNeverBack

-----------------------------------------------------------------------------
(* Work that will bring the task to the provider: an update that waits, a  *)
(* resolved conflict, a push under way.  And work that may: an edit that   *)
(* is about to queue its update, or did not get to.                        *)
Queue   == (\E carried \in Scopes : updates[carried] > 0) \/ resolves # {}
PushDue == Queue \/ \E w \in Workers : pc[w] \in {"push", "pushed"}
Waiting(f) ==
  Queue \/ f \in lost \/ \E u \in Users : upc[u] = "saved" /\ edited[u].field = f
Pending(f) == PushDue \/ Waiting(f)

(* Work that will bring the provider's issue to the task. *)
Newest(s) == s.at = remoteAt /\ \A f \in Fields : s.value[f] = remote[f]
NewsDue ==
  \/ \E s \in inbox : Newest(s)
  \/ \E w \in Workers : pc[w] \in Reconciling /\ Newest(snap[w])

(* What a difference from the base, and one from the task, may be excused  *)
(* by.                                                                     *)
Settled(f) == Open(f) \/ PushDue
Excused(f) == Settled(f) \/ Waiting(f) \/ f \in unsent \/ LeftByFailure(f)

(* The issue as it is now is the only snapshot of its time. *)
Snapshots ==
  /\ \A s \in inbox : s.at = remoteAt => Newest(s)
  /\ \A w \in Workers :
       pc[w] \in Reconciling \cup {"pushed"} /\ snap[w].at = remoteAt => Newest(snap[w])

(* The fields in which a difference between task and base is not undone by *)
(* the next merge.                                                         *)
Kept == StatusFields \cup FlaggedFields

(* What the worker has read is what it is about to replace. *)
Held(w) ==
  /\ pc[w] \in Reconciling => \A f \in Fields : link[w].value[f] = base[f]
  /\ pc[w] \in {"merge", "task"} =>
       \A f \in Fields : task[f] = read[w].value[f] \/ Pending(f)
  /\ pc[w] = "labels" => \A f \in Fields : Pending(f) \/
       task[f] = IF f \in Taken(w) \ LabelFields THEN snap[w].value[f] ELSE read[w].value[f]
  /\ pc[w] = "link" => \A f \in Fields : Pending(f) \/
       task[f] = IF f \in Taken(w) THEN snap[w].value[f] ELSE read[w].value[f]
  /\ pc[w] \in {"task", "labels", "link"} => \A f \in Blocked(w) : Settled(f)
  /\ pc[w] \in {"merge", "task", "labels", "link"} => \A f \in Kept :
       read[w].value[f] = link[w].value[f] \/ Excused(f)
  /\ pc[w] = "push" => \A f \in Fields : task[f] = read[w].value[f] \/ Waiting(f)
  /\ pc[w] = "pushed" => \A f \in Fields :
       task[f] = snap[w].value[f] \/ Waiting(f) \/ f \in unsent

(* These fields leave the base only with something on its way, or for one  *)
(* of the excepted reasons.                                                *)
Followed ==
  (\A w \in Workers : pc[w] \notin {"labels", "link"}) =>
     \A f \in Kept : task[f] = base[f] \/ Excused(f)

(* Base and task of a link that is as new as the provider. *)
BaseNew == linkAt = remoteAt => \A f \in Fields : base[f] = remote[f] \/ Settled(f)
TaskNew == linkAt = remoteAt => \A f \in Fields : task[f] = remote[f] \/ Excused(f)

Merging ==
  /\ Followed
  /\ \A w \in Workers : Held(w)
  /\ ~tied => Snapshots /\ (linkAt < remoteAt => NewsDue) /\ BaseNew /\ TaskNew

(* The rest of the types the steps need. *)
Counted ==
  /\ updates \in [Scopes -> Nat] /\ errors \in Nat
  /\ scope \in [Workers -> Scopes]
  /\ DOMAIN read = Workers /\ DOMAIN link = Workers

LEMMA CountedInv == Spec => []Counted
<1>. USE SyncAssumption DEF SyncAssumption, taskVars, linkVars, providerVars, jobVars, workerVars,
         userVars, historyVars, Counted, Queued, Scope, Scopes
<1>1. Init => Counted
  BY DEF Init
<1>2. Counted /\ [Next]_vars => Counted'
  <2>. SUFFICES ASSUME Counted, [Next]_vars
                PROVE  Counted'
    OBVIOUS
  <2>1. CASE UNCHANGED vars
    BY <2>1 DEF vars
  <2>2. CASE RemoteEdit \/ ListIssue
    BY <2>2 DEF RemoteEdit, ListIssue
  <2>3. ASSUME NEW u \in Users, UserOpens(u) \/ UpdateTask(u) \/ EnqueueUpdate(u)
        PROVE  Counted'
    BY <2>3 DEF UserOpens, UpdateTask, EnqueueUpdate
  <2>4. ASSUME NEW r \in conflicts, ResolveConflict(r)
        PROVE  Counted'
    BY <2>4 DEF ResolveConflict
  <2>5. ASSUME NEW w \in Workers, Reconcile(w)
        PROVE  Counted'
    BY <2>5 DEF Reconcile, LoadLink, LoadTask, SaveConflicts, SaveTask, SaveLabels, SaveLink, Rest
  <2>6. ASSUME NEW w \in Workers, Update(w) \/ Resolve(w)
        PROVE  Counted'
    BY <2>6 DEF Update, TakeUpdate, Push, SavePushed, Resolve, TakeResolve, ApplyRemote,
                SaveResolved, Rest
  <2>7. ASSUME NEW w \in Workers, StepFails(w)
        PROVE  Counted'
    BY <2>7 DEF StepFails, Rest
  <2>. QED
    BY <2>1, <2>2, <2>3, <2>4, <2>5, <2>6, <2>7 DEF Next
<1>. QED
  BY <1>1, <1>2, PTL DEF Spec

(* A row has a resolution only when it is closed. *)
OpenRows == \A r \in conflicts : r.status = "open" => r.resolution = "none"

LEMMA OpenRowsStep ==
  ASSUME OpenRows, Forward, [Next]_vars
  PROVE  OpenRows'
<1>. USE DEF OpenRows
<1>1. CASE UNCHANGED conflicts
  BY <1>1
<1>2. ASSUME NEW r \in conflicts, ResolveConflict(r)
      PROVE  OpenRows'
  <2>1. PICK how \in Resolutions :
          conflicts' = (conflicts \ {r}) \cup
            {[r EXCEPT !.status = IF how = "ignore" THEN "ignored" ELSE "resolved",
                       !.resolution = how]}
    BY <1>2 DEF ResolveConflict
  <2>. DEFINE done == [r EXCEPT !.status = IF how = "ignore" THEN "ignored" ELSE "resolved",
                                !.resolution = how]
  <2>2. done.status # "open"
    BY DEF Forward
  <2>3. conflicts' = (conflicts \ {r}) \cup {done}
    BY <2>1
  <2>. HIDE DEF done
  <2>. QED
    BY <2>2, <2>3
<1>3. ASSUME NEW w \in Workers, SaveConflicts(w)
      PROVE  OpenRows'
  BY <1>3 DEF SaveConflicts
<1>. QED
  BY <1>1, <1>2, <1>3
     DEF Next, RemoteEdit, ListIssue, UserOpens, UpdateTask, EnqueueUpdate, Reconcile, LoadLink,
         LoadTask, SaveTask, SaveLabels, SaveLink, Update, TakeUpdate, Push, SavePushed, Resolve,
         TakeResolve, ApplyRemote, SaveResolved, StepFails, vars

(* No resolution is ever taken back. *)
LEMMA KeptLocalBefore ==
  ASSUME OpenRows, [Next]_vars, KeptLocal'
  PROVE  KeptLocal
<1>. USE DEF OpenRows, KeptLocal
<1>1. CASE UNCHANGED conflicts
  BY <1>1
<1>2. ASSUME NEW r \in conflicts, ResolveConflict(r)
      PROVE  KeptLocal
  <2>1. conflicts \ {r} \subseteq conflicts' /\ r.status = "open"
    BY <1>2 DEF ResolveConflict
  <2>. QED
    BY <2>1
<1>3. ASSUME NEW w \in Workers, SaveConflicts(w)
      PROVE  KeptLocal
  <2>1. \A r \in conflicts : r.status # "open" => r \in conflicts'
    BY <1>3 DEF SaveConflicts
  <2>. QED
    BY <2>1
<1>. QED
  BY <1>1, <1>2, <1>3
     DEF Next, RemoteEdit, ListIssue, UserOpens, UpdateTask, EnqueueUpdate, Reconcile, LoadLink,
         LoadTask, SaveTask, SaveLabels, SaveLink, Update, TakeUpdate, Push, SavePushed, Resolve,
         TakeResolve, ApplyRemote, SaveResolved, StepFails, vars

(* The queue only gives up a job to a worker that pushes it.               *)
LEMMA QueueSteps ==
  ASSUME Counted, KeptLocal, Forward, [Next]_vars
  PROVE  \/ Queue => Queue'
         \/ \E w \in Workers : TakeUpdate(w)
<1>. USE DEF Counted, taskVars, linkVars, providerVars, jobVars, workerVars, userVars, historyVars,
             Queued, Scope, Scopes
<1>1. CASE UNCHANGED <<updates, resolves>>
  BY <1>1 DEF Queue
<1>2. ASSUME NEW u \in Users, EnqueueUpdate(u)
      PROVE  Queue => Queue'
  BY <1>2 DEF EnqueueUpdate, Queue
<1>3. ASSUME NEW r \in conflicts, ResolveConflict(r)
      PROVE  Queue'
  BY <1>3 DEF ResolveConflict, Queue
<1>4. ASSUME NEW w \in Workers, TakeResolve(w)
      PROVE  Queue'
  <2>1. \A r \in resolves : r.resolution = "local"
    BY DEF Forward, Resolved, KeptLocal
  <2>. QED
    BY <1>4, <2>1 DEF TakeResolve, Queue
<1>5. ASSUME NEW w \in Workers, StepFails(w)
      PROVE  Queue => Queue'
  <2>1. resolves \subseteq resolves'
    BY <1>5 DEF StepFails
  <2>2. \/ UNCHANGED updates
        \/ updates' = [updates EXCEPT ![scope[w]] = @ + 1]
    BY <1>5 DEF StepFails
  <2>. QED
    BY <2>1, <2>2 DEF Queue
<1>. QED
  BY <1>1, <1>2, <1>3, <1>4, <1>5
     DEF Next, RemoteEdit, ListIssue, UserOpens, UpdateTask, Reconcile, LoadLink, LoadTask,
         SaveConflicts, SaveTask, SaveLabels, SaveLink, Update, Push, SavePushed, Resolve,
         ApplyRemote, SaveResolved, vars

(* What is due stays due until the worker that pushes writes the link.     *)
LEMMA PushDueKept ==
  ASSUME OneWorker, Counted, Viewed, Forward, KeptLocal, [Next]_vars,
         \A w \in Workers : ~SavePushed(w)
  PROVE  /\ PushDue => PushDue'
         /\ (Queue => Queue') \/ PushDue'
<1>. USE DEF Counted, taskVars, linkVars, providerVars, jobVars, workerVars, userVars, historyVars,
             Queued, Scope, Scopes
<1>0. /\ \A v, w \in Workers : v = w
      /\ DOMAIN pc = Workers
  BY DEF Forward, OneWorker
<1>1. ASSUME NEW w \in Workers, TakeUpdate(w) \/ Push(w)
      PROVE  PushDue'
  <2>1. pc'[w] \in {"push", "pushed"}
    BY <1>0, <1>1 DEF TakeUpdate, Push, Goto
  <2>. QED
    BY <2>1 DEF PushDue
<1>2. ASSUME NEW w \in Workers, StepFails(w), pc[w] \in {"push", "pushed"}
      PROVE  Queue'
  <2>1. updates' = [updates EXCEPT ![scope[w]] = @ + 1] /\ scope[w] \in Scopes
    BY <1>2 DEF StepFails
  <2>. QED
    BY <2>1 DEF Queue
<1>3. ASSUME NEW w \in Workers, pc[w] \in {"push", "pushed"}
      PROVE  PushDue'
  <2>1. \/ UNCHANGED pc
        \/ \E v \in Workers : Push(v) \/ TakeUpdate(v) \/ StepFails(v)
    BY <1>0, <1>3 DEF Next, RemoteEdit, ListIssue, UserOpens, UpdateTask, EnqueueUpdate,
         ResolveConflict, Reconcile, LoadLink, LoadTask, SaveConflicts, SaveTask, SaveLabels,
         SaveLink, Update, Resolve, TakeResolve, ApplyRemote, SaveResolved, vars
  <2>2. CASE UNCHANGED pc
    BY <1>3, <2>2 DEF PushDue
  <2>. QED
    BY <1>0, <1>1, <1>2, <1>3, <2>1, <2>2 DEF PushDue
<1>4. (Queue => Queue') \/ PushDue'
  BY <1>1, QueueSteps
<1>5. PushDue => PushDue'
  BY <1>3, <1>4 DEF PushDue
<1>. QED
  BY <1>4, <1>5

(* So does an edit that may not have been queued.                          *)
LEMMA PendingKept ==
  ASSUME OneWorker, Counted, Viewed, Forward, KeptLocal, [Next]_vars,
         \A w \in Workers : ~SavePushed(w), NEW f
  PROVE  /\ Waiting(f) => Waiting(f)' \/ PushDue'
         /\ Pending(f) => Pending(f)'
         /\ f \in unsent => f \in unsent' \/ PushDue'
<1>. USE DEF Counted, taskVars, linkVars, providerVars, jobVars, workerVars, userVars, historyVars
<1>0. /\ PushDue => PushDue'
      /\ (Queue => Queue') \/ PushDue'
  BY PushDueKept
<1>1. CASE UNCHANGED <<upc, edited, lost, unsent>>
  BY <1>0, <1>1 DEF Pending, Waiting
<1>2. ASSUME NEW u \in Users, UserOpens(u)
      PROVE  (Waiting(f) => Waiting(f)' \/ PushDue') /\ (f \in unsent => f \in unsent')
  BY <1>0, <1>2 DEF UserOpens, Waiting, Viewed
<1>3. ASSUME NEW u \in Users, UpdateTask(u)
      PROVE  (Waiting(f) => Waiting(f)' \/ PushDue') /\ (f \in unsent => f \in unsent')
  <2>1. \A v \in Users : upc[v] = "saved" => v # u /\ upc'[v] = upc[v] /\ edited'[v] = edited[v]
    BY <1>3 DEF UpdateTask, Viewed
  <2>. QED
    BY <1>0, <1>3, <2>1 DEF UpdateTask, Waiting
<1>4. ASSUME NEW u \in Users, EnqueueUpdate(u)
      PROVE  (Waiting(f) => Waiting(f)' \/ PushDue') /\ (f \in unsent => f \in unsent')
  <2>1. \A v \in Users \ {u} : upc'[v] = upc[v] /\ edited'[v] = edited[v]
    BY <1>4 DEF EnqueueUpdate, Viewed
  <2>2. CASE lost' = lost \cup {edited[u].field}
    BY <1>0, <1>4, <2>1, <2>2 DEF EnqueueUpdate, Waiting
  <2>3. CASE Queued(Scope(edited[u].field)) /\ UNCHANGED lost
    <3>1. PICK carried \in Scopes : Queued(carried)
      BY <2>3 DEF Scope, Scopes
    <3>2. Queue'
      BY <3>1 DEF Queued, Queue, Scopes
    <3>. QED
      BY <1>4, <3>2 DEF EnqueueUpdate, Waiting
  <2>4. \/ lost' = lost \cup {edited[u].field}
        \/ Queued(Scope(edited[u].field)) /\ UNCHANGED lost
    BY <1>4 DEF EnqueueUpdate
  <2>. QED
    BY <2>2, <2>3, <2>4
<1>5. ASSUME NEW w \in Workers, TakeUpdate(w) \/ Push(w)
      PROVE  PushDue'
  <2>1. pc'[w] \in {"push", "pushed"}
    BY <1>5 DEF TakeUpdate, Push, Goto, Forward
  <2>. QED
    BY <2>1 DEF PushDue
<1>6. /\ Waiting(f) => Waiting(f)' \/ PushDue'
      /\ f \in unsent => f \in unsent' \/ PushDue'
  BY <1>1, <1>2, <1>3, <1>4, <1>5, <1>0
     DEF Next, RemoteEdit, ListIssue, ResolveConflict, Reconcile, LoadLink, LoadTask,
         SaveConflicts, SaveTask, SaveLabels, SaveLink, Update, Resolve, TakeResolve,
         ApplyRemote, SaveResolved, StepFails, vars, Pending, Waiting
<1>. QED
  BY <1>0, <1>6 DEF Pending

(* So does what excuses a difference in a field.                           *)
LEMMA SettledKept ==
  ASSUME OneWorker, Counted, Viewed, Forward, KeptLocal, [Next]_vars,
         \A w \in Workers : ~SavePushed(w), NEW f \in Fields
  PROVE  /\ Settled(f) => Settled(f)'
         /\ Excused(f) => Excused(f)'
<1>. USE DEF Counted
<1>0. errors' = errors \/ errors' = errors + 1
  BY DEF Next, RemoteEdit, ListIssue, UserOpens, UpdateTask, EnqueueUpdate, ResolveConflict,
         Reconcile, LoadLink, LoadTask, SaveConflicts, SaveTask, SaveLabels, SaveLink, Update,
         TakeUpdate, Push, SavePushed, Resolve, TakeResolve, ApplyRemote, SaveResolved, StepFails,
         vars
<1>1. LeftByFailure(f) => LeftByFailure(f)'
  BY <1>0 DEF LeftByFailure
<1>2. ASSUME UNCHANGED conflicts
      PROVE  Settled(f) => Settled(f)'
  BY <1>2, PushDueKept DEF Settled, Open, Row
<1>3. ASSUME NEW r \in conflicts, ResolveConflict(r)
      PROVE  PushDue'
  BY <1>3 DEF ResolveConflict, PushDue, Queue
<1>4. ASSUME NEW w \in Workers, SaveConflicts(w)
      PROVE  Open(f) => Open(f)'
  <2>1. CASE f \in Blocked(w)
    <3>. DEFINE new == [field |-> f, status |-> "open", local |-> read[w].value[f],
                        remote |-> snap[w].value[f], at |-> snap[w].at, resolution |-> "none"]
    <3>1. new \in conflicts'
      BY <1>4, <2>1 DEF SaveConflicts
    <3>2. new.field = f /\ new.status = "open"
      OBVIOUS
    <3>. HIDE DEF new
    <3>. QED
      BY <3>1, <3>2 DEF Open, Row
  <2>2. CASE f \notin Blocked(w)
    <3>1. \A r \in conflicts : r.field = f => r \in conflicts'
      BY <1>4, <2>2 DEF SaveConflicts
    <3>. QED
      BY <3>1 DEF Open, Row
  <2>. QED
    BY <2>1, <2>2
<1>5. \/ UNCHANGED conflicts
      \/ \E r \in conflicts : ResolveConflict(r)
      \/ \E w \in Workers : SaveConflicts(w)
  BY DEF Next, RemoteEdit, ListIssue, UserOpens, UpdateTask, EnqueueUpdate, Reconcile, LoadLink,
         LoadTask, SaveTask, SaveLabels, SaveLink, Update, TakeUpdate, Push, SavePushed, Resolve,
         TakeResolve, ApplyRemote, SaveResolved, StepFails, vars
<1>6. Settled(f) => Settled(f)'
  BY <1>2, <1>3, <1>4, <1>5, PushDueKept DEF Settled
<1>. QED
  BY <1>1, <1>6, PendingKept DEF Settled, Excused

Sync == Counted /\ Viewed /\ Forward /\ OpenRows

(* Steps of users and of the provider leave what the worker holds alone,   *)
(* but for the task, whose edit waits to be queued.                        *)
LEMMA HeldKept ==
  ASSUME OneWorker, Sync, KeptLocal, [Next]_vars, NEW w \in Workers, Held(w),
         UNCHANGED <<pc, snap, read, link, base, unsent>>,
         \A f \in Fields : (Waiting(f) => Waiting(f)') /\ (task'[f] = task[f] \/ Waiting(f)')
  PROVE  Held(w)'
<1>1. \A v \in Workers : ~SavePushed(v)
  BY DEF SavePushed, Rest, Goto, Sync, Forward
<1>2. \A f \in Fields : /\ (Settled(f) => Settled(f)') /\ (Excused(f) => Excused(f)')
                        /\ (Pending(f) => Pending(f)')
  BY <1>1, PendingKept, SettledKept DEF Sync
<1>3. Blocked(w)' = Blocked(w) /\ Taken(w)' = Taken(w)
  BY DEF Blocked, Taken, Local, RemoteChanged, LocalChanged
<1>4. Blocked(w) \subseteq Fields /\ Kept \subseteq Fields
  BY SyncAssumption DEF Blocked, SyncAssumption, Kept
<1>5. \A f \in Fields : Waiting(f)' => Pending(f)'
  BY DEF Pending
<1>. QED
  BY <1>2, <1>3, <1>4, <1>5 DEF Held

(* The worker's own steps, up to the link's write, leave alone what the    *)
(* provider and the link say.                                              *)
LEMMA MergingKept ==
  ASSUME OneWorker, Sync, KeptLocal, [Next]_vars, Merging,
         \A w \in Workers : ~SavePushed(w),
         UNCHANGED <<base, linkAt, remote, remoteAt, tied>>,
         \A f \in Fields : task'[f] = task[f] \/ linkAt < remoteAt \/ Pending(f)',
         Followed', Snapshots => Snapshots', NewsDue => NewsDue', \A w \in Workers : Held(w)'
  PROVE  Merging'
<1>1. \A f \in Fields : (Settled(f) => Settled(f)') /\ (Excused(f) => Excused(f)')
  BY SettledKept DEF Sync
<1>2. ~tied => BaseNew'
  BY <1>1 DEF Merging, BaseNew
<1>3. ASSUME ~tied
      PROVE  TaskNew'
  <2>1. SUFFICES ASSUME linkAt = remoteAt, NEW f \in Fields
                 PROVE  task'[f] = remote[f] \/ Excused(f)'
    BY DEF TaskNew
  <2>2. task'[f] = task[f] \/ Pending(f)'
    BY <2>1 DEF Sync, Forward
  <2>3. task[f] = remote[f] \/ Excused(f)
    BY <1>3, <2>1 DEF Merging, TaskNew
  <2>. QED
    BY <1>1, <2>2, <2>3 DEF Excused, Settled, Pending
<1>. QED
  BY <1>2, <1>3 DEF Merging

LEMMA MergingProvider ==
  ASSUME OneWorker, Sync, KeptLocal, Merging, RemoteEdit \/ ListIssue
  PROVE  Merging'
<1>. USE DEF taskVars, linkVars, providerVars, jobVars, workerVars, userVars, historyVars
<1>0. /\ [Next]_vars
      /\ UNCHANGED <<pc, snap, read, link, base, linkAt, task, updates, resolves, upc, edited,
                     lost, unsent>>
  BY DEF RemoteEdit, ListIssue, Next
<1>1. \A f \in Fields : Waiting(f)' = Waiting(f)
  BY <1>0 DEF Waiting, Queue
<1>2. \A w \in Workers : Held(w)'
  BY <1>0, <1>1, HeldKept DEF Merging
<1>3. \A w \in Workers : ~SavePushed(w)
  BY <1>0 DEF SavePushed, Rest, Goto, Sync, Forward
<1>4. \A f \in Fields : (Settled(f) => Settled(f)') /\ (Excused(f) => Excused(f)')
  BY <1>0, <1>3, SettledKept DEF Sync
<1>5. Followed'
  BY <1>0, <1>4, SyncAssumption DEF Merging, Followed, SyncAssumption, Kept
<1>6. CASE RemoteEdit
  <2>. DEFINE new == [value |-> remote', at |-> remoteAt']
  <2>1. /\ inbox' = inbox \cup {new} /\ new.at = remoteAt' /\ new.value = remote'
        /\ remoteAt' \in remoteAt..clock' /\ clock' = clock + 1
        /\ tied' = (remoteAt' = remoteAt)
    BY <1>6 DEF RemoteEdit, RemoteStamp, Stamp
  <2>. HIDE DEF new
  <2>2. ASSUME ~tied'
        PROVE  Snapshots' /\ NewsDue' /\ BaseNew' /\ TaskNew'
    <3>0. remoteAt' # remoteAt
      BY <2>1, <2>2, Zenon
    <3>1. remoteAt < remoteAt' /\ linkAt' < remoteAt' /\ remoteAt \in Nat /\ remoteAt' \in Nat
      BY <1>0, <2>1, <3>0 DEF Sync, Forward
    <3>2. Snapshots'
      <4>1. \A w \in Workers :
              pc[w] \in Reconciling \cup {"pushed"} => snap[w].at # remoteAt'
        BY <3>1 DEF Sync, Forward, Working
      <4>2. \A s \in inbox : s.at # remoteAt'
        BY <3>1 DEF Sync, Forward
      <4>. QED
        BY <1>0, <2>1, <4>1, <4>2 DEF Snapshots, Newest
    <3>3. NewsDue'
      BY <2>1 DEF NewsDue, Newest
    <3>4. BaseNew' /\ TaskNew'
      BY <3>1, <1>0 DEF BaseNew, TaskNew, Sync, Forward
    <3>. QED
      BY <3>2, <3>3, <3>4
  <2>. QED
    BY <1>2, <1>5, <2>2 DEF Merging
<1>7. CASE ListIssue
  <2>. DEFINE new == [value |-> remote, at |-> remoteAt]
  <2>1. /\ inbox' = inbox \cup {new} /\ UNCHANGED <<remote, remoteAt, tied>>
        /\ new.value = remote
    BY <1>7 DEF ListIssue
  <2>. HIDE DEF new
  <2>2. Snapshots => Snapshots'
    BY <1>0, <2>1 DEF Snapshots, Newest
  <2>3. NewsDue => NewsDue'
    BY <1>0, <2>1 DEF NewsDue, Newest
  <2>. QED
    BY <1>0, <1>2, <1>3, <1>5, <2>1, <2>2, <2>3, MergingKept
<1>. QED
  BY <1>6, <1>7

LEMMA MergingUsers ==
  ASSUME OneWorker, Sync, KeptLocal, Merging, [Next]_vars,
         \/ \E u \in Users : UserOpens(u) \/ UpdateTask(u) \/ EnqueueUpdate(u)
         \/ \E r \in conflicts : ResolveConflict(r)
  PROVE  Merging'
<1>. USE DEF taskVars, linkVars, providerVars, jobVars, workerVars, userVars, historyVars
<1>0. UNCHANGED <<pc, snap, read, link, base, linkAt, remote, remoteAt, inbox, unsent, tied>>
  BY DEF UserOpens, UpdateTask, EnqueueUpdate, ResolveConflict
<1>1. \A w \in Workers : ~SavePushed(w)
  BY <1>0 DEF SavePushed, Rest, Goto, Sync, Forward
<1>2. ASSUME NEW f \in Fields
      PROVE  (Waiting(f) => Waiting(f)') /\ (task'[f] = task[f] \/ Waiting(f)')
  <2>1. Queue => Queue'
    <3>1. \A w \in Workers : ~TakeUpdate(w)
      BY <1>0 DEF TakeUpdate, Goto, Sync, Forward
    <3>. QED
      BY <3>1, QueueSteps DEF Sync
  <2>2. ASSUME NEW u \in Users, UserOpens(u)
        PROVE  (Waiting(f) => Waiting(f)') /\ (task'[f] = task[f] \/ Waiting(f)')
    BY <2>1, <2>2 DEF UserOpens, Waiting, Sync, Viewed
  <2>3. ASSUME NEW u \in Users, UpdateTask(u)
        PROVE  (Waiting(f) => Waiting(f)') /\ (task'[f] = task[f] \/ Waiting(f)')
    <3>1. /\ UNCHANGED <<updates, resolves, lost>> /\ upc[u] = "editing"
          /\ \A v \in Users \ {u} : upc'[v] = upc[v] /\ edited'[v] = edited[v]
      BY <2>3 DEF UpdateTask, Sync, Viewed
    <3>2. Waiting(f) => Waiting(f)'
      BY <2>1, <3>1 DEF Waiting
    <3>3. CASE UNCHANGED task
      BY <3>2, <3>3
    <3>4. CASE ~UNCHANGED task
      <4>1. PICK g \in Fields, v \in Values, named \in {seen[u].version, 0} :
              /\ task' = [task EXCEPT ![g] = v]
              /\ edited' = [edited EXCEPT ![u] = [field |-> g, version |-> named]]
              /\ upc' = [upc EXCEPT ![u] = "saved"]
        BY <2>3, <3>4 DEF UpdateTask
      <4>2. upc'[u] = "saved" /\ edited'[u].field = g
        BY <4>1 DEF Sync, Viewed
      <4>3. task'[f] = task[f] \/ f = g
        BY <4>1 DEF Sync, Viewed
      <4>. QED
        BY <3>2, <4>2, <4>3 DEF Waiting
    <3>. QED
      BY <3>3, <3>4
  <2>4. ASSUME NEW u \in Users, EnqueueUpdate(u)
        PROVE  (Waiting(f) => Waiting(f)') /\ (task'[f] = task[f] \/ Waiting(f)')
    <3>1. /\ UNCHANGED task
          /\ \A v \in Users \ {u} : upc'[v] = upc[v] /\ edited'[v] = edited[v]
      BY <2>4 DEF EnqueueUpdate, Sync, Viewed
    <3>2. CASE lost' = lost \cup {edited[u].field}
      BY <2>1, <3>1, <3>2 DEF Waiting
    <3>3. CASE Queued(Scope(edited[u].field)) /\ UNCHANGED lost
      <4>1. PICK carried \in Scopes : Queued(carried)
        BY <3>3 DEF Scope, Scopes
      <4>2. Queue'
        BY <4>1 DEF Queued, Queue, Sync, Counted, Scopes
      <4>. QED
        BY <3>1, <4>2 DEF Waiting
    <3>4. \/ lost' = lost \cup {edited[u].field}
          \/ Queued(Scope(edited[u].field)) /\ UNCHANGED lost
      BY <2>4 DEF EnqueueUpdate
    <3>. QED
      BY <3>2, <3>3, <3>4
  <2>5. ASSUME NEW r \in conflicts, ResolveConflict(r)
        PROVE  (Waiting(f) => Waiting(f)') /\ (task'[f] = task[f] \/ Waiting(f)')
    BY <2>1, <2>5 DEF ResolveConflict, Waiting
  <2>. QED
    BY <2>2, <2>3, <2>4, <2>5
<1>3. \A w \in Workers : Held(w)'
  BY <1>0, <1>2, HeldKept DEF Merging
<1>4. \A f \in Fields : (Settled(f) => Settled(f)') /\ (Excused(f) => Excused(f)')
  BY <1>0, <1>1, SettledKept DEF Sync
<1>5. \A f \in Fields : task'[f] = task[f] \/ Pending(f)'
  BY <1>2 DEF Pending
<1>6. Followed'
  <2>1. Kept \subseteq Fields
    BY SyncAssumption DEF SyncAssumption, Kept
  <2>. QED
    BY <1>0, <1>2, <1>4, <2>1 DEF Merging, Followed, Excused
<1>7. (Snapshots => Snapshots') /\ (NewsDue => NewsDue')
  BY <1>0 DEF Snapshots, NewsDue, Newest
<1>. QED
  BY <1>0, <1>1, <1>3, <1>5, <1>6, <1>7, MergingKept

(* Deciding whether to merge a snapshot: one that is not newer than the    *)
(* link is dropped, for the newest one cannot be.                          *)
LEMMA MergingLoadLink ==
  ASSUME OneWorker, Sync, KeptLocal, Merging, [Next]_vars, NEW w \in Workers, LoadLink(w)
  PROVE  Merging'
<1>. USE DEF taskVars, linkVars, providerVars, jobVars, workerVars, userVars, historyVars
<1>0. /\ UNCHANGED <<task, base, linkAt, remote, remoteAt, updates, resolves, upc, edited, read,
                     lost, unsent, tied>>
      /\ pc[w] = "idle" /\ DOMAIN pc = Workers /\ DOMAIN snap = Workers
      /\ DOMAIN link = Workers /\ \A v \in Workers : v = w
      /\ linkAt \in Nat /\ remoteAt \in Nat
  BY DEF LoadLink, Sync, Forward, Counted, OneWorker
<1>1. PICK s \in inbox :
        /\ inbox' = inbox \ {s}
        /\ IF s.at <= linkAt THEN UNCHANGED workerVars
           ELSE /\ Goto(w, "load")
                /\ snap' = [snap EXCEPT ![w] = s]
                /\ link' = [link EXCEPT ![w] = [value |-> base, at |-> linkAt]]
                /\ UNCHANGED <<read, row, scope>>
  BY DEF LoadLink
<1>2. s.at \in Nat /\ s.at <= remoteAt /\ (Snapshots /\ s.at = remoteAt => Newest(s))
  BY DEF Sync, Forward, Snapshots
<1>3. \A v \in Workers : ~SavePushed(v)
  BY <1>0 DEF SavePushed
<1>4. \A f \in Fields : (Settled(f) => Settled(f)') /\ (Excused(f) => Excused(f)')
  BY <1>0, <1>3, SettledKept DEF Sync
<1>5. CASE s.at <= linkAt
  <2>1. UNCHANGED <<pc, snap, read, link>>
    BY <1>1, <1>5
  <2>2. \A v \in Workers : Held(v)'
    BY <1>0, <2>1, HeldKept DEF Merging, Waiting, Queue
  <2>3. Snapshots => Snapshots'
    BY <1>0, <1>1, <2>1 DEF Snapshots, Newest
  <2>4. linkAt < remoteAt /\ NewsDue => NewsDue'
    <3>1. SUFFICES ASSUME linkAt < remoteAt, NEW t \in inbox, Newest(t)
                   PROVE  NewsDue'
      BY <1>0, <2>1 DEF NewsDue, Newest
    <3>2. t # s
      BY <1>0, <1>5, <1>2, <3>1 DEF Newest
    <3>. QED
      BY <1>0, <1>1, <3>1, <3>2 DEF NewsDue, Newest
  <2>5. Followed'
    BY <1>0, <1>4, <2>1, SyncAssumption DEF Merging, Followed, SyncAssumption, Kept
  <2>6. ~tied => BaseNew' /\ TaskNew'
    BY <1>0, <1>4 DEF Merging, BaseNew, TaskNew
  <2>. QED
    BY <1>0, <2>2, <2>3, <2>4, <2>5, <2>6 DEF Merging
<1>6. CASE ~(s.at <= linkAt)
  <2>1. /\ pc' = [pc EXCEPT ![w] = "load"] /\ snap' = [snap EXCEPT ![w] = s]
        /\ link' = [link EXCEPT ![w] = [value |-> base, at |-> linkAt]]
    BY <1>1, <1>6 DEF Goto
  <2>2. linkAt < remoteAt
    BY <1>0, <1>2, <1>6
  <2>3. pc'[w] = "load" /\ snap'[w] = s /\ link'[w].value = base
    BY <1>0, <2>1
  <2>4. \A v \in Workers : Held(v)'
    BY <1>0, <2>3 DEF Held, Reconciling
  <2>5. Snapshots => Snapshots'
    BY <1>0, <1>1, <1>2, <2>3 DEF Snapshots, Newest
  <2>6. NewsDue => NewsDue'
    <3>1. SUFFICES ASSUME NEW t \in inbox, Newest(t)
                   PROVE  NewsDue'
      BY <1>0 DEF NewsDue, Newest, Reconciling
    <3>2. CASE t = s
      BY <1>0, <2>3, <3>1, <3>2 DEF NewsDue, Newest, Reconciling
    <3>3. CASE t # s
      BY <1>0, <1>1, <3>1, <3>3 DEF NewsDue, Newest
    <3>. QED
      BY <3>2, <3>3
  <2>7. Followed'
    BY <1>0, <1>4, SyncAssumption DEF Merging, Followed, SyncAssumption, Kept
  <2>. QED
    BY <1>0, <1>3, <2>2, <2>4, <2>5, <2>6, <2>7, MergingKept
<1>. QED
  BY <1>5, <1>6

(* The steps between the reads and the link's write.                       *)
LEMMA MergingReconcile ==
  ASSUME OneWorker, Sync, KeptLocal, Merging, [Next]_vars, NEW w \in Workers,
         LoadTask(w) \/ SaveConflicts(w) \/ SaveTask(w) \/ SaveLabels(w)
  PROVE  Merging'
<1>. USE DEF taskVars, linkVars, providerVars, jobVars, workerVars, userVars, historyVars
<1>0. /\ UNCHANGED <<base, linkAt, remote, remoteAt, inbox, updates, resolves, upc, edited,
                     snap, link, errors, lost, unsent, tied>>
      /\ pc[w] \in Reconciling /\ pc'[w] \in Reconciling
      /\ \A v \in Workers : v = w
      /\ linkAt < remoteAt
  BY DEF LoadTask, SaveConflicts, SaveTask, SaveLabels, Sync, Forward, Working, Goto,
         OneWorker, Reconciling
<1>1. \A v \in Workers : ~SavePushed(v)
  BY <1>0 DEF SavePushed, Reconciling
<1>2. \A f \in Fields : /\ (Settled(f) => Settled(f)') /\ (Excused(f) => Excused(f)')
                        /\ (Pending(f) => Pending(f)')
  BY <1>0, <1>1, PendingKept, SettledKept DEF Sync
<1>3. (Snapshots => Snapshots') /\ (NewsDue => NewsDue')
  BY <1>0 DEF Snapshots, NewsDue, Newest
<1>4. Held(w) /\ Followed
  BY DEF Merging
<1>5. DOMAIN pc = Workers /\ DOMAIN read = Workers
  BY DEF Sync, Forward, Counted
<1>6. Kept \subseteq Fields /\ Blocked(w) \subseteq Fields /\ Kept \cap LabelFields = {}
  BY SyncAssumption DEF SyncAssumption, Blocked, Kept
<1>7. Held(w)' /\ Followed'
  <2>1. CASE LoadTask(w)
    <3>1. /\ pc[w] = "load" /\ pc'[w] = "merge" /\ read'[w].value = task /\ UNCHANGED task
      BY <1>5, <2>1 DEF LoadTask, Goto
    <3>2. Followed'
      BY <1>0, <1>2, <1>4, <1>6, <3>1 DEF Followed
    <3>3. Held(w)'
      BY <1>0, <1>2, <1>4, <1>6, <3>1 DEF Held, Followed, Reconciling
    <3>. QED
      BY <3>2, <3>3
  <2>2. CASE SaveConflicts(w)
    <3>1. pc[w] = "merge" /\ pc'[w] = "task" /\ UNCHANGED <<task, read>>
      BY <1>5, <2>2 DEF SaveConflicts, Goto
    <3>2. Blocked(w)' = Blocked(w)
      BY <1>0, <3>1 DEF Blocked, RemoteChanged, LocalChanged, Local
    <3>3. ASSUME NEW f \in Blocked(w)
          PROVE  Open(f)'
      <4>. DEFINE new == [field |-> f, status |-> "open", local |-> read[w].value[f],
                          remote |-> snap[w].value[f], at |-> snap[w].at, resolution |-> "none"]
      <4>1. new \in conflicts'
        BY <2>2 DEF SaveConflicts
      <4>2. new.field = f /\ new.status = "open"
        OBVIOUS
      <4>. HIDE DEF new
      <4>. QED
        BY <4>1, <4>2 DEF Open, Row
    <3>4. Followed'
      BY <1>0, <1>2, <1>4, <1>6, <3>1 DEF Followed
    <3>5. Held(w)'
      BY <1>0, <1>2, <1>4, <1>6, <3>1, <3>2, <3>3 DEF Held, Settled, Reconciling
    <3>. QED
      BY <3>4, <3>5
  <2>3. CASE SaveTask(w)
    <3>1. pc[w] = "task" /\ pc'[w] = "labels" /\ UNCHANGED read
      BY <1>5, <2>3 DEF SaveTask, Goto
    <3>2. Blocked(w)' = Blocked(w) /\ Taken(w)' = Taken(w)
      BY <1>0, <3>1 DEF Blocked, Taken, RemoteChanged, LocalChanged, Local
    <3>3. \A f \in Fields : task'[f] = IF f \in Taken(w) \ LabelFields THEN snap[w].value[f]
                                                                      ELSE task[f]
      BY <2>3 DEF SaveTask, WriteTask
    <3>4. Followed'
      BY <3>1 DEF Followed
    <3>5. Held(w)'
      BY <1>0, <1>2, <1>4, <1>6, <3>1, <3>2, <3>3 DEF Held, Reconciling
    <3>. QED
      BY <3>4, <3>5
  <2>4. CASE SaveLabels(w)
    <3>1. pc[w] = "labels" /\ pc'[w] = "link" /\ UNCHANGED read
      BY <1>5, <2>4 DEF SaveLabels, Goto
    <3>2. Blocked(w)' = Blocked(w) /\ Taken(w)' = Taken(w)
      BY <1>0, <3>1 DEF Blocked, Taken, RemoteChanged, LocalChanged, Local
    <3>3. \A f \in Fields : task'[f] = IF f \in Taken(w) \cap LabelFields THEN snap[w].value[f]
                                                                         ELSE task[f]
      BY <2>4 DEF SaveLabels
    <3>4. Followed'
      BY <3>1 DEF Followed
    <3>5. Held(w)'
      BY <1>0, <1>2, <1>4, <1>6, <3>1, <3>2, <3>3 DEF Held, Reconciling
    <3>. QED
      BY <3>4, <3>5
  <2>. QED
    BY <2>1, <2>2, <2>3, <2>4
<1>. QED
  BY <1>0, <1>1, <1>3, <1>7, MergingKept

(* The link's write: what the merge left of base and task is what the      *)
(* snapshot says, but for the fields in conflict.                          *)
LEMMA MergingSaveLink ==
  ASSUME OneWorker, Sync, KeptLocal, Merging, [Next]_vars, NEW w \in Workers, SaveLink(w)
  PROVE  Merging'
<1>. USE DEF taskVars, linkVars, providerVars, jobVars, workerVars, userVars, historyVars
<1>0. /\ UNCHANGED <<task, remote, remoteAt, inbox, updates, resolves, upc, edited, errors,
                     lost, unsent, tied>>
      /\ pc[w] = "link" /\ pc'[w] = "idle" /\ linkAt' = snap[w].at /\ base' = Merged(w)
      /\ \A v \in Workers : v = w
      /\ snap[w].at \in Nat /\ snap[w].at <= remoteAt /\ remoteAt \in Nat
  BY DEF SaveLink, Sync, Forward, Working, Rest, Goto, OneWorker, Reconciling
<1>1. \A v \in Workers : ~SavePushed(v)
  BY <1>0 DEF SavePushed
<1>2. \A f \in Fields : /\ (Settled(f) => Settled(f)') /\ (Excused(f) => Excused(f)')
                        /\ (Pending(f) => Pending(f)')
  BY <1>0, <1>1, PendingKept, SettledKept DEF Sync
<1>3. Held(w) /\ (Snapshots /\ snap[w].at = remoteAt => Newest(snap[w]))
  BY <1>0 DEF Merging, Snapshots, Reconciling
<1>4. Kept \subseteq Fields /\ FlaggedFields \cap StatusFields = {}
  BY SyncAssumption DEF SyncAssumption, Kept
<1>5. ASSUME NEW f \in Fields
      PROVE  base'[f] = snap[w].value[f] \/ Settled(f)'
  BY <1>0, <1>2, <1>3 DEF Merged, Held
<1>6. ASSUME NEW f \in Fields
      PROVE  task[f] = snap[w].value[f] \/ Excused(f)'
  <2>1. CASE Pending(f) \/ f \in Blocked(w)
    BY <1>0, <1>2, <1>3, <2>1 DEF Held, Settled, Excused, Pending
  <2>2. CASE ~Pending(f) /\ f \notin Blocked(w)
    <3>1. task[f] = IF f \in Taken(w) THEN snap[w].value[f] ELSE read[w].value[f]
      BY <1>0, <1>3, <2>2 DEF Held
    <3>2. CASE f \in Taken(w)
      BY <3>1, <3>2
    <3>3. CASE f \notin Taken(w)
      <4>1. f \in Kept => read[w].value[f] = link[w].value[f] \/ Excused(f)
        BY <1>0, <1>3 DEF Held
      <4>2. \/ Local(w, f) = snap[w].value[f]
            \/ f \in StatusFields /\ link[w].value[f] = snap[w].value[f]
        BY <2>2, <3>3 DEF Taken, RemoteChanged
      <4>3. \/ Local(w, f) = read[w].value[f]
            \/ f \in FlaggedFields /\ Local(w, f) = link[w].value[f]
        BY DEF Local
      <4>. QED
        BY <1>2, <1>4, <3>1, <3>3, <4>1, <4>2, <4>3 DEF Kept
    <3>. QED
      BY <3>2, <3>3
  <2>. QED
    BY <2>1, <2>2
<1>7. Snapshots => Snapshots'
  BY <1>0 DEF Snapshots, Newest, Reconciling
<1>8. ~tied /\ linkAt' < remoteAt' => NewsDue'
  <2>1. linkAt < snap[w].at
    BY <1>0 DEF Sync, Forward, Working, Reconciling
  <2>2. SUFFICES ASSUME ~tied, snap[w].at < remoteAt
                 PROVE  NewsDue'
    BY <1>0
  <2>3. NewsDue /\ ~Newest(snap[w])
    BY <1>0, <2>1, <2>2 DEF Merging, Newest, Sync, Forward
  <2>. QED
    BY <1>0, <2>3 DEF NewsDue, Newest
<1>9. Snapshots => BaseNew' /\ TaskNew'
  BY <1>0, <1>3, <1>5, <1>6 DEF BaseNew, TaskNew, Newest
<1>10. Followed'
  BY <1>0, <1>4, <1>5, <1>6 DEF Followed, Excused, Kept
<1>11. \A v \in Workers : Held(v)'
  BY <1>0 DEF Held, Reconciling
<1>. QED
  BY <1>0, <1>7, <1>8, <1>9, <1>10, <1>11 DEF Merging

(* A push sends the task as it was read; an edit since then is due in turn. *)
LEMMA MergingUpdate ==
  ASSUME OneWorker, Sync, KeptLocal, Merging, [Next]_vars, NEW w \in Workers,
         TakeUpdate(w) \/ Push(w)
  PROVE  Merging'
<1>. USE DEF taskVars, linkVars, providerVars, jobVars, workerVars, userVars, historyVars
<1>0. /\ UNCHANGED <<task, base, linkAt, upc, edited, resolves, link, errors>>
      /\ pc[w] \in {"idle", "push"} /\ pc'[w] \in {"push", "pushed"}
      /\ \A v \in Workers : v = w
      /\ linkAt \in Nat /\ remoteAt \in Nat /\ clock \in Nat
      /\ linkAt <= remoteAt /\ remoteAt <= clock
      /\ DOMAIN pc = Workers /\ DOMAIN read = Workers /\ DOMAIN snap = Workers
  BY DEF TakeUpdate, Push, Sync, Forward, Goto, OneWorker, Counted
<1>1. PushDue'
  BY <1>0 DEF PushDue
<1>2. Followed' /\ BaseNew' /\ TaskNew'
  BY <1>1 DEF Followed, BaseNew, TaskNew, Excused, Settled
<1>3. CASE TakeUpdate(w)
  <2>1. /\ UNCHANGED <<remote, remoteAt, inbox, snap, tied>>
        /\ pc[w] = "idle" /\ pc'[w] = "push" /\ read'[w].value = task
    BY <1>0, <1>3 DEF TakeUpdate, Goto
  <2>2. (Snapshots => Snapshots') /\ (NewsDue => NewsDue')
    BY <1>0, <2>1 DEF Snapshots, NewsDue, Newest, Reconciling
  <2>3. Held(w)'
    BY <1>0, <2>1 DEF Held, Reconciling
  <2>. QED
    BY <1>0, <1>2, <2>1, <2>2, <2>3 DEF Merging
<1>4. CASE Push(w)
  <2>. DEFINE new == [value |-> remote', at |-> remoteAt']
  <2>1. /\ pc[w] = "push" /\ pc'[w] = "pushed" /\ snap'[w] = new
        /\ new.value = remote' /\ new.at = remoteAt' /\ UNCHANGED <<updates, read, lost>>
        /\ unsent' = {f \in Fields : remote'[f] # read[w].value[f]}
        /\ \/ UNCHANGED <<remote, remoteAt, inbox, tied>>
           \/ /\ remoteAt' \in remoteAt..(clock + 1) /\ inbox' = inbox \cup {new}
              /\ tied' = (remoteAt' = remoteAt)
    BY <1>0, <1>4 DEF Push, Goto, RemoteStamp, Stamp
  <2>. HIDE DEF new
  <2>2. Held(w)'
    <3>1. \A f \in Fields : Waiting(f)' = Waiting(f)
      BY <1>0, <2>1 DEF Waiting, Queue
    <3>2. \A f \in Fields : task[f] = read[w].value[f] \/ Waiting(f)
      BY <2>1 DEF Merging, Held
    <3>3. \A f \in Fields : task'[f] = snap'[w].value[f] \/ Waiting(f)' \/ f \in unsent'
      BY <1>0, <2>1, <3>1, <3>2
    <3>. QED
      BY <2>1, <3>3 DEF Held, Reconciling
  <2>3. CASE UNCHANGED <<remote, remoteAt, inbox, tied>>
    <3>1. (Snapshots => Snapshots') /\ (NewsDue => NewsDue')
      BY <1>0, <2>1, <2>3 DEF Snapshots, NewsDue, Newest, Reconciling
    <3>. QED
      BY <1>0, <1>2, <2>2, <2>3, <3>1 DEF Merging
  <2>4. CASE /\ remoteAt' \in remoteAt..(clock + 1) /\ inbox' = inbox \cup {new}
             /\ tied' = (remoteAt' = remoteAt)
    <3>1. ASSUME ~tied'
          PROVE  Snapshots' /\ NewsDue'
      <4>0. remoteAt' # remoteAt
        BY <2>4, <3>1, Zenon
      <4>1. remoteAt < remoteAt' /\ remoteAt' \in Nat
        BY <1>0, <2>4, <4>0
      <4>2. Snapshots'
        BY <1>0, <2>1, <2>4, <4>1 DEF Snapshots, Newest, Sync, Forward
      <4>3. NewsDue'
        BY <2>1, <2>4 DEF NewsDue, Newest
      <4>. QED
        BY <4>2, <4>3
    <3>2. \A v \in Workers : Held(v)'
      BY <1>0, <2>2
    <3>. QED
      BY <1>2, <3>1, <3>2 DEF Merging
  <2>. QED
    BY <2>1, <2>3, <2>4
<1>. QED
  BY <1>3, <1>4

(* The push is done: base and provider are the same, and so is the task,   *)
(* but for what was not sent and for what made them differ since.          *)
LEMMA MergingSavePushed ==
  ASSUME OneWorker, Sync, KeptLocal, Merging, [Next]_vars, NEW w \in Workers, SavePushed(w)
  PROVE  Merging'
<1>. USE DEF taskVars, linkVars, providerVars, jobVars, workerVars, userVars, historyVars
<1>0. /\ UNCHANGED <<task, remote, remoteAt, inbox, updates, resolves, upc, edited, conflicts,
                     lost, unsent, tied>>
      /\ pc[w] = "pushed" /\ pc'[w] = "idle" /\ linkAt' = snap[w].at /\ base' = snap[w].value
      /\ \A v \in Workers : v = w
      /\ linkAt \in Nat /\ linkAt <= snap[w].at
      /\ snap[w].at \in Nat /\ snap[w].at <= remoteAt /\ remoteAt \in Nat
  BY DEF SavePushed, Sync, Forward, Working, Rest, Goto, OneWorker
<1>1. \A f \in Fields : Waiting(f)' = Waiting(f)
  BY <1>0 DEF Waiting, Queue
<1>2. /\ \A f \in Fields : task[f] = snap[w].value[f] \/ Waiting(f) \/ f \in unsent
      /\ Snapshots /\ snap[w].at = remoteAt => Newest(snap[w])
  BY <1>0 DEF Merging, Held, Snapshots
<1>3. Kept \subseteq Fields
  BY SyncAssumption DEF SyncAssumption, Kept
<1>4. Snapshots => Snapshots'
  BY <1>0 DEF Snapshots, Newest, Reconciling
<1>5. ~tied /\ linkAt' < remoteAt' => NewsDue'
  <2>1. ~tied /\ linkAt' < remoteAt' => NewsDue
    BY <1>0 DEF Merging
  <2>2. NewsDue => \E s \in inbox : Newest(s)
    BY <1>0 DEF NewsDue, Reconciling
  <2>. QED
    BY <1>0, <2>1, <2>2 DEF NewsDue, Newest
<1>6. Snapshots => BaseNew' /\ TaskNew'
  BY <1>0, <1>1, <1>2 DEF BaseNew, TaskNew, Newest, Excused
<1>7. Followed'
  BY <1>0, <1>1, <1>2, <1>3 DEF Followed, Excused
<1>8. \A v \in Workers : Held(v)'
  BY <1>0 DEF Held, Reconciling
<1>. QED
  BY <1>0, <1>4, <1>5, <1>6, <1>7, <1>8 DEF Merging

(* A step that fails gives back what the worker had taken.                 *)
LEMMA MergingFails ==
  ASSUME OneWorker, Sync, KeptLocal, Merging, [Next]_vars, NEW w \in Workers, StepFails(w)
  PROVE  Merging'
<1>. USE DEF taskVars, linkVars, providerVars, jobVars, workerVars, userVars, historyVars
<1>0. /\ UNCHANGED <<task, base, linkAt, remote, remoteAt, tied>>
      /\ pc[w] # "idle" /\ pc'[w] = "idle"
      /\ \A v \in Workers : v = w
      /\ errors \in Nat /\ errors' = errors + 1
      /\ DOMAIN pc = Workers
  BY DEF StepFails, Sync, Forward, Counted, Rest, Goto, OneWorker
<1>1. \A v \in Workers : ~SavePushed(v)
  BY DEF SavePushed, StepFails, Sync, Counted
<1>2. \A v \in Workers : Held(v)'
  BY <1>0 DEF Held, Reconciling
<1>3. Followed'
  BY <1>0 DEF Followed, Excused, LeftByFailure, Kept
<1>4. inbox \subseteq inbox' /\ (pc[w] \in Reconciling => inbox' = inbox \cup {snap[w]})
      /\ (pc[w] \notin Reconciling => inbox' = inbox)
  BY DEF StepFails, Reconciling
<1>5. Snapshots => Snapshots'
  BY <1>0, <1>4 DEF Snapshots, Newest, Reconciling
<1>6. NewsDue => NewsDue'
  BY <1>0, <1>4 DEF NewsDue, Newest
<1>. QED
  BY <1>0, <1>1, <1>2, <1>3, <1>5, <1>6, MergingKept

LEMMA MergingResolve ==
  ASSUME OneWorker, Sync, KeptLocal, Merging, [Next]_vars, NEW w \in Workers, Resolve(w)
  PROVE  Merging'
<1>. USE DEF taskVars, linkVars, providerVars, jobVars, workerVars, userVars, historyVars
<1>1. \A r \in resolves : r.resolution = "local"
  BY DEF Sync, Forward, Resolved, KeptLocal
<1>2. TakeResolve(w)
  BY DEF Resolve, ApplyRemote, SaveResolved, Sync, Forward, Working, Resolved, KeptLocal
<1>3. /\ UNCHANGED <<task, base, linkAt, remote, remoteAt, inbox, pc, snap, read, link, unsent,
                     tied>>
      /\ \E carried \in Scopes : Queued(carried)
  BY <1>1, <1>2 DEF TakeResolve, Scope, Scopes
<1>4. \A v \in Workers : ~SavePushed(v)
  BY <1>3 DEF SavePushed, Rest, Goto, Sync, Forward
<1>5. Queue'
  BY <1>3 DEF Queued, Queue, Scopes, Sync, Counted
<1>6. PushDue' /\ \A f \in Fields : Waiting(f)'
  BY <1>5 DEF PushDue, Waiting
<1>7. \A v \in Workers : Held(v)'
  BY <1>3, <1>6, HeldKept DEF Merging
<1>8. Followed'
  BY <1>6 DEF Followed, Excused, Settled
<1>9. (Snapshots => Snapshots') /\ (NewsDue => NewsDue')
  BY <1>3 DEF Snapshots, NewsDue, Newest
<1>. QED
  BY <1>3, <1>4, <1>7, <1>8, <1>9, MergingKept

LEMMA MergingInv ==
  ASSUME OneWorker
  PROVE  Spec => [](KeptLocal => Merging)
<1>1. Init => OpenRows /\ Merging
  <2>1. ASSUME Init
        PROVE  Merging
    BY <2>1, SyncAssumption
       DEF Init, Merging, Snapshots, BaseNew, TaskNew, Followed, Held, Reconciling,
           SyncAssumption, Kept
  <2>. QED
    BY <2>1 DEF Init, OpenRows
<1>2. Counted /\ Viewed /\ Forward /\ OpenRows /\ (KeptLocal => Merging) /\ [Next]_vars
      => OpenRows' /\ (KeptLocal => Merging)'
  <2>1. SUFFICES ASSUME Sync, KeptLocal => Merging, [Next]_vars, KeptLocal'
                 PROVE  Merging'
    BY OpenRowsStep DEF Sync
  <2>2. KeptLocal /\ Merging
    BY <2>1, KeptLocalBefore DEF Sync
  <2>3. CASE UNCHANGED vars
    BY <2>2, <2>3 DEF vars, taskVars, linkVars, providerVars, jobVars, workerVars, userVars,
       historyVars, Merging, Snapshots, NewsDue, Newest, BaseNew, TaskNew, Followed, Excused,
       Settled, Open, Row, PushDue, Queue, Waiting, Pending, Kept, LeftByFailure, Held, Blocked,
       Taken, Local, RemoteChanged, LocalChanged
  <2>4. CASE Next
    BY <2>1, <2>2, <2>4, MergingProvider, MergingUsers, MergingLoadLink, MergingReconcile,
       MergingSaveLink, MergingUpdate, MergingSavePushed, MergingResolve, MergingFails
       DEF Next, Reconcile, Update
  <2>. QED
    BY <2>1, <2>3, <2>4
<1>. QED
  BY <1>1, <1>2, CountedInv, ViewedInv, ForwardInv, PTL DEF Spec

(* The base is what the provider last said (external_links.field_snapshot, *)
(* which the next three-way merge compares with): with one worker, however *)
(* edits on both sides, deliveries, pushes and failures interleave, once   *)
(* nothing is left to do it differs from the issue only in fields with an  *)
(* open conflict, as long as every conflict was resolved for the local     *)
(* side and the provider's last two changes have stamps of their own.      *)
THEOREM MergeBaseIsTrue ==
  ASSUME OneWorker
  PROVE  Spec => []BaseIsTrue
<1>1. Forward /\ (KeptLocal => Merging) => BaseIsTrue
  <2>. SUFFICES ASSUME Forward, Merging, Quiet, ~tied, NEW f \in Fields
                PROVE  base[f] = remote[f] \/ Open(f)
    BY DEF BaseIsTrue
  <2>1. ~PushDue /\ ~NewsDue
    BY DEF Quiet, PushDue, Queue, NewsDue, Reconciling
  <2>. QED
    BY <2>1 DEF Merging, BaseNew, Settled, Forward
<1>. QED
  BY <1>1, ForwardInv, MergingInv, PTL

(* Under the same conditions task and issue agree: every difference is in  *)
(* a field with an open conflict, was edited without its update being      *)
(* queued, was not carried by the last push, or is a status or an assignee *)
(* that a failed attempt left behind.                                      *)
THEOREM SidesAgree ==
  ASSUME OneWorker
  PROVE  Spec => []Agreement
<1>1. Forward /\ (KeptLocal => Merging) => Agreement
  <2>. SUFFICES ASSUME Forward, Merging, Quiet, ~tied, NEW f \in Fields
                PROVE  task[f] = remote[f] \/ Open(f) \/ f \in lost \/ f \in unsent
                         \/ LeftByFailure(f)
    BY DEF Agreement
  <2>1. ~PushDue /\ ~NewsDue
    BY DEF Quiet, PushDue, Queue, NewsDue, Reconciling
  <2>2. Waiting(f) => f \in lost
    BY <2>1 DEF Waiting, PushDue, Quiet
  <2>. QED
    BY <2>1, <2>2 DEF Merging, TaskNew, Excused, Settled, Forward
<1>. QED
  BY <1>1, ForwardInv, MergingInv, PTL

=============================================================================
