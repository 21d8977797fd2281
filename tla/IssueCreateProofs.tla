------------------------- MODULE IssueCreateProofs --------------------------
(***************************************************************************)
(* Theorems about IssueCreate, for any requests, jobs, issues and bounds.  *)
(*                                                                         *)
(* That a run shown as succeeded is linked holds for any number of workers *)
(* (Shown).  Where the extra issues and twin tasks come from is a matter   *)
(* of one worker, as two may both find no link: then every issue is the    *)
(* linked one, the one about to be linked, or one that something lost paid *)
(* for, and so is every stray task but the one being linked (Books).       *)
(***************************************************************************)
EXTENDS IssueCreate, FiniteSetTheorems, TLAPS

OneWorker == \A v, w \in Workers : v = w

Shapes ==
  /\ link \in Issues \cup {NoIssue} /\ issues \subseteq Issues
  /\ imported \subseteq issues /\ inbox \subseteq issues
  /\ task \in {"there", "deleted"} /\ strays \in Int /\ lost \in Nat
  /\ pc \in [Workers -> Steps] /\ got \in [Workers -> Issues \cup {NoIssue}]
  /\ \A w \in Workers : pc[w] \in {"link", "find", "importTask", "importLink"} => got[w] \in issues

(* A worker is done, and the event succeeds, once the link is there or the *)
(* task is gone.                                                           *)
Shown ==
  /\ SucceededIsLinked
  /\ \A w \in Workers : pc[w] = "done" => link # NoIssue \/ task = "deleted"

(* What the only worker knows still holds when it acts on it. *)
Fresh ==
  /\ link # NoIssue => link \in issues \ imported
  /\ \A w \in Workers :
       /\ pc[w] \in {"create", "link"} => link = NoIssue
       /\ pc[w] = "link" => got[w] \notin imported
       /\ pc[w] \in {"importTask", "importLink"} => ~Linked(got[w])

Kept      == IF link # NoIssue \/ \E w \in Workers : pc[w] = "link" THEN 1 ELSE 0
Importing == IF \E w \in Workers : pc[w] = "importLink" THEN 1 ELSE 0

Books == Importing <= strays /\ Cardinality(issues) + strays <= lost + Kept + Importing

CreateInv == Shapes /\ Fresh /\ Books

-----------------------------------------------------------------------------
LEMMA ShapesInv == Spec => []Shapes
<1>. USE CreateAssumption DEF CreateAssumption, Shapes, Steps, runVars, localVars, remoteVars,
         workerVars, bounds
<1>1. Init => Shapes
  BY DEF Init
<1>2. Shapes /\ [Next]_vars => Shapes'
  <2>. SUFFICES ASSUME Shapes, [Next]_vars
                PROVE  Shapes'
    OBVIOUS
  <2>1. ASSUME NEW r \in Requests, Request(r)
        PROVE  Shapes'
    BY <2>1 DEF Request, TouchTask, InsertEvent, LoadEvent, RequeueEvent, EnqueueCreate,
                EnqueueFails, RequestGone, Error, Lose
  <2>0. CASE DeleteTask \/ UNCHANGED vars
    BY <2>0 DEF DeleteTask, vars
  <2>2. ASSUME NEW w \in Workers, Claim(w) \/ MarkProcessing(w) \/ CheckLink(w) \/ MarkEvent(w)
                                    \/ Settle(w) \/ Crash(w)
        PROVE  Shapes'
    BY <2>2 DEF Claim, MarkProcessing, CheckLink, MarkEvent, Settle, Crash, Goto, Lose
  <2>3. ASSUME NEW w \in Workers, CreateIssue(w) \/ CreateUnanswered(w)
        PROVE  Shapes'
    BY <2>3 DEF CreateIssue, CreateUnanswered, NewIssue, Goto, Lose
  <2>4. ASSUME NEW w \in Workers, SaveIssueLink(w)
        PROVE  Shapes'
    BY <2>4 DEF SaveIssueLink, Goto
  <2>5. ASSUME NEW w \in Workers, CreateFails(w) \/ LinkFails(w) \/ MarkFails(w)
        PROVE  Shapes'
    BY <2>5 DEF CreateFails, LinkFails, MarkFails, Goto, Error, Lose
  <2>6. ASSUME NEW w \in Workers, TakeInbound(w) \/ FindLink(w) \/ ImportTask(w)
        PROVE  Shapes'
    BY <2>6 DEF TakeInbound, FindLink, ImportTask, Goto
  <2>7. ASSUME NEW w \in Workers, ImportLink(w)
        PROVE  Shapes'
    BY <2>7 DEF ImportLink, Goto
  <2>. QED
    BY <2>0, <2>1, <2>2, <2>3, <2>4, <2>5, <2>6, <2>7 DEF Next, Process, Inbound
<1>. QED
  BY <1>1, <1>2, PTL DEF Spec

(* The deferred function of processIssueCreate marks a run as succeeded    *)
(* only with the link in place or the task gone, and nothing takes a link  *)
(* away again: with any number of workers, errors, lost answers, requeued  *)
(* events, and a task that is deleted at any moment.                       *)
THEOREM SucceededRunsLinked == Spec => []SucceededIsLinked
<1>. USE DEF Shown, SucceededIsLinked, runVars, localVars, remoteVars, workerVars, bounds
<1>1. Init => Shown
  BY DEF Init
<1>2. Shapes /\ Shown /\ [Next]_vars => Shown'
  <2>. SUFFICES ASSUME Shapes, Shown, [Next]_vars
                PROVE  Shown'
    OBVIOUS
  <2>1. ASSUME NEW r \in Requests, Request(r)
        PROVE  Shown'
    BY <2>1 DEF Request, TouchTask, InsertEvent, LoadEvent, RequeueEvent, EnqueueCreate,
                EnqueueFails, RequestGone
  <2>2. CASE DeleteTask \/ UNCHANGED vars
    BY <2>2 DEF DeleteTask, vars
  <2>3. ASSUME NEW w \in Workers, SaveIssueLink(w)
        PROVE  Shown'
    BY <2>3, CreateAssumption DEF SaveIssueLink, Goto, Shapes, CreateAssumption
  <2>4. ASSUME NEW w \in Workers, Claim(w) \/ MarkProcessing(w) \/ CheckLink(w) \/ MarkEvent(w)
                                    \/ Settle(w) \/ Crash(w) \/ CreateIssue(w)
                                    \/ CreateUnanswered(w)
        PROVE  Shown'
    BY <2>4 DEF Claim, MarkProcessing, CheckLink, MarkEvent, Settle, Crash, CreateIssue,
                CreateUnanswered, Goto, Shapes
  <2>5. ASSUME NEW w \in Workers, CreateFails(w) \/ LinkFails(w) \/ MarkFails(w) \/ TakeInbound(w)
                                    \/ FindLink(w) \/ ImportTask(w) \/ ImportLink(w)
        PROVE  Shown'
    BY <2>5 DEF CreateFails, LinkFails, MarkFails, TakeInbound, FindLink, ImportTask, ImportLink,
                Goto, Shapes
  <2>. QED
    BY <2>1, <2>2, <2>3, <2>4, <2>5 DEF Next, Process, Inbound
<1>. QED
  BY <1>1, <1>2, ShapesInv, PTL DEF Spec

-----------------------------------------------------------------------------
LEMMA IssuesCounted ==
  ASSUME Shapes
  PROVE  /\ IsFiniteSet(issues) /\ Cardinality(issues) \in Nat
         /\ \A i \in Issues \ issues : Cardinality(issues \cup {i}) = Cardinality(issues) + 1
<1>1. IsFiniteSet(issues)
  BY FS_Subset, CreateAssumption DEF CreateAssumption, Shapes
<1>. QED
  BY <1>1, FS_CardinalityType, FS_AddElement

LEMMA FreshInv ==
  ASSUME OneWorker
  PROVE  Spec => []Fresh
<1>. USE CreateAssumption DEF CreateAssumption, Fresh, Linked, runVars, localVars, remoteVars,
         workerVars, bounds
<1>1. Init => Fresh
  BY DEF Init
<1>2. Shapes /\ Fresh /\ [Next]_vars => Fresh'
  <2>. SUFFICES ASSUME Shapes, Fresh, [Next]_vars
                PROVE  Fresh'
    OBVIOUS
  <2>. USE DEF OneWorker, Shapes
  <2>1. ASSUME NEW r \in Requests, Request(r)
        PROVE  Fresh'
    BY <2>1 DEF Request, TouchTask, InsertEvent, LoadEvent, RequeueEvent, EnqueueCreate,
                EnqueueFails, RequestGone
  <2>2. CASE DeleteTask \/ UNCHANGED vars
    BY <2>2 DEF DeleteTask, vars
  <2>3. ASSUME NEW w \in Workers, Claim(w) \/ MarkProcessing(w) \/ CheckLink(w) \/ MarkEvent(w)
                                    \/ Settle(w) \/ Crash(w)
        PROVE  Fresh'
    BY <2>3 DEF Claim, MarkProcessing, CheckLink, MarkEvent, Settle, Crash, Goto
  <2>4. ASSUME NEW w \in Workers, CreateIssue(w) \/ CreateUnanswered(w)
        PROVE  Fresh'
    BY <2>4 DEF CreateIssue, CreateUnanswered, NewIssue, Goto
  <2>5. ASSUME NEW w \in Workers, SaveIssueLink(w)
        PROVE  Fresh'
    BY <2>5 DEF SaveIssueLink, Goto
  <2>6. ASSUME NEW w \in Workers, CreateFails(w) \/ LinkFails(w) \/ MarkFails(w)
        PROVE  Fresh'
    BY <2>6 DEF CreateFails, LinkFails, MarkFails, Goto
  <2>7. ASSUME NEW w \in Workers, TakeInbound(w) \/ FindLink(w) \/ ImportTask(w)
        PROVE  Fresh'
    BY <2>7 DEF TakeInbound, FindLink, ImportTask, Goto
  <2>8. ASSUME NEW w \in Workers, ImportLink(w)
        PROVE  Fresh'
    BY <2>8 DEF ImportLink, Goto
  <2>. QED
    BY <2>1, <2>2, <2>3, <2>4, <2>5, <2>6, <2>7, <2>8 DEF Next, Process, Inbound
<1>. QED
  BY <1>1, <1>2, ShapesInv, PTL DEF Spec

(* processIssueCreate makes no issue once the task has its link: one worker *)
(* looks for the link in the job in which it makes the issue, and nobody    *)
(* else links the task.                                                     *)
THEOREM NoIssueOnceLinked ==
  ASSUME OneWorker
  PROVE  Spec => NoCreateAfterLink
<1>1. Fresh /\ [Next]_vars => [issues' # issues => link = NoIssue]_vars
  <2>. SUFFICES ASSUME Fresh, Next, issues' # issues
                PROVE  link = NoIssue
    OBVIOUS
  <2>. USE DEF runVars, localVars, remoteVars, workerVars, bounds
  <2>1. PICK w \in Workers : CreateIssue(w) \/ CreateUnanswered(w)
    BY DEF Next, DeleteTask, Request, Process, Inbound, TouchTask, InsertEvent, LoadEvent,
           RequeueEvent, EnqueueCreate, EnqueueFails, RequestGone, Claim, MarkProcessing, CheckLink,
           SaveIssueLink, MarkEvent, Settle, TakeInbound, FindLink, ImportTask, ImportLink,
           CreateFails, LinkFails, MarkFails, Crash
  <2>. QED
    BY <2>1 DEF Fresh, CreateIssue, CreateUnanswered
<1>. QED
  BY <1>1, FreshInv, PTL DEF Spec, NoCreateAfterLink

LEMMA BooksInv ==
  ASSUME OneWorker
  PROVE  Spec => []Books
<1>. USE CreateAssumption DEF CreateAssumption, Books, Kept, Importing, runVars, localVars,
         remoteVars, workerVars, bounds
<1>1. Init => Books
  BY FS_EmptySet DEF Init
<1>2. Shapes /\ Fresh /\ Books /\ [Next]_vars => Books'
  <2>. SUFFICES ASSUME Shapes, Fresh, Books, [Next]_vars
                PROVE  Books'
    OBVIOUS
  <2>. USE IssuesCounted DEF OneWorker, Shapes
  <2>1. ASSUME NEW r \in Requests, Request(r)
        PROVE  Books'
    BY <2>1 DEF Request, TouchTask, InsertEvent, LoadEvent, RequeueEvent, EnqueueCreate,
                EnqueueFails, RequestGone, Error, Lose
  <2>2. CASE DeleteTask \/ UNCHANGED vars
    BY <2>2 DEF DeleteTask, vars
  <2>3. ASSUME NEW w \in Workers, Claim(w) \/ MarkProcessing(w) \/ CheckLink(w) \/ MarkEvent(w)
                                    \/ Settle(w)
        PROVE  Books'
    BY <2>3 DEF Claim, MarkProcessing, CheckLink, MarkEvent, Settle, Goto
  <2>4. ASSUME NEW w \in Workers, CreateIssue(w)
        PROVE  Books'
    BY <2>4 DEF CreateIssue, NewIssue, Fresh, Goto
  <2>5. ASSUME NEW w \in Workers, CreateUnanswered(w)
        PROVE  Books'
    BY <2>5 DEF CreateUnanswered, NewIssue, Goto, Lose
  <2>6. ASSUME NEW w \in Workers, SaveIssueLink(w)
        PROVE  Books'
    BY <2>6 DEF SaveIssueLink, Fresh, Goto
  <2>7. ASSUME NEW w \in Workers, CreateFails(w) \/ LinkFails(w) \/ MarkFails(w) \/ Crash(w)
        PROVE  Books'
    BY <2>7 DEF CreateFails, LinkFails, MarkFails, Crash, Goto, Error, Lose
  <2>8. ASSUME NEW w \in Workers, TakeInbound(w) \/ FindLink(w) \/ ImportTask(w)
        PROVE  Books'
    BY <2>8 DEF TakeInbound, FindLink, ImportTask, Goto
  <2>9. ASSUME NEW w \in Workers, ImportLink(w)
        PROVE  Books'
    BY <2>9 DEF ImportLink, Fresh, Goto
  <2>. QED
    BY <2>1, <2>2, <2>3, <2>4, <2>5, <2>6, <2>7, <2>8, <2>9 DEF Next, Process, Inbound
<1>. QED
  BY <1>1, <1>2, ShapesInv, FreshInv, PTL DEF Spec

(* One worker makes a second provider issue for a task only after an       *)
(* answer, a link or a process was lost: retries, edits and requeued       *)
(* events make none (server.go 1697-1698).                                 *)
THEOREM IssuesAccounted ==
  ASSUME OneWorker
  PROVE  Spec => []IssuesExplained
<1>1. Shapes /\ Books => IssuesExplained
  BY IssuesCounted DEF Shapes, Books, Kept, Importing, IssuesExplained
<1>. QED
  BY <1>1, ShapesInv, BooksInv, PTL

(* And reconcileIssue makes a second local task of the issue only after    *)
(* such a loss.                                                            *)
THEOREM TwinsAccounted ==
  ASSUME OneWorker
  PROVE  Spec => []TwinsExplained
<1>1. Shapes /\ Fresh /\ Books => TwinsExplained
  <2>. SUFFICES ASSUME Shapes, Fresh, Books
                PROVE  TwinsExplained
    OBVIOUS
  <2>. DEFINE atLink == {w \in Workers : pc[w] = "importLink"}
  <2>1. Cardinality(imported) \in Nat /\ Cardinality(imported) + Kept <= Cardinality(issues)
    <3>1. IsFiniteSet(imported) /\ Cardinality(imported) \in Nat
          /\ Cardinality(imported) <= Cardinality(issues)
      BY IssuesCounted, FS_Subset, FS_CardinalityType DEF Shapes
    <3>2. CASE link # NoIssue \/ \E w \in Workers : pc[w] = "link"
      <4>1. PICK i \in issues : i \notin imported
        BY <3>2 DEF Fresh, Shapes
      <4>2. Cardinality(imported \cup {i}) = Cardinality(imported) + 1
            /\ Cardinality(imported \cup {i}) <= Cardinality(issues)
        BY <3>1, <4>1, IssuesCounted, FS_AddElement, FS_Subset DEF Shapes
      <4>. QED
        BY <3>1, <3>2, <4>2 DEF Kept
    <3>3. CASE ~(link # NoIssue \/ \E w \in Workers : pc[w] = "link")
      BY <3>1, <3>3, IssuesCounted DEF Kept
    <3>. QED
      BY <3>2, <3>3
  <2>2. Cardinality(atLink) = Importing
    <3>1. CASE atLink = {}
      BY <3>1, FS_EmptySet DEF Importing
    <3>2. ASSUME NEW w \in atLink
          PROVE  Cardinality(atLink) = Importing
      <4>1. atLink = {w}
        BY DEF OneWorker
      <4>. QED
        BY <4>1, FS_Singleton DEF Importing
    <3>. QED
      BY <3>1, <3>2
  <2>. QED
    BY <2>1, <2>2, IssuesCounted DEF TwinsExplained, Books, Shapes, Kept, Importing
<1>. QED
  BY <1>1, ShapesInv, FreshInv, BooksInv, PTL

=============================================================================
