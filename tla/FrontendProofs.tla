--------------------------- MODULE FrontendProofs ---------------------------
(***************************************************************************)
(* Theorems about the pages of the frontend, for any rows, columns, pages, *)
(* users, clients, requests and answers lost: the board and its drag       *)
(* (KanbanBoard), the edit dialogs of the workspace (Workspace), the       *)
(* connection of the integrations view (Integrations), the page links of   *)
(* the settings (Settings), the conversion of requests (RequestInbox) and  *)
(* the platform's administrators (PlatformAdmin).  They share no state;    *)
(* each section has its own invariant.                                     *)
(***************************************************************************)
EXTENDS Workspace, KanbanBoard, Integrations, Settings, RequestInbox, PlatformAdmin,
        FiniteSetTheorems, TLAPS

-----------------------------------------------------------------------------
(* KanbanBoard *)

KbSpec == KbInit /\ [][KbNext]_kbVars

(* Only cards are dragged, and the columns a cancelled drag puts back are  *)
(* columns.                                                                *)
Dragging ==
    /\ kbActive \in Cards \cup {Nobody}
    /\ DOMAIN kbColumns = Columns
    /\ kbActive # Nobody => DOMAIN kbOrigin.columns = Columns

(* A commit takes the columns it is given, or those of the tasks.          *)
LEMMA CommitKeepsColumns ==
    ASSUME NEW cols, DOMAIN cols = Columns, CommitChange(cols)
    PROVE  DOMAIN kbColumns' = Columns
<1>1. CASE kbColumns' = cols
  BY <1>1
<1>2. CASE kbColumns' # cols
  <2>1. PICK c \in DropColumn(cols) : CommitCard(cols, kbActive, c)
    BY <1>2 DEF CommitChange
  <2>2. kbColumns' = ColumnsFromTasks(kbTasks')
    BY <1>2, <2>1 DEF CommitCard
  <2>. QED
    BY <2>2 DEF ColumnsFromTasks
<1>. QED
  BY <1>1, <1>2

LEMMA DraggingInv == KbSpec => []Dragging
<1>1. KbInit => Dragging
  BY DEF KbInit, Dragging, ColumnsFromTasks, NoOrigin
<1>2. Dragging /\ [KbNext]_kbVars => Dragging'
  <2>. SUFFICES ASSUME Dragging, [KbNext]_kbVars
                PROVE  Dragging'
    OBVIOUS
  <2>. USE DEF Dragging
  <2>1. ASSUME NEW tasks, Refresh(tasks)
        PROVE  Dragging'
    BY <2>1 DEF Refresh, ColumnsFromTasks
  <2>2. ASSUME NEW x \in Cards, HandleDragStart(x)
        PROVE  Dragging'
    BY <2>2 DEF HandleDragStart
  <2>3. ASSUME NEW o, HandleDragOver(o)
        PROVE  Dragging'
    <3>1. DOMAIN kbColumns' = Columns
      BY <2>3 DEF HandleDragOver, MovedAcross
    <3>. QED
      BY <2>3, <3>1 DEF HandleDragOver
  <2>4. CASE HandleDragEnd
    <3>1. PICK cols : DOMAIN cols = Columns /\ CommitChange(cols)
      BY <2>4 DEF HandleDragEnd
    <3>. QED
      BY <2>4, <3>1, CommitKeepsColumns DEF HandleDragEnd, DragDone
  <2>5. CASE HandleDragCancel
    BY <2>5 DEF HandleDragCancel, DragDone
  <2>6. CASE UNCHANGED kbVars
    BY <2>6 DEF kbVars
  <2>. QED
    BY <2>1, <2>2, <2>3, <2>4, <2>5, <2>6 DEF KbNext
<1>. QED
  BY <1>1, <1>2, PTL DEF KbSpec

(* A drop asks for a column the dragged card is in, in the columns it is   *)
(* given.                                                                  *)
LEMMA CommitAsks ==
    ASSUME Dragging, kbActive # Nobody, NEW cols, CommitChange(cols), kbAsked' # kbAsked
    PROVE  \E c \in Columns : /\ kbAsked' = [card |-> kbActive, column |-> c]
                              /\ kbActive \in ToSet(cols[c])
<1>1. PICK c \in DropColumn(cols) : CommitCard(cols, kbActive, c)
  BY DEF CommitChange
<1>2. kbAsked' = [card |-> kbActive, column |-> c]
  BY <1>1 DEF CommitCard
<1>3. kbActive \notin Columns
  BY ColumnAssumption DEF Dragging
<1>4. c \in Columns /\ kbActive \in ToSet(cols[c])
  BY <1>3 DEF DropColumn, Container
<1>. QED
  BY <1>2, <1>4

(* onValueCommit is called with what the board shows (kanban.tsx): polls   *)
(* rebuild the columns in the middle of a drag, and still a drop asks only *)
(* for the dragged card and only for the column it is seen in.             *)
THEOREM DropsWhereShown == KbSpec => AskedAsShown
<1>. DEFINE A == kbAsked' # kbAsked => /\ kbAsked'.card = kbActive
                                       /\ kbActive \in ToSet(kbColumns[kbAsked'.column])
<1>1. Dragging /\ [KbNext]_kbVars => [A]_kbVars
  <2>. SUFFICES ASSUME Dragging, KbNext, kbAsked' # kbAsked
                PROVE  /\ kbAsked'.card = kbActive
                       /\ kbActive \in ToSet(kbColumns[kbAsked'.column])
    OBVIOUS
  <2>1. HandleDragEnd
    BY DEF KbNext, Refresh, HandleDragStart, HandleDragOver, HandleDragCancel
  <2>2. kbActive # Nobody /\ kbActive \notin Columns
    BY <2>1, ColumnAssumption DEF HandleDragEnd, Dragging
  <2>3. PICK cols : /\ CommitChange(cols)
                    /\ \A c \in Columns : \/ cols[c] = kbColumns[c]
                                          \/ kbActive \in ToSet(kbColumns[c])
    <3>1. CASE CommitChange(kbColumns)
      BY <3>1
    <3>2. ASSUME NEW c \in Container(kbColumns, kbActive),
                 CommitChange([kbColumns EXCEPT ![c] =
                                 ArrayMove(@, Index(@, kbActive), Index(@, kbOver))])
          PROVE  \E cols : /\ CommitChange(cols)
                           /\ \A d \in Columns : \/ cols[d] = kbColumns[d]
                                                 \/ kbActive \in ToSet(kbColumns[d])
      <4>1. kbActive \in ToSet(kbColumns[c])
        BY <2>2 DEF Container
      <4>. DEFINE new == [kbColumns EXCEPT ![c] =
                            ArrayMove(@, Index(@, kbActive), Index(@, kbOver))]
      <4>2. \A d \in Columns : new[d] = kbColumns[d] \/ kbActive \in ToSet(kbColumns[d])
        BY <4>1 DEF Dragging
      <4>3. CommitChange(new)
        BY <3>2
      <4>. QED
        BY <4>2, <4>3
    <3>. QED
      BY <2>1, <3>1, <3>2 DEF HandleDragEnd
  <2>. QED
    BY <2>2, <2>3, CommitAsks
<1>. QED
  BY <1>1, DraggingInv, PTL DEF KbSpec, AskedAsShown

-----------------------------------------------------------------------------
(* Workspace *)

(* A save names the version of the copy its form was filled from, and what *)
(* it was accepted over had that version.                                  *)
SoundSave(q) ==
    /\ "kind" \in DOMAIN q
    /\ q.kind = "save" =>
         /\ {"at", "base", "ver", "over", "row"} \subseteq DOMAIN q
         /\ q.ver = q.base.ver
         /\ q.at = "ok" => q.over.ver = q.ver
SoundSaves == \A q \in reqs : SoundSave(q)

(* A request that becomes another one, sound like the rest.                *)
LEMMA OneRequest ==
    ASSUME SoundSaves, NEW q, NEW new, SoundSave(new), reqs' = (reqs \ {q}) \cup {new}
    PROVE  SoundSaves'
BY DEF SoundSaves

LEMMA NewWrite ==
    ASSUME NEW kind, NEW base, NEW ver, NEW want, NEW before,
           kind = "save" => ver = base.ver
    PROVE  SoundSave(Write(kind, base, ver, want, before))
BY DEF SoundSave, Write

LEMMA ServedWriteSound ==
    ASSUME SoundSaves, NEW q, ServeWrite(q)
    PROVE  SoundSaves'
<1>. DEFINE i  == q.base.id
            ok == q.kind = "create" \/ db[i].ver = q.ver
            new == [q EXCEPT !.at = IF ok THEN "ok" ELSE "refused",
                             !.row = IF ok THEN Written(q) ELSE NoRow, !.over = db[i]]
<1>1. q \in reqs /\ reqs' = (reqs \ {q}) \cup {new}
  BY DEF ServeWrite
<1>2. SoundSave(q)
  BY <1>1 DEF SoundSaves
<1>3. DOMAIN new = DOMAIN q /\ new.kind = q.kind
  BY <1>2 DEF SoundSave
<1>4. ASSUME new.kind = "save"
      PROVE  /\ {"at", "base", "ver", "over", "row"} \subseteq DOMAIN new
             /\ new.ver = new.base.ver
             /\ new.at = "ok" => new.over.ver = new.ver
  <2>1. /\ {"at", "base", "ver", "over", "row"} \subseteq DOMAIN q
        /\ q.kind = "save" /\ q.ver = q.base.ver
    BY <1>2, <1>3, <1>4 DEF SoundSave
  <2>2. new.ver = q.ver /\ new.base = q.base /\ new.over = db[i]
        /\ new.at = IF ok THEN "ok" ELSE "refused"
    BY <2>1
  <2>3. new.at = "ok" => db[i].ver = q.ver
    BY <2>1, <2>2
  <2>. QED
    BY <1>3, <2>1, <2>2, <2>3
<1>5. SoundSave(new)
  <2>. HIDE DEF new
  <2>. QED
    BY <1>2, <1>3, <1>4 DEF SoundSave
<1>. HIDE DEF new
<1>. QED
  BY <1>1, <1>5, OneRequest

LEMMA SoundSavesStep ==
    ASSUME SoundSaves, [WsNext]_wsVars
    PROVE  SoundSaves'
<1>1. ASSUME NEW known, BeginLoad(known)
      PROVE  SoundSaves'
  <2>1. SoundSave(Load(known))
    BY DEF SoundSave, Load
  <2>. QED
    BY <1>1, <2>1 DEF BeginLoad, SoundSaves
<1>2. ASSUME NEW i, NEW s, HandleTaskStatusChange(i, s)
      PROVE  SoundSaves'
  <2>1. CASE reqs' = reqs
    BY <2>1 DEF SoundSaves
  <2>2. ASSUME NEW row, reqs' = reqs \cup {Write("move", row, row.ver, s, shown.tasks)}
        PROVE  SoundSaves'
    <3>1. SoundSave(Write("move", row, row.ver, s, shown.tasks))
      BY NewWrite
    <3>. QED
      BY <2>2, <3>1 DEF SoundSaves
  <2>. QED
    BY <1>2, <2>1, <2>2 DEF HandleTaskStatusChange
<1>3. ASSUME NEW l, NEW s, SaveForm(l, s)
      PROVE  SoundSaves'
  <2>1. SoundSave(Write("save", editor, FormVersion(l), s, shown[l]))
    BY NewWrite DEF FormVersion
  <2>. QED
    BY <1>3, <2>1 DEF SaveForm, SoundSaves
<1>4. ASSUME NEW i, NEW s, SubmitNew(i, s)
      PROVE  SoundSaves'
  <2>1. SoundSave(Write("create", [NoRow EXCEPT !.id = i], 0, s, <<>>))
    BY NewWrite
  <2>. QED
    BY <1>4, <2>1 DEF SubmitNew, SoundSaves
<1>5. ASSUME UNCHANGED reqs
      PROVE  SoundSaves'
  BY <1>5 DEF SoundSaves
<1>6. CASE WsUser
  <2>1. CASE Retry \/ ChangeLanguage
    BY <1>1, <2>1 DEF Retry, ChangeLanguage
  <2>2. ASSUME NEW s, MoveInSheet(s) \/ HandleUpdateTask(s) \/ HandleUpdateMilestone(s)
        PROVE  SoundSaves'
    BY <1>2, <1>3, <2>2 DEF MoveInSheet, HandleUpdateTask, HandleUpdateMilestone
  <2>3. ASSUME NEW i, NEW s, MoveCard(i, s) \/ HandleCreateTask(i, s)
                             \/ HandleCreateMilestone(i, s) \/ OtherWrite(i, s)
        PROVE  SoundSaves'
    BY <1>2, <1>4, <1>5, <2>3 DEF MoveCard, HandleCreateTask, HandleCreateMilestone, OtherWrite
  <2>4. ASSUME NEW row, SelectTask(row) \/ OpenEditor(row)
        PROVE  SoundSaves'
    BY <1>5, <2>4 DEF SelectTask, OpenEditor
  <2>5. CASE CloseDialog
    BY <1>5, <2>5 DEF CloseDialog
  <2>. QED
    BY <1>6, <2>1, <2>2, <2>3, <2>4, <2>5 DEF WsUser
<1>7. ASSUME NEW q \in reqs, \/ LoadProject(q) \/ LoadFails(q) \/ LoadUnauthorized(q)
                             \/ LoadSettles(q) \/ \E l \in Lists : LoadReads(q, l)
      PROVE  SoundSaves'
  <2>. SoundSave(q)
    BY DEF SoundSaves
  <2>1. CASE LoadProject(q)
    <3>1. SoundSave([q EXCEPT !.at = "lists"])
      BY <2>1 DEF LoadProject, SoundSave
    <3>. QED
      BY <2>1, <3>1, OneRequest DEF LoadProject
  <2>2. CASE LoadFails(q) \/ LoadUnauthorized(q) \/ LoadSettles(q)
    BY <2>2 DEF LoadFails, LoadUnauthorized, LoadSettles, SoundSaves
  <2>3. ASSUME NEW l \in Lists, LoadReads(q, l)
        PROVE  SoundSaves'
    <3>1. q.kind = "load" /\ l # "kind"
      BY <2>3 DEF LoadReads, Lists
    <3>2. \A read : SoundSave([q EXCEPT ![l] = read])
      BY <3>1 DEF SoundSave
    <3>3. \E read : reqs' = (reqs \ {q}) \cup {[q EXCEPT ![l] = read]}
      BY <2>3 DEF LoadReads
    <3>. QED
      BY <3>2, <3>3, OneRequest
  <2>. QED
    BY <1>7, <2>1, <2>2, <2>3
<1>8. ASSUME NEW q \in reqs, ServeWrite(q) \/ LoseWrite(q) \/ WriteSucceeds(q) \/ WriteFails(q)
      PROVE  SoundSaves'
  <2>. SoundSave(q)
    BY DEF SoundSaves
  <2>1. CASE ServeWrite(q)
    BY <2>1, ServedWriteSound
  <2>2. CASE LoseWrite(q)
    <3>1. SoundSave([q EXCEPT !.at = "refused"])
      BY DEF SoundSave
    <3>. QED
      BY <2>2, <3>1, OneRequest DEF LoseWrite
  <2>3. CASE WriteSucceeds(q)
    <3>1. SoundSave(ListReq(q.list))
      BY DEF SoundSave, ListReq
    <3>. QED
      BY <2>3, <3>1, OneRequest DEF WriteSucceeds
  <2>4. CASE WriteFails(q)
    BY <2>4 DEF WriteFails, SoundSaves
  <2>. QED
    BY <1>8, <2>1, <2>2, <2>3, <2>4
<1>9. ASSUME NEW l \in Lists, Poll(l) \/ ListServed(l) \/ Refreshes(l)
      PROVE  SoundSaves'
  <2>1. CASE Poll(l)
    <3>1. SoundSave(ListReq(l))
      BY DEF SoundSave, ListReq
    <3>. QED
      BY <2>1, <3>1 DEF Poll, SoundSaves
  <2>2. ASSUME NEW q \in reqs, ServeList(q)
        PROVE  SoundSaves'
    <3>1. SoundSave(q) /\ q.kind = "list"
      BY <2>2 DEF SoundSaves, ServeList
    <3>2. /\ SoundSave([q EXCEPT !.at = "read", !.rows = Rows(q.list)])
          /\ SoundSave([q EXCEPT !.at = "failed"])
      BY <3>1 DEF SoundSave
    <3>. QED
      BY <2>2, <3>2, OneRequest DEF ServeList
  <2>3. ASSUME NEW q \in reqs, RefreshEnds(q)
        PROVE  SoundSaves'
    BY <2>3 DEF RefreshEnds, SoundSaves
  <2>. QED
    BY <1>9, <2>1, <2>2, <2>3 DEF ListServed, Refreshes
<1>10. CASE UNCHANGED wsVars
  BY <1>5, <1>10 DEF wsVars
<1>. QED
  BY <1>6, <1>7, <1>8, <1>9, <1>10 DEF WsNext, LoadSteps, WriteSteps

(* The edit dialog keeps the copy it was opened with (project-workspace):  *)
(* whatever polls, moves, rollbacks and other users did to the row since,  *)
(* a save that the server accepts replaces the version its user saw.       *)
THEOREM SavesSeeTheRow == WsSpec => []NoBlindSave
<1>1. WsInit => SoundSaves
  BY DEF WsInit, SoundSaves, SoundSave, Load
<1>2. SoundSaves => NoBlindSave
  BY DEF SoundSaves, SoundSave, NoBlindSave
<1>. QED
  BY <1>1, <1>2, SoundSavesStep, PTL DEF WsSpec

-----------------------------------------------------------------------------
(* Integrations *)

IgSpec == IgInit /\ [][IgNext]_igVars

(* What the records are, and that a change carries the project it was made *)
(* from and its answer a row.                                              *)
IgSound ==
    /\ DOMAIN igServer = {"conn", "ver", "conns", "attached", "running", "mapped", "open",
                          "allowed", "gone", "lent", "other"}
    /\ DOMAIN igShown = {"conn", "ver", "picked", "conns", "repos", "attached", "running",
                         "open", "mapped", "noConflicts", "noMappings", "alert", "error"}
    /\ igServer.ver \in Nat /\ igServer.other \in Nat /\ igShown.ver \in Nat
    /\ \A q \in igReqs :
         /\ DOMAIN q = {"kind", "arg", "at", "got", "was"}
         /\ q.at \in {"sent", "written", "ok", "refused", "lost"}
         /\ \A w \in q.was : w.ver \in Nat
         /\ q.kind = "project" =>
              /\ q.was # {}
              /\ q.at = "ok" => \E row : q.got = {row} /\ row.ver \in Nat

(* The ways a connection shown may be the server's.                        *)
Agrees(c) ==
    \/ c = igServer.conn
    \/ c \in igServer.gone
    \/ c = NoConnection /\ igServer.conn \in igServer.lent

(* A row is the project's, or older than what another client wrote.        *)
Fits(c, ver) == ver < igServer.other \/ (ver = igServer.ver /\ Agrees(c))

IgChanges == {q \in igReqs : q.kind = "project"}
Taken == {q \in IgChanges : q.at \in {"written", "ok"}}
(* A notice is there, or a change has failed and will put it there.        *)
Warned == igShown.alert \/ \E q \in IgChanges : q.at \in {"refused", "lost"}

(* Without a notice: the view is behind by the one change of its own that  *)
(* was taken and not answered, and by what other clients wrote, which      *)
(* leaves it behind for good.  Every other change is from an older         *)
(* project, and will be refused.                                           *)
InStep ==
    /\ \A q \in igReqs : \A w \in q.was : w.ver <= igShown.ver
    /\ igShown.ver <= igServer.ver /\ igServer.other <= igServer.ver
    /\ \A q \in Taken :
         /\ igShown.ver < igServer.ver
         /\ q.at = "ok" => \A row \in q.got : /\ igShown.ver < row.ver /\ row.ver <= igServer.ver
                                              /\ Fits(row.conn, row.ver)
    /\ \A p, q \in Taken : p = q
    /\ igShown.ver < igServer.ver => Taken # {} \/ igShown.ver < igServer.other
    /\ IgChanges = {} => Fits(igShown.conn, igShown.ver)

Tracked == Warned \/ InStep

(* A step that leaves the connection, its version and the changes alone.   *)
Beside ==
    /\ \A f \in {"conn", "ver", "gone", "lent", "other"} : igServer'[f] = igServer[f]
    /\ \A f \in {"conn", "ver", "alert"} : igShown'[f] = igShown[f]
    /\ \A q \in igReqs' :
         \/ q \in igReqs
         \/ /\ q.kind # "project"
            /\ q.was \subseteq {igShown} \/ \E p \in igReqs : q.was = p.was
    /\ \A q \in IgChanges : q \in igReqs'

(* What the project has may change if all it may be shown as still fits.   *)
LEMMA InStepHeld ==
    ASSUME InStep, igServer'.ver = igServer.ver, igServer'.other = igServer.other,
           igShown'.ver = igShown.ver, igShown'.conn = igShown.conn,
           IgChanges' = IgChanges, Taken' = Taken,
           \A c : Agrees(c) => Agrees(c)',
           \A q \in igReqs' : \A w \in q.was : w.ver <= igShown'.ver
    PROVE  InStep'
<1>1. \A c, ver : Fits(c, ver) => Fits(c, ver)'
  BY DEF Fits
<1>. QED
  BY <1>1 DEF InStep

LEMMA BesideKeeps ==
    ASSUME IgSound, Tracked, Beside
    PROVE  Tracked'
<1>0. IgChanges' = IgChanges /\ Taken' = Taken
  BY DEF Beside, IgChanges, Taken
<1>1. CASE Warned
  BY <1>1, <1>0 DEF Tracked, Warned, Beside
<1>2. CASE InStep
  <2>1. ASSUME NEW q \in igReqs', NEW w \in q.was
        PROVE  w.ver <= igShown'.ver
    <3>1. CASE q \in igReqs
      BY <1>2, <2>1, <3>1 DEF InStep, Beside
    <3>2. CASE q.was \subseteq {igShown}
      BY <2>1, <3>2 DEF Beside, IgSound
    <3>3. CASE \E p \in igReqs : q.was = p.was
      BY <1>2, <2>1, <3>3 DEF InStep, Beside
    <3>. QED
      BY <2>1, <3>1, <3>2, <3>3 DEF Beside
  <2>2. igServer'.ver = igServer.ver /\ igServer'.other = igServer.other
        /\ igShown'.ver = igShown.ver /\ igShown'.conn = igShown.conn
    BY DEF Beside
  <2>3. \A c : Agrees(c) => Agrees(c)'
    BY DEF Agrees, Beside
  <2>4. InStep'
    BY <1>0, <1>2, <2>1, <2>2, <2>3, InStepHeld
  <2>. QED
    BY <2>4 DEF Tracked
<1>. QED
  BY <1>1, <1>2 DEF Tracked

-----------------------------------------------------------------------------
(* Requests that a step sends.                                             *)

LEMMA NewIgRequest ==
    ASSUME NEW kind, NEW arg
    PROVE  LET q == IgReq(kind, arg) IN
           /\ DOMAIN q = {"kind", "arg", "at", "got", "was"}
           /\ q.kind = kind /\ q.arg = arg /\ q.at = "sent" /\ q.got = {} /\ q.was = {}
BY DEF IgReq

LEMMA NewIgWrite ==
    ASSUME NEW kind, NEW arg, NEW s
    PROVE  LET q == [IgReq(kind, arg) EXCEPT !.was = {s}] IN
           /\ DOMAIN q = {"kind", "arg", "at", "got", "was"}
           /\ q.kind = kind /\ q.arg = arg /\ q.at = "sent" /\ q.got = {} /\ q.was = {s}
BY DEF IgReq

LEMMA AnswerOf ==
    ASSUME IgSound, NEW q \in igReqs, NEW at, NEW got
    PROVE  LET a == [q EXCEPT !.at = at, !.got = got]
               b == [q EXCEPT !.at = at] IN
           /\ DOMAIN a = {"kind", "arg", "at", "got", "was"}
           /\ a.kind = q.kind /\ a.arg = q.arg /\ a.at = at /\ a.got = got /\ a.was = q.was
           /\ DOMAIN b = {"kind", "arg", "at", "got", "was"}
           /\ b.kind = q.kind /\ b.arg = q.arg /\ b.at = at /\ b.got = q.got /\ b.was = q.was
BY DEF IgSound

(* Plain requests: of other kinds than changes, and without a closure.     *)
Plain(more) ==
    \A m \in more : /\ DOMAIN m = {"kind", "arg", "at", "got", "was"}
                    /\ m.kind # "project" /\ m.at = "sent" /\ m.got = {} /\ m.was = {}

(* A view in which neither the project nor the notice is touched.          *)
SameProject(sees) ==
    /\ DOMAIN sees = DOMAIN igShown
    /\ sees.conn = igShown.conn /\ sees.ver = igShown.ver /\ sees.alert = igShown.alert

LEMMA Sends ==
    ASSUME IgSound, UNCHANGED igServer, SameProject(igShown'),
           NEW more, Plain(more), igReqs' = igReqs \cup more
    PROVE  IgSound' /\ Beside
BY DEF IgSound, SameProject, Plain, Beside, IgChanges

LEMMA Ends ==
    ASSUME IgSound, UNCHANGED igServer, SameProject(igShown'),
           NEW q \in igReqs, q.kind # "project",
           NEW more, Plain(more), igReqs' = (igReqs \ {q}) \cup more
    PROVE  IgSound' /\ Beside
BY DEF IgSound, SameProject, Plain, Beside, IgChanges

LEMMA PlainRequest ==
    ASSUME NEW kind, kind # "project", NEW arg
    PROVE  Plain({IgReq(kind, arg)}) /\ Plain({})
BY NewIgRequest DEF Plain

LEMMA PlainReloads ==
    ASSUME NEW sees
    PROVE  Plain(Reloads(sees))
<1>1. Plain({}) /\ Plain({IgReq("repos", sees.picked)})
  BY PlainRequest
<1>2. Reloads(sees) = {} \/ Reloads(sees) = {IgReq("repos", sees.picked)}
  BY DEF Reloads
<1>. QED
  BY <1>1, <1>2

(* A write with a closure that is no change.                               *)
LEMMA WriteSends ==
    ASSUME IgSound, UNCHANGED igServer, SameProject(igShown'),
           NEW kind, kind # "project", NEW arg, igReqs' = igReqs \cup {IgWrite(kind, arg)}
    PROVE  IgSound' /\ Beside
<1>. DEFINE q == IgWrite(kind, arg)
<1>1. /\ DOMAIN q = {"kind", "arg", "at", "got", "was"}
      /\ q.kind = kind /\ q.at = "sent" /\ q.was = {igShown}
  BY NewIgWrite DEF IgWrite
<1>. HIDE DEF q
<1>2. igReqs' = igReqs \cup {q}
  BY DEF q
<1>. QED
  BY <1>1, <1>2 DEF IgSound, SameProject, Beside, IgChanges

(* A request that is no change is answered or lost: the connections taken  *)
(* away and lent make up for what the server does meanwhile.               *)
LEMMA Answers ==
    ASSUME IgSound, Tracked, UNCHANGED igShown, NEW q \in igReqs, q.kind # "project",
           DOMAIN igServer' = DOMAIN igServer, igServer'.ver = igServer.ver,
           igServer'.other = igServer.other,
           \A c : Agrees(c) => Agrees(c)',
           NEW a, igReqs' = (igReqs \ {q}) \cup {a},
           DOMAIN a = DOMAIN q, a.kind = q.kind, a.was = q.was,
           a.at \in {"ok", "refused", "lost"}
    PROVE  IgSound' /\ Tracked'
<1>1. IgSound'
  BY DEF IgSound
<1>2. IgChanges' = IgChanges /\ Taken' = Taken
  BY DEF IgChanges, Taken
<1>3. ASSUME Warned
      PROVE  Warned'
  BY <1>2, <1>3 DEF Warned
<1>4. ASSUME InStep
      PROVE  InStep'
  <2>1. \A p \in igReqs' : \A v \in p.was : v.ver <= igShown'.ver
    BY <1>4 DEF InStep
  <2>. QED
    BY <1>2, <1>4, <2>1, InStepHeld
<1>. QED
  BY <1>1, <1>3, <1>4 DEF Tracked

-----------------------------------------------------------------------------
(* What the user does                                                      *)

LEMMA UserAside ==
    ASSUME IgSound,
           \/ \E c \in IgConnections \cup {NoConnection} :
                AttachAndImport(c) \/ DetachRepository(c) \/ Disconnect(c) \/ SubmitConnection(c)
           \/ RefreshRepositories \/ RefreshActivity
           \/ OpenConnectionDialog \/ GoForward \/ GoBack
           \/ \E k \in IgConflicts, side \in {"local", "other"} : ResolveConflict(k, side)
           \/ \E u \in IgLogins : SaveMapping(u) \/ RemoveMapping(u)
           \/ PollConflicts \/ PollRuns
    PROVE  IgSound' /\ Beside
<1>0. SameProject([igShown EXCEPT !.error = FALSE]) /\ SameProject(igShown)
  BY DEF SameProject, IgSound
<1>1. ASSUME NEW c, AttachAndImport(c)
      PROVE  IgSound' /\ Beside
  <2>. DEFINE kind == IF c \in igShown.attached THEN "import" ELSE "attach"
  <2>1. igReqs' = igReqs \cup {IgReq(kind, c)} /\ UNCHANGED igServer
        /\ igShown' = [igShown EXCEPT !.error = FALSE]
    BY <1>1 DEF AttachAndImport
  <2>2. kind # "project"
    OBVIOUS
  <2>. QED
    BY <1>0, <2>1, <2>2, Sends, PlainRequest
<1>2. ASSUME NEW c, DetachRepository(c)
      PROVE  IgSound' /\ Beside
  BY <1>0, <1>2, Sends, PlainRequest DEF DetachRepository
<1>3. ASSUME NEW c, Disconnect(c)
      PROVE  IgSound' /\ Beside
  BY <1>0, <1>3, WriteSends DEF Disconnect
<1>4. ASSUME NEW c, SubmitConnection(c)
      PROVE  IgSound' /\ Beside
  BY <1>0, <1>4, WriteSends DEF SubmitConnection
<1>5. CASE RefreshRepositories
  BY <1>0, <1>5, Sends, PlainRequest DEF RefreshRepositories
<1>6. CASE RefreshActivity
  BY <1>0, <1>6, Sends, PlainRequest DEF RefreshActivity
<1>7. CASE OpenConnectionDialog \/ GoForward \/ GoBack
  <2>1. UNCHANGED <<igServer, igShown>> /\ igReqs' = igReqs \cup {}
    BY <1>7 DEF OpenConnectionDialog, GoForward, GoBack
  <2>2. Plain({})
    BY DEF Plain
  <2>. QED
    BY <1>0, <2>1, <2>2, Sends
<1>8. ASSUME NEW k, NEW side, ResolveConflict(k, side)
      PROVE  IgSound' /\ Beside
  BY <1>0, <1>8, Sends, PlainRequest DEF ResolveConflict
<1>9. ASSUME NEW u, SaveMapping(u)
      PROVE  IgSound' /\ Beside
  BY <1>0, <1>9, Sends, PlainRequest DEF SaveMapping
<1>10. ASSUME NEW u, RemoveMapping(u)
       PROVE  IgSound' /\ Beside
  BY <1>0, <1>10, Sends, PlainRequest DEF RemoveMapping
<1>11. CASE PollConflicts
  BY <1>0, <1>11, Sends, PlainRequest DEF PollConflicts
<1>12. CASE PollRuns
  BY <1>0, <1>12, Sends, PlainRequest DEF PollRuns
<1>. QED
  BY <1>1, <1>2, <1>3, <1>4, <1>5, <1>6, <1>7, <1>8, <1>9, <1>10, <1>11, <1>12

(* A change is sent, with the project of a closure; the view may show it.  *)
LEMMA ChangeSent ==
    ASSUME IgSound, Tracked, UNCHANGED igServer,
           DOMAIN igShown' = DOMAIN igShown, igShown'.ver = igShown.ver,
           igShown'.alert = igShown.alert,
           NEW w, w.ver \in Nat, InStep => w.ver <= igShown.ver,
           NEW q, DOMAIN q = {"kind", "arg", "at", "got", "was"},
           q.kind = "project", q.at = "sent", q.was = {w},
           NEW old, old = {} \/ (\E p \in igReqs : p.kind # "project" /\ old = {p}),
           NEW more, Plain(more), igReqs' = ((igReqs \ old) \cup {q}) \cup more
    PROVE  IgSound' /\ Tracked'
<1>1. IgSound'
  BY DEF IgSound, Plain
<1>2. IgChanges' = IgChanges \cup {q} /\ Taken' = Taken
  BY DEF IgChanges, Taken, Plain
<1>3. ASSUME Warned
      PROVE  Warned'
  BY <1>2, <1>3 DEF Warned
<1>4. ASSUME InStep
      PROVE  InStep'
  <2>1. \A p \in igReqs' : \A v \in p.was : v.ver <= igShown'.ver
    BY <1>4 DEF InStep, Plain
  <2>2. \A c, ver : Fits(c, ver) => Fits(c, ver)'
    BY DEF Fits, Agrees
  <2>3. IgChanges' # {}
    BY <1>2
  <2>. QED
    BY <1>2, <1>4, <2>1, <2>2, <2>3 DEF InStep
<1>. QED
  BY <1>1, <1>3, <1>4 DEF Tracked

LEMMA SelectKeeps ==
    ASSUME IgSound, Tracked, NEW c, SelectConnection(c)
    PROVE  IgSound' /\ Tracked'
<1>. DEFINE blank == [igShown EXCEPT !.repos = NoConnection]
            show == [blank EXCEPT !.conn = c, !.picked = c]
            q == [IgReq("project", c) EXCEPT !.was = {igShown}]
<1>1. igShown' = show /\ igReqs' = igReqs \cup {q} \cup Reloads(show) /\ UNCHANGED igServer
  BY DEF SelectConnection, ChangeConnection
<1>2. DOMAIN show = DOMAIN igShown /\ show.ver = igShown.ver /\ show.alert = igShown.alert
  BY DEF IgSound
<1>3. DOMAIN q = {"kind", "arg", "at", "got", "was"} /\ q.kind = "project" /\ q.at = "sent"
      /\ q.was = {igShown}
  BY NewIgWrite
<1>4. Plain(Reloads(show))
  BY PlainReloads
<1>. HIDE DEF q, show
<1>5. igReqs' = ((igReqs \ {}) \cup {q}) \cup Reloads(show)
  BY <1>1
<1>6. igShown.ver \in Nat /\ igShown.ver <= igShown.ver
  BY DEF IgSound
<1>. QED
  BY <1>1, <1>2, <1>3, <1>4, <1>5, <1>6, ChangeSent

-----------------------------------------------------------------------------
(* What the server does                                                    *)

LEMMA AcceptAside ==
    ASSUME IgSound, Tracked, UNCHANGED igShown, NEW q \in igReqs, q.kind # "project",
           NEW s, DOMAIN s = DOMAIN igServer, s.ver = igServer.ver, s.other = igServer.other,
           NEW got, Accept(q, s, got),
           \A c : Agrees(c) => Agrees(c)'
    PROVE  IgSound' /\ Tracked'
<1>. DEFINE a == [q EXCEPT !.at = "ok", !.got = got]
<1>1. DOMAIN a = DOMAIN q /\ a.kind = q.kind /\ a.was = q.was /\ a.at = "ok"
  BY AnswerOf DEF IgSound
<1>2. igReqs' = (igReqs \ {q}) \cup {a} /\ igServer' = s
  BY DEF Accept
<1>. HIDE DEF a
<1>. QED
  BY <1>1, <1>2, Answers

LEMMA RefuseAside ==
    ASSUME IgSound, Tracked, UNCHANGED igShown, NEW q \in igReqs, q.kind # "project", Refuse(q)
    PROVE  IgSound' /\ Tracked'
<1>. DEFINE a == [q EXCEPT !.at = "refused"]
<1>1. DOMAIN a = DOMAIN q /\ a.kind = q.kind /\ a.was = q.was /\ a.at = "refused"
  BY AnswerOf DEF IgSound
<1>2. igReqs' = (igReqs \ {q}) \cup {a} /\ UNCHANGED igServer
  BY DEF Refuse
<1>3. \A c : Agrees(c) => Agrees(c)'
  BY <1>2 DEF Agrees
<1>. HIDE DEF a
<1>. QED
  BY <1>1, <1>2, <1>3, Answers

(* Neither the project's connection nor its history changes.               *)
LEMMA DecideAside ==
    ASSUME IgSound, Tracked, UNCHANGED igShown, NEW q \in igReqs, q.kind # "project",
           NEW ok, NEW s, DOMAIN s = DOMAIN igServer,
           s.ver = igServer.ver, s.conn = igServer.conn, s.gone = igServer.gone,
           s.lent = igServer.lent, s.other = igServer.other,
           NEW got, Decide(q, ok, s, got)
    PROVE  IgSound' /\ Tracked'
<1>1. Accept(q, s, got) \/ Refuse(q)
  BY DEF Decide
<1>2. ASSUME Accept(q, s, got)
      PROVE  \A c : Agrees(c) => Agrees(c)'
  BY <1>2 DEF Accept, Agrees
<1>. QED
  BY <1>1, <1>2, AcceptAside, RefuseAside

LEMMA ServesAside ==
    ASSUME IgSound, Tracked, UNCHANGED igShown, NEW q \in igReqs,
           \/ ServeRepositories(q) \/ ServeConflicts(q) \/ ServeMappings(q) \/ ServeRuns(q)
           \/ ServeConnect(q) \/ ServeDetach(q) \/ ServeImport(q) \/ ServeResolve(q)
           \/ ServeMapping(q)
    PROVE  IgSound' /\ Tracked'
<1>1. ASSUME NEW s, NEW got, q.kind # "project", Accept(q, s, got),
             DOMAIN s = DOMAIN igServer,
             s.ver = igServer.ver, s.conn = igServer.conn, s.gone = igServer.gone,
             s.lent = igServer.lent, s.other = igServer.other
      PROVE  IgSound' /\ Tracked'
  BY <1>1, DecideAside DEF Decide
<1>2. CASE ServeRepositories(q)
  BY <1>1, <1>2 DEF ServeRepositories
<1>3. CASE ServeConflicts(q)
  BY <1>3, DecideAside DEF ServeConflicts
<1>4. CASE ServeMappings(q)
  BY <1>4, DecideAside DEF ServeMappings
<1>5. CASE ServeRuns(q)
  BY <1>1, <1>5 DEF ServeRuns
<1>6. CASE ServeConnect(q)
  <2>. DEFINE s == [igServer EXCEPT !.conns = @ \cup {q.arg}]
  <2>1. q.kind # "project" /\ Accept(q, s, {})
    BY <1>6 DEF ServeConnect
  <2>2. DOMAIN s = DOMAIN igServer /\ s.ver = igServer.ver /\ s.conn = igServer.conn
        /\ s.gone = igServer.gone /\ s.lent = igServer.lent /\ s.other = igServer.other
    BY DEF IgSound
  <2>. HIDE DEF s
  <2>. QED
    BY <1>1, <2>1, <2>2
<1>7. CASE ServeDetach(q)
  <2>. DEFINE s == [igServer EXCEPT !.attached = @ \ {q.arg}]
  <2>1. q.kind # "project" /\ Decide(q, q.arg \in igServer.attached, s, {})
    BY <1>7 DEF ServeDetach
  <2>2. DOMAIN s = DOMAIN igServer /\ s.ver = igServer.ver /\ s.conn = igServer.conn
        /\ s.gone = igServer.gone /\ s.lent = igServer.lent /\ s.other = igServer.other
    BY DEF IgSound
  <2>. HIDE DEF s
  <2>. QED
    BY <2>1, <2>2, DecideAside
<1>8. CASE ServeImport(q)
  <2>. DEFINE s == [igServer EXCEPT !.running = @ \cup {q.arg}]
  <2>1. q.kind # "project"
        /\ Decide(q, q.arg \in (igServer.attached \cap igServer.conns) \ igServer.running, s, {})
    BY <1>8 DEF ServeImport
  <2>2. DOMAIN s = DOMAIN igServer /\ s.ver = igServer.ver /\ s.conn = igServer.conn
        /\ s.gone = igServer.gone /\ s.lent = igServer.lent /\ s.other = igServer.other
    BY DEF IgSound
  <2>. HIDE DEF s
  <2>. QED
    BY <2>1, <2>2, DecideAside
<1>9. CASE ServeResolve(q)
  <2>. DEFINE s == [igServer EXCEPT !.open = @ \ {q.arg[1]}]
  <2>1. q.kind # "project"
        /\ Decide(q, /\ q.arg[1] \in igServer.open
                     /\ q.arg = <<AssigneeConflict, "local">> => igServer.mapped # {}, s, {})
    BY <1>9 DEF ServeResolve
  <2>2. DOMAIN s = DOMAIN igServer /\ s.ver = igServer.ver /\ s.conn = igServer.conn
        /\ s.gone = igServer.gone /\ s.lent = igServer.lent /\ s.other = igServer.other
    BY DEF IgSound
  <2>. HIDE DEF s
  <2>. QED
    BY <2>1, <2>2, DecideAside
<1>10. CASE ServeMapping(q)
  <2>. DEFINE s == [igServer EXCEPT !.mapped = @ \cup {q.arg}]
              t == [igServer EXCEPT !.mapped = @ \ {q.arg}]
  <2>1. \/ q.kind = "map" /\ Accept(q, s, {})
        \/ q.kind = "unmap" /\ Decide(q, q.arg \in igServer.mapped, t, {})
    BY <1>10 DEF ServeMapping
  <2>2. DOMAIN s = DOMAIN igServer /\ s.ver = igServer.ver /\ s.conn = igServer.conn
        /\ s.gone = igServer.gone /\ s.lent = igServer.lent /\ s.other = igServer.other
    BY DEF IgSound
  <2>3. DOMAIN t = DOMAIN igServer /\ t.ver = igServer.ver /\ t.conn = igServer.conn
        /\ t.gone = igServer.gone /\ t.lent = igServer.lent /\ t.other = igServer.other
    BY DEF IgSound
  <2>. HIDE DEF s, t
  <2>. QED
    BY <1>1, <2>1, <2>2, <2>3, DecideAside
<1>. QED
  BY <1>2, <1>3, <1>4, <1>5, <1>6, <1>7, <1>8, <1>9, <1>10

(* A connection taken away: one that was the project's is remembered.      *)
LEMMA TakenAway ==
    ASSUME IgSound, NEW c, igServer' = Disconnected(c)
    PROVE  /\ DOMAIN igServer' = DOMAIN igServer
           /\ igServer'.ver = igServer.ver /\ igServer'.other = igServer.other
           /\ \A d : Agrees(d) => Agrees(d)'
<1>1. /\ DOMAIN igServer' = DOMAIN igServer
      /\ igServer'.ver = igServer.ver /\ igServer'.other = igServer.other
      /\ igServer'.conn = (IF igServer.conn = c THEN NoConnection ELSE igServer.conn)
      /\ igServer'.gone = igServer.gone \cup {c} /\ igServer'.lent = igServer.lent \ {c}
  BY DEF Disconnected, IgSound
<1>. QED
  BY <1>1 DEF Agrees

(* A repository attached: a project without a connection gets its own.     *)
LEMMA Lent ==
    ASSUME IgSound, NEW c, Attachable(c), igServer' = Attached(c)
    PROVE  /\ DOMAIN igServer' = DOMAIN igServer
           /\ igServer'.ver = igServer.ver /\ igServer'.other = igServer.other
           /\ \A d : Agrees(d) => Agrees(d)'
<1>1. /\ DOMAIN igServer' = DOMAIN igServer
      /\ igServer'.ver = igServer.ver /\ igServer'.other = igServer.other
      /\ igServer'.conn = c /\ igServer'.gone = igServer.gone \ {c}
      /\ igServer'.lent = (IF igServer.conn = c THEN igServer.lent ELSE {c})
  BY DEF Attached, IgSound
<1>. QED
  BY <1>1 DEF Agrees, Attachable

LEMMA DisconnectServed ==
    ASSUME IgSound, Tracked, UNCHANGED igShown, NEW q \in igReqs, ServeDisconnect(q)
    PROVE  IgSound' /\ Tracked'
<1>1. q.kind # "project" /\ (Accept(q, Disconnected(q.arg), {}) \/ Refuse(q))
  BY DEF ServeDisconnect, Decide
<1>. QED
  BY <1>1, TakenAway, AcceptAside, RefuseAside DEF Accept

LEMMA AttachServed ==
    ASSUME IgSound, Tracked, UNCHANGED igShown, NEW q \in igReqs, ServeAttach(q)
    PROVE  IgSound' /\ Tracked'
<1>1. /\ q.kind # "project"
      /\ (Accept(q, Attached(q.arg), {}) /\ Attachable(q.arg)) \/ Refuse(q)
  BY DEF ServeAttach, Decide
<1>. QED
  BY <1>1, Lent, AcceptAside, RefuseAside DEF Accept

(* A change fails: the notice will come.                                   *)
LEMMA ChangeFails ==
    ASSUME IgSound, UNCHANGED <<igServer, igShown>>, NEW q \in IgChanges,
           NEW a, DOMAIN a = DOMAIN q, a.kind = q.kind, a.was = q.was,
           a.at \in {"refused", "lost"}, igReqs' = (igReqs \ {q}) \cup {a}
    PROVE  IgSound' /\ Tracked'
<1>1. a \in IgChanges' /\ q \in igReqs
  BY DEF IgChanges
<1>2. Warned'
  BY <1>1 DEF Warned
<1>3. IgSound'
  BY <1>1 DEF IgSound, IgChanges
<1>. QED
  BY <1>2, <1>3 DEF Tracked

(* A change is taken only from the version the row still has, so nothing   *)
(* was taken before that the view does not know.                           *)
LEMMA ProjectServed ==
    ASSUME IgSound, Tracked, UNCHANGED igShown, NEW q \in igReqs, q.at = "sent", ServeProject(q)
    PROVE  IgSound' /\ Tracked'
<1>. DEFINE a == [q EXCEPT !.at = "written"]
            b == [q EXCEPT !.at = "refused"]
<1>1. q.kind = "project" /\ q \in IgChanges /\ q.was # {}
  BY DEF ServeProject, IgSound, IgChanges
<1>2. \/ /\ \A w \in q.was : w.ver = igServer.ver
         /\ igServer' = Chosen(q.arg) /\ igReqs' = (igReqs \ {q}) \cup {a}
      \/ Refuse(q)
  BY DEF ServeProject
<1>4. /\ DOMAIN a = DOMAIN q /\ a.kind = "project" /\ a.at = "written" /\ a.was = q.was
      /\ DOMAIN b = DOMAIN q /\ b.kind = "project" /\ b.at = "refused" /\ b.was = q.was
  BY <1>1, AnswerOf DEF IgSound
<1>5. CASE Refuse(q)
  <2>1. UNCHANGED igServer /\ igReqs' = (igReqs \ {q}) \cup {b}
    BY <1>5 DEF Refuse
  <2>. HIDE DEF b
  <2>. QED
    BY <1>1, <1>4, <2>1, ChangeFails
<1>6. ASSUME \A w \in q.was : w.ver = igServer.ver, igServer' = Chosen(q.arg),
             NEW p, igReqs' = (igReqs \ {q}) \cup {p},
             DOMAIN p = DOMAIN q, p.kind = "project", p.at = "written", p.was = q.was
      PROVE  IgSound' /\ Tracked'
  <2>0. /\ DOMAIN igServer' = DOMAIN igServer /\ igServer'.ver = igServer.ver + 1
        /\ igServer'.other = igServer.other
    BY <1>6 DEF Chosen, IgSound
  <2>1. IgSound'
    BY <1>1, <1>6, <2>0 DEF IgSound
  <2>2. IgChanges' = (IgChanges \ {q}) \cup {p} /\ Taken' = Taken \cup {p}
    BY <1>1, <1>6 DEF IgChanges, Taken
  <2>3. ASSUME Warned
        PROVE  Warned'
    BY <1>1, <2>2, <2>3 DEF Warned
  <2>4. ASSUME InStep
        PROVE  InStep'
    <3>1. igShown.ver = igServer.ver
      BY <1>1, <1>6, <2>4 DEF InStep, IgSound
    <3>2. Taken' = {p}
      BY <2>2, <2>4, <3>1 DEF InStep, IgSound
    <3>3. \A r \in igReqs' : \A w \in r.was : w.ver <= igShown'.ver
      BY <1>6, <2>4 DEF InStep
    <3>4. igShown'.ver < igServer'.ver /\ igServer'.other <= igServer'.ver
      BY <2>0, <2>4, <3>1 DEF InStep, IgSound
    <3>5. igShown'.ver <= igServer'.ver
      BY <3>4, <2>1 DEF IgSound
    <3>. QED
      BY <1>6, <2>2, <3>2, <3>3, <3>4, <3>5 DEF InStep
  <2>. QED
    BY <2>1, <2>3, <2>4 DEF Tracked
<1>. QED
  <2>. HIDE DEF a
  <2>. QED
    BY <1>2, <1>4, <1>5, <1>6

(* The row that the answer brings is the project's at that moment.         *)
LEMMA ProjectRead ==
    ASSUME IgSound, Tracked, UNCHANGED igShown, NEW q \in igReqs, q.at = "written",
           ReadProject(q)
    PROVE  IgSound' /\ Tracked'
<1>1. q.kind = "project" /\ q \in IgChanges /\ q \in Taken /\ q.was # {}
  BY DEF ReadProject, IgSound, IgChanges, Taken
<1>2. PICK row, a :
        /\ row = [conn |-> igServer.conn, ver |-> igServer.ver]
        /\ a = [q EXCEPT !.at = "ok", !.got = {row}]
        /\ UNCHANGED igServer /\ igReqs' = (igReqs \ {q}) \cup {a}
  BY DEF ReadProject, Accept
<1>3. /\ DOMAIN a = DOMAIN q /\ a.kind = "project" /\ a.at = "ok" /\ a.was = q.was
      /\ a.got = {row}
  BY <1>1, <1>2, AnswerOf DEF IgSound
<1>4. row.ver = igServer.ver /\ row.conn = igServer.conn
  BY <1>2
<1>5. UNCHANGED igServer /\ igReqs' = (igReqs \ {q}) \cup {a}
  BY <1>2
<1>6. IgSound'
  <2>1. a.got = {row} /\ row.ver \in Nat
    BY <1>3, <1>4 DEF IgSound
  <2>. QED
    BY <1>1, <1>3, <1>5, <2>1 DEF IgSound
<1>7. IgChanges' = (IgChanges \ {q}) \cup {a} /\ Taken' = (Taken \ {q}) \cup {a}
  BY <1>1, <1>3, <1>5 DEF IgChanges, Taken
<1>8. ASSUME Warned
      PROVE  Warned'
  BY <1>1, <1>7, <1>8 DEF Warned
<1>9. ASSUME InStep
      PROVE  InStep'
  <2>1. Taken' = {a} /\ igShown.ver < igServer.ver
    BY <1>1, <1>7, <1>9 DEF InStep
  <2>2. \A r \in igReqs' : \A w \in r.was : w.ver <= igShown'.ver
    BY <1>5, <1>3, <1>9 DEF InStep
  <2>3. Fits(row.conn, row.ver)'
    BY <1>5, <1>4 DEF Fits, Agrees
  <2>4. igServer.ver <= igServer.ver
    BY DEF IgSound
  <2>. QED
    BY <1>5, <1>3, <1>4, <1>7, <1>9, <2>1, <2>2, <2>3, <2>4 DEF InStep
<1>. QED
  BY <1>6, <1>8, <1>9 DEF Tracked

(* Another client writes the project: whatever the view has of it is older *)
(* from now on, but for its own row that a change brings later.            *)
LEMMA OthersKeep ==
    ASSUME IgSound, Tracked, NEW c, AnotherClient(c)
    PROVE  IgSound' /\ Tracked'
<1>1. UNCHANGED <<igShown, igReqs>> /\ IgChanges' = IgChanges /\ Taken' = Taken
  BY DEF AnotherClient, IgChanges, Taken
<1>2. ASSUME Warned
      PROVE  Warned'
  BY <1>1, <1>2 DEF Warned
<1>3. CASE igServer' = [Chosen(c) EXCEPT !.other = igServer.ver + 1]
  <2>1. /\ DOMAIN igServer' = DOMAIN igServer /\ igServer'.ver = igServer.ver + 1
        /\ igServer'.other = igServer.ver + 1
    BY <1>3 DEF Chosen, IgSound
  <2>2. IgSound'
    BY <1>1, <2>1 DEF IgSound
  <2>3. ASSUME InStep
        PROVE  InStep'
    <3>1. igShown'.ver < igServer'.other /\ igShown'.ver < igServer'.ver
          /\ igShown'.ver <= igServer'.ver /\ igServer'.other <= igServer'.ver
      BY <1>1, <2>1, <2>3 DEF InStep, IgSound
    <3>2. ASSUME NEW q \in Taken, q.at = "ok", NEW row \in q.got
          PROVE  /\ igShown.ver < row.ver /\ row.ver <= igServer'.ver
                 /\ row.ver < igServer'.other
      <4>1. row.ver \in Nat /\ igShown.ver < row.ver /\ row.ver <= igServer.ver
        BY <2>3, <3>2 DEF InStep, IgSound, Taken, IgChanges
      <4>. QED
        BY <4>1, <2>1 DEF IgSound
    <3>. QED
      BY <1>1, <2>3, <3>1, <3>2 DEF InStep, Fits
  <2>. QED
    BY <1>2, <2>2, <2>3 DEF Tracked
<1>4. CASE igServer' = Disconnected(c) \/ (Attachable(c) /\ igServer' = Attached(c))
  <2>1. /\ DOMAIN igServer' = DOMAIN igServer
        /\ igServer'.ver = igServer.ver /\ igServer'.other = igServer.other
        /\ \A d : Agrees(d) => Agrees(d)'
    BY <1>4, TakenAway, Lent
  <2>2. IgSound'
    BY <1>1, <2>1 DEF IgSound
  <2>3. ASSUME InStep
        PROVE  InStep'
    BY <1>1, <2>1, <2>3, InStepHeld DEF InStep
  <2>. QED
    BY <1>2, <2>2, <2>3 DEF Tracked
<1>. QED
  BY <1>3, <1>4 DEF AnotherClient

LEMMA ServeKeeps ==
    ASSUME IgSound, Tracked, NEW q \in igReqs, IgServe(q)
    PROVE  IgSound' /\ Tracked'
<1>1. UNCHANGED igShown
  BY DEF IgServe
<1>. QED
  BY <1>1, ServesAside, DisconnectServed, AttachServed, ProjectServed, ProjectRead DEF IgServe

LEMMA LoseKeeps ==
    ASSUME IgSound, Tracked, NEW q \in igReqs, IgLose(q)
    PROVE  IgSound' /\ Tracked'
<1>. DEFINE a == [q EXCEPT !.at = "lost", !.got = {}]
<1>1. DOMAIN a = DOMAIN q /\ a.kind = q.kind /\ a.was = q.was /\ a.at = "lost"
  BY AnswerOf DEF IgSound
<1>2. UNCHANGED <<igServer, igShown>> /\ igReqs' = (igReqs \ {q}) \cup {a}
  BY DEF IgLose
<1>. HIDE DEF a
<1>3. CASE q.kind = "project"
  BY <1>1, <1>2, <1>3, ChangeFails DEF IgChanges
<1>4. CASE q.kind # "project"
  <2>1. \A c : Agrees(c) => Agrees(c)'
    BY <1>2 DEF Agrees
  <2>. QED
    BY <1>1, <1>2, <1>4, <2>1, Answers
<1>. QED
  BY <1>3, <1>4

-----------------------------------------------------------------------------
(* What the continuations do                                               *)

LEMMA BesideTracked ==
    ASSUME IgSound, Tracked, IgSound' /\ Beside
    PROVE  IgSound' /\ Tracked'
BY BesideKeeps

LEMMA EndsAside ==
    ASSUME IgSound, Tracked, UNCHANGED igServer, NEW q \in igReqs,
           \/ EndRepositories(q) \/ EndConflicts(q) \/ EndMappings(q) \/ EndRuns(q)
           \/ EndAttach(q) \/ EndImport(q) \/ EndDetach(q) \/ EndResolve(q) \/ EndMapping(q)
    PROVE  IgSound' /\ Tracked'
<1>1. \A more : Plain(more) /\ (\E sees, busy : IgDone(q, sees, busy, more) /\ SameProject(sees))
                  /\ q.kind # "project" => IgSound' /\ Tracked'
  <2>. SUFFICES ASSUME NEW more, Plain(more), NEW sees, NEW busy,
                       IgDone(q, sees, busy, more), SameProject(sees), q.kind # "project"
                PROVE  IgSound' /\ Tracked'
    OBVIOUS
  <2>1. SameProject(igShown') /\ igReqs' = (igReqs \ {q}) \cup more
    BY DEF IgDone
  <2>. QED
    BY <2>1, Ends, BesideTracked
<1>2. /\ Plain({})
      /\ \A kind, arg : kind # "project" => Plain({IgReq(kind, arg)})
  BY PlainRequest DEF Plain
<1>3. /\ SameProject(igShown)
      /\ \A v : /\ SameProject([igShown EXCEPT !.error = v])
                /\ SameProject([igShown EXCEPT !.open = v])
                /\ SameProject([igShown EXCEPT !.noConflicts = v])
                /\ SameProject([igShown EXCEPT !.mapped = v])
                /\ SameProject([igShown EXCEPT !.noMappings = v])
                /\ SameProject([igShown EXCEPT !.running = v])
                /\ SameProject([igShown EXCEPT !.attached = v])
                /\ \A u : SameProject([igShown EXCEPT !.repos = u, !.attached = v])
  BY DEF SameProject, IgSound
<1>4. CASE EndRepositories(q)
  <2>1. PICK s : SameProject(s) /\ IgDone(q, s, igBusy, {})
    <3>1. CASE q.at # "ok"
      BY <1>3, <1>4, <3>1 DEF EndRepositories
    <3>2. CASE q.at = "ok"
      <4>1. PICK a \in q.got :
              IgDone(q, [igShown EXCEPT !.repos = a.repos, !.attached = a.attached], igBusy, {})
        BY <1>4, <3>2 DEF EndRepositories
      <4>. QED
        BY <1>3, <4>1
    <3>. QED
      BY <3>1, <3>2
  <2>. QED
    BY <1>1, <1>2, <1>4, <2>1 DEF EndRepositories
<1>5. CASE EndConflicts(q)
  BY <1>1, <1>2, <1>3, <1>5 DEF EndConflicts
<1>6. CASE EndMappings(q)
  BY <1>1, <1>2, <1>3, <1>6 DEF EndMappings
<1>7. CASE EndRuns(q)
  BY <1>1, <1>2, <1>3, <1>7 DEF EndRuns
<1>8. CASE EndAttach(q)
  BY <1>1, <1>2, <1>3, <1>8 DEF EndAttach
<1>9. CASE EndImport(q)
  BY <1>1, <1>2, <1>3, <1>9 DEF EndImport
<1>10. CASE EndDetach(q)
  BY <1>1, <1>2, <1>3, <1>10 DEF EndDetach
<1>11. CASE EndResolve(q)
  BY <1>1, <1>2, <1>3, <1>11 DEF EndResolve
<1>12. CASE EndMapping(q)
  BY <1>1, <1>2, <1>3, <1>12 DEF EndMapping
<1>. QED
  BY <1>4, <1>5, <1>6, <1>7, <1>8, <1>9, <1>10, <1>11, <1>12

(* The row of the answer, or the notice.                                   *)
LEMMA ProjectEnds ==
    ASSUME IgSound, Tracked, UNCHANGED igServer, NEW q \in igReqs,
           q.at \notin {"sent", "written"}, EndProject(q)
    PROVE  IgSound' /\ Tracked'
<1>0. q.kind = "project" /\ q \in IgChanges
  BY DEF EndProject, IgChanges
<1>1. PICK w \in q.was :
         LET sees == IF q.at = "ok"
                      THEN Shows(CHOOSE row \in q.got : TRUE)
                      ELSE [Shows(w) EXCEPT !.alert = TRUE]
             now == IF sees.conn # igShown.conn THEN Follow(sees) ELSE sees
         IN  IgDone(q, now, igBusy, Reloads(now))
  BY DEF EndProject
<1>2. PICK more : Plain(more) /\ igReqs' = (igReqs \ {q}) \cup more
  BY <1>1, PlainReloads DEF IgDone
<1>3. CASE q.at # "ok"
  <2>1. DOMAIN igShown' = DOMAIN igShown /\ igShown'.ver = w.ver /\ igShown'.alert = TRUE
    BY <1>1, <1>3 DEF IgDone, Follow, Shows, IgSound
  <2>2. IgSound'
    BY <1>2, <2>1 DEF IgSound, Plain
  <2>3. Warned'
    BY <2>1 DEF Warned
  <2>. QED
    BY <2>2, <2>3 DEF Tracked
<1>4. CASE q.at = "ok"
  <2>1. PICK row : q.got = {row} /\ row.ver \in Nat
    BY <1>0, <1>4 DEF IgSound
  <2>2. (CHOOSE r \in q.got : TRUE) = row
    BY <2>1
  <2>3. /\ DOMAIN igShown' = DOMAIN igShown
        /\ igShown'.conn = row.conn /\ igShown'.ver = row.ver /\ igShown'.alert = igShown.alert
    BY <1>1, <1>4, <2>2 DEF IgDone, Follow, Shows, IgSound
  <2>4. IgSound'
    BY <1>2, <2>1, <2>3 DEF IgSound, Plain
  <2>5. IgChanges' = IgChanges \ {q} /\ Taken' = Taken \ {q}
    BY <1>0, <1>2 DEF IgChanges, Taken, Plain
  <2>6. ASSUME Warned
        PROVE  Warned'
    BY <1>4, <2>3, <2>5, <2>6 DEF Warned
  <2>7. ASSUME InStep
        PROVE  InStep'
    <3>1. /\ q \in Taken /\ igShown.ver < row.ver /\ row.ver <= igServer.ver
          /\ Fits(row.conn, row.ver) /\ Taken' = {}
      BY <1>0, <1>4, <2>1, <2>5, <2>7 DEF Taken, InStep
    <3>2. \A r \in igReqs' : \A u \in r.was : u.ver <= row.ver
      BY <1>2, <2>1, <2>7, <3>1 DEF InStep, Plain, IgSound
    <3>3. Fits(row.conn, row.ver)'
      BY <3>1 DEF Fits, Agrees
    <3>4. row.ver < igServer.ver => row.ver < igServer.other
      BY <2>1, <3>1 DEF Fits, IgSound
    <3>. QED
      BY <2>3, <2>5, <2>7, <3>1, <3>2, <3>3, <3>4 DEF InStep
  <2>. QED
    BY <2>4, <2>6, <2>7 DEF Tracked
<1>. QED
  BY <1>3, <1>4

LEMMA ConnectEnds ==
    ASSUME IgSound, Tracked, UNCHANGED igServer, NEW q \in igReqs, EndConnect(q)
    PROVE  IgSound' /\ Tracked'
<1>0. q.kind # "project" /\ SameProject(igShown)
  BY DEF EndConnect, SameProject
<1>1. CASE q.at # "ok"
  <2>1. igReqs' = (igReqs \ {q}) \cup {} /\ Plain({}) /\ UNCHANGED igShown
    BY <1>1 DEF EndConnect, Plain
  <2>. QED
    BY <1>0, <2>1, Ends, BesideTracked
<1>2. CASE q.at = "ok"
  <2>. DEFINE with(w) == Follow([igShown EXCEPT !.conns = w.conns \cup {q.arg}, !.error = FALSE])
              blank(w) == [with(w) EXCEPT !.repos = NoConnection]
              show(w) == [blank(w) EXCEPT !.conn = q.arg, !.picked = q.arg]
              req(w) == [IgReq("project", q.arg) EXCEPT !.was = {w}]
  <2>1. PICK w \in q.was :
          IF w.conn = NoConnection
          THEN igShown' = show(w) /\ igReqs' = ((igReqs \ {q}) \cup Reloads(show(w))) \cup {req(w)}
          ELSE igShown' = with(w) /\ igReqs' = ((igReqs \ {q}) \cup Reloads(with(w))) \cup {}
    BY <1>2 DEF EndConnect, ChangeConnection
  <2>2. Plain(Reloads(show(w))) /\ Plain(Reloads(with(w)))
    BY PlainReloads
  <2>3. SameProject(with(w))
    BY DEF SameProject, Follow, IgSound
  <2>4. DOMAIN show(w) = DOMAIN igShown /\ show(w).ver = igShown.ver
        /\ show(w).alert = igShown.alert
    BY DEF Follow, IgSound
  <2>5. DOMAIN req(w) = {"kind", "arg", "at", "got", "was"} /\ req(w).kind = "project"
        /\ req(w).at = "sent" /\ req(w).was = {w}
    BY NewIgWrite
  <2>6. w.ver \in Nat /\ (InStep => w.ver <= igShown.ver)
    BY <2>1 DEF IgSound, InStep
  <2>. HIDE DEF with, show, req
  <2>7. CASE w.conn # NoConnection
    <3>1. igShown' = with(w) /\ igReqs' = (igReqs \ {q}) \cup Reloads(with(w))
      BY <2>1, <2>7
    <3>. QED
      BY <1>0, <2>2, <2>3, <3>1, Ends, BesideTracked
  <2>8. CASE w.conn = NoConnection
    <3>1. igShown' = show(w) /\ igReqs' = ((igReqs \ {q}) \cup {req(w)}) \cup Reloads(show(w))
      BY <2>1, <2>8
    <3>. QED
      BY <1>0, <2>2, <2>4, <2>5, <2>6, <3>1, ChangeSent
  <2>. QED
    BY <2>7, <2>8
<1>. QED
  BY <1>1, <1>2

LEMMA DisconnectEnds ==
    ASSUME IgSound, Tracked, UNCHANGED igServer, NEW q \in igReqs, EndDisconnect(q)
    PROVE  IgSound' /\ Tracked'
<1>. DEFINE without(w) == Follow([igShown EXCEPT !.conns = w.conns \ {q.arg}])
            show(w) == [without(w) EXCEPT !.conn = NoConnection, !.picked = NoConnection]
            req(w) == [IgReq("project", NoConnection) EXCEPT !.was = {w}]
<1>0. q.kind # "project"
  BY DEF EndDisconnect
<1>1. PICK w \in q.was :
        \/ igShown' = [igShown EXCEPT !.error = TRUE] /\ igReqs' = (igReqs \ {q}) \cup {}
        \/ igShown' = without(w) /\ igReqs' = (igReqs \ {q}) \cup Reloads(without(w))
        \/ igShown' = show(w) /\ igReqs' = (igReqs \ {q}) \cup ({req(w)} \cup Reloads(show(w)))
  BY DEF EndDisconnect, IgDone, ChangeConnection
<1>2. Plain({}) /\ Plain(Reloads(without(w))) /\ Plain(Reloads(show(w)))
  BY PlainReloads DEF Plain
<1>3. SameProject([igShown EXCEPT !.error = TRUE]) /\ SameProject(without(w))
  BY DEF SameProject, Follow, IgSound
<1>4. DOMAIN show(w) = DOMAIN igShown /\ show(w).ver = igShown.ver
      /\ show(w).alert = igShown.alert
  BY DEF Follow, IgSound
<1>5. DOMAIN req(w) = {"kind", "arg", "at", "got", "was"} /\ req(w).kind = "project"
      /\ req(w).at = "sent" /\ req(w).was = {w}
  BY NewIgWrite
<1>6. w.ver \in Nat /\ (InStep => w.ver <= igShown.ver)
  BY <1>1 DEF IgSound, InStep
<1>. HIDE DEF without, show, req
<1>7. CASE igShown' = [igShown EXCEPT !.error = TRUE] /\ igReqs' = (igReqs \ {q}) \cup {}
  BY <1>0, <1>2, <1>3, <1>7, Ends, BesideTracked
<1>8. CASE igShown' = without(w) /\ igReqs' = (igReqs \ {q}) \cup Reloads(without(w))
  BY <1>0, <1>2, <1>3, <1>8, Ends, BesideTracked
<1>9. CASE igShown' = show(w) /\ igReqs' = (igReqs \ {q}) \cup ({req(w)} \cup Reloads(show(w)))
  <2>1. igReqs' = ((igReqs \ {q}) \cup {req(w)}) \cup Reloads(show(w))
    BY <1>9
  <2>. QED
    BY <1>0, <1>2, <1>4, <1>5, <1>6, <1>9, <2>1, ChangeSent
<1>. QED
  BY <1>1, <1>7, <1>8, <1>9

LEMMA ContinueKeeps ==
    ASSUME IgSound, Tracked, NEW q \in igReqs, IgContinue(q)
    PROVE  IgSound' /\ Tracked'
<1>1. UNCHANGED igServer /\ q.at \notin {"sent", "written"}
  BY DEF IgContinue
<1>. QED
  BY <1>1, EndsAside, ProjectEnds, ConnectEnds, DisconnectEnds DEF IgContinue

-----------------------------------------------------------------------------
LEMMA IgStepKeeps ==
    ASSUME IgSound, Tracked, [IgNext]_igVars
    PROVE  IgSound' /\ Tracked'
<1>1. CASE \/ \E c \in IgConnections \cup {NoConnection} :
                AttachAndImport(c) \/ DetachRepository(c) \/ Disconnect(c) \/ SubmitConnection(c)
           \/ RefreshRepositories \/ RefreshActivity
           \/ OpenConnectionDialog \/ GoForward \/ GoBack
           \/ \E k \in IgConflicts, side \in {"local", "other"} : ResolveConflict(k, side)
           \/ \E u \in IgLogins : SaveMapping(u) \/ RemoveMapping(u)
           \/ PollConflicts \/ PollRuns
  BY <1>1, UserAside, BesideTracked
<1>2. CASE \E c \in IgConnections \cup {NoConnection} : SelectConnection(c)
  BY <1>2, SelectKeeps
<1>3. CASE \E q \in igReqs : IgServe(q)
  BY <1>3, ServeKeeps
<1>4. CASE \E q \in igReqs : IgContinue(q)
  BY <1>4, ContinueKeeps
<1>5. CASE \E q \in igReqs : IgLose(q)
  BY <1>5, LoseKeeps
<1>6. ASSUME UNCHANGED <<igShown, igReqs>>, DOMAIN igServer' = DOMAIN igServer,
             igServer'.ver = igServer.ver, igServer'.conn = igServer.conn,
             igServer'.gone = igServer.gone, igServer'.lent = igServer.lent,
             igServer'.other = igServer.other
      PROVE  IgSound' /\ Tracked'
  <2>1. Beside
    BY <1>6 DEF Beside, IgChanges
  <2>2. IgSound'
    BY <1>6 DEF IgSound
  <2>. QED
    BY <2>1, <2>2, BesideTracked
<1>7. CASE \E r \in IgConnections : ImportEnds(r)
  <2>1. PICK r : ImportEnds(r)
    BY <1>7
  <2>2. /\ UNCHANGED <<igShown, igReqs>>
        /\ DOMAIN igServer' = DOMAIN igServer /\ igServer'.ver = igServer.ver
        /\ igServer'.conn = igServer.conn
        /\ igServer'.gone = igServer.gone /\ igServer'.lent = igServer.lent
        /\ igServer'.other = igServer.other
    BY <2>1 DEF ImportEnds, IgSound
  <2>. QED
    BY <1>6, <2>2
<1>8. CASE \E k \in IgConflicts : ConflictOpens(k)
  <2>1. PICK k : ConflictOpens(k)
    BY <1>8
  <2>2. /\ UNCHANGED <<igShown, igReqs>>
        /\ DOMAIN igServer' = DOMAIN igServer /\ igServer'.ver = igServer.ver
        /\ igServer'.conn = igServer.conn
        /\ igServer'.gone = igServer.gone /\ igServer'.lent = igServer.lent
        /\ igServer'.other = igServer.other
    BY <2>1 DEF ConflictOpens, IgSound
  <2>. QED
    BY <1>6, <2>2
<1>9. CASE UNCHANGED igVars
  BY <1>6, <1>9 DEF igVars
<1>10. CASE \E c \in IgConnections \cup {NoConnection} : AnotherClient(c)
  BY <1>10, OthersKeep
<1>. QED
  BY <1>1, <1>2, <1>3, <1>4, <1>5, <1>7, <1>8, <1>9, <1>10 DEF IgNext, IgUser, IgServes, IgEnds

LEMMA IgStarts ==
    ASSUME IgInit
    PROVE  IgSound /\ Tracked
<1>1. \A q \in igReqs : /\ DOMAIN q = {"kind", "arg", "at", "got", "was"} /\ q.at = "sent"
                        /\ q.was = {} /\ q.kind \in {"repos", "conflicts", "mappings"}
  BY NewIgRequest DEF IgInit, IgMount
<1>2. IgChanges = {} /\ Taken = {}
  BY <1>1 DEF IgChanges, Taken
<1>3. igServer.ver = 1 /\ igServer.other = 0 /\ igShown.ver = 1 /\ igServer.conn = igShown.conn
  BY DEF IgInit
<1>4. IgSound
  BY <1>1, <1>3 DEF IgSound, IgInit
<1>5. InStep
  BY <1>1, <1>2, <1>3 DEF InStep, Fits, Agrees
<1>. QED
  BY <1>4, <1>5 DEF Tracked

(* ConnectionAgrees: with no change of the connection in flight and no     *)
(* notice on the screen, the connection shown is the project's, unless     *)
(* another client wrote the project after the version shown, or the        *)
(* connection was taken away or came with an import since it was chosen    *)
(* (handleProjectConnectionChange of project-workspace.tsx; updateProject, *)
(* deleteGitConnection and attachProjectRepository of server.go).  A       *)
(* change is refused unless it was made from the row's version; the view   *)
(* is behind only by the one change of its own that was taken and not yet  *)
(* answered and by those of others, so that every other change of its own  *)
(* ends in the notice.                                                     *)
THEOREM ConnectionShownIsTheServers == IgSpec => []ConnectionAgrees
<1>1. IgInit => IgSound /\ Tracked
  BY IgStarts
<1>2. IgSound /\ Tracked /\ [IgNext]_igVars => IgSound' /\ Tracked'
  BY IgStepKeeps
<1>3. IgSound /\ Tracked => ConnectionAgrees
  BY DEF Tracked, Warned, InStep, Fits, Agrees, IgChanges, ConnectionAgrees
<1>. QED
  BY <1>1, <1>2, <1>3, PTL DEF IgSpec

-----------------------------------------------------------------------------
(* Settings *)

SeSpec == SeInit /\ [][SeNext]_seVars

RequestFields == {"kind", "arg", "at", "got", "was"}

SettingsTyped ==
    /\ {"page", "token", "other", "viewers", "pos", "role", "invited"} \subseteq DOMAIN seServer
    /\ {"pages", "urls", "public", "selected", "viewers", "pos", "role", "invited", "error"}
         \subseteq DOMAIN seShown
    /\ {"link", "revoke", "saving", "viewer"} \subseteq DOMAIN seBusy
    /\ {"login", "kinds", "starts", "others", "faults", "excused"} \subseteq DOMAIN seLeft
    /\ DOMAIN seServer.page = SePages
    /\ seServer.token \in [SePages -> Nat] /\ seServer.other \in [SePages -> Nat]
    /\ DOMAIN seShown.pages = SePages /\ DOMAIN seShown.urls = SePages
    /\ \A q \in seReqs : DOMAIN q = RequestFields

Exists(p) == seServer.page[p] # "none"
ExcusedPage(p) == p \in seLeft.excused

(* Token n of the page is the one it has, or another client has issued a   *)
(* later one.                                                              *)
Current(p, n) == seServer.token[p] = n \/ n < seServer.other[p]

(* A list of pages that was true of the pages that are there.              *)
Read(q) == \A got \in q.got : /\ DOMAIN got = SePages
                              /\ \A p \in SePages : got[p] # "none" => Exists(p)

(* What a request on its way says of its page.  A page whose creation is   *)
(* not yet answered is not shown, or is excused; one whose link is being   *)
(* issued shows none until the answer is in.                               *)
PageRequest(q) ==
    /\ q.kind \in {"link", "create", "revoke"} => q.arg \in SePages
    /\ q.kind \in {"link", "revoke"} => Exists(q.arg)
    /\ q.kind = "pages" => Read(q)
    /\ q.kind = "create" =>
         /\ q.at = "sent" => ~Exists(q.arg)
         /\ q.at = "ok" => /\ Exists(q.arg)
                           /\ ExcusedPage(q.arg) \/ Current(q.arg, 1)
         /\ seShown.pages[q.arg] = "active" => ExcusedPage(q.arg)
    /\ q.kind = "link" =>
         /\ seShown.urls[q.arg] = 0 \/ ExcusedPage(q.arg)
         /\ q.at = "ok" => \E n \in Nat : q.got = {n} /\ Current(q.arg, n)

(* One page is created and one link issued at a time.                      *)
OneAtATime ==
    /\ seBusy.link = NoPage => SeFlying("link") = {}
    /\ \A q, r \in SeFlying("link") : q = r
    /\ \A q, r \in SeFlying("create") : q = r
    /\ \A q \in SeFlying("create"), r \in SeFlying("link") :
         q.arg = r.arg => ExcusedPage(q.arg)

PageShown(p) ==
    /\ seShown.pages[p] # "none" => Exists(p)
    /\ \/ seShown.urls[p] = 0 \/ ExcusedPage(p)
       \/ Current(p, seShown.urls[p]) /\ Exists(p) /\ seShown.urls[p] \in Nat

(* What others issued came after the page's creation and not after the     *)
(* page's token.                                                           *)
OthersIssued(p) ==
    /\ seServer.other[p] <= seServer.token[p]
    /\ ~Exists(p) => seServer.other[p] = 0

LinksHold ==
    /\ SettingsTyped /\ OneAtATime
    /\ \A q \in seReqs : PageRequest(q)
    /\ \A p \in SePages : PageShown(p) /\ OthersIssued(p)

(* Steps that are not about pages and links.                               *)
LEMMA LinksKept ==
    ASSUME LinksHold, SettingsTyped', seBusy'.link = seBusy.link,
           seServer'.page = seServer.page, seServer'.token = seServer.token,
           seServer'.other = seServer.other,
           seShown'.pages = seShown.pages, seShown'.urls = seShown.urls,
           seLeft'.excused = seLeft.excused,
           \A q \in seReqs' : \/ q \in seReqs
                              \/ q.kind \notin {"link", "create"} /\ PageRequest(q)
    PROVE  LinksHold'
<1>1. \A p \in SePages : Exists(p)' = Exists(p) /\ ExcusedPage(p)' = ExcusedPage(p)
  BY DEF Exists, ExcusedPage
<1>2. OneAtATime'
  BY DEF LinksHold, OneAtATime, SeFlying, ExcusedPage
<1>3. ASSUME NEW q \in seReqs', PageRequest(q)
      PROVE  PageRequest(q)'
  BY <1>1, <1>3 DEF PageRequest, Current, Read
<1>4. \A p \in SePages : PageShown(p)' /\ OthersIssued(p)'
  BY <1>1 DEF LinksHold, PageShown, OthersIssued, Current
<1>. QED
  BY <1>2, <1>3, <1>4 DEF LinksHold

(* The user's steps.                                                       *)
LEMMA LinksUser ==
    ASSUME LinksHold, SeUser
    PROVE  LinksHold'
<1>1. \A kind, arg : /\ DOMAIN SeReq(kind, arg) = RequestFields
                     /\ SeReq(kind, arg).kind = kind /\ SeReq(kind, arg).arg = arg
                     /\ SeReq(kind, arg).at = "sent" /\ SeReq(kind, arg).got = {}
  BY DEF SeReq, RequestFields
<1>2. SettingsTyped /\ NoPage \notin SePages
  BY SettingsAssumption DEF LinksHold, SettingsAssumption
<1>3. \A kind : SeBegin(kind) => /\ DOMAIN seLeft' = DOMAIN seLeft
                                 /\ seLeft'.excused = seLeft.excused
  BY <1>2 DEF SeBegin, SettingsTyped
<1>4. \A p \in SePages : p \in ActivePages => Exists(p)
  BY DEF ActivePages, LinksHold, PageShown, OthersIssued, Current, Exists
<1>5. ASSUME NEW p \in SePages, SavePublicPage(p)
      PROVE  LinksHold'
  <2>. DEFINE new == SeReq("create", p)
  <2>1. /\ UNCHANGED seServer /\ seReqs' = seReqs \cup {new} /\ SeFlying("create") = {}
        /\ ~Exists(p) /\ seLeft'.excused = seLeft.excused
        /\ seBusy'.link = seBusy.link /\ seShown'.pages = seShown.pages
        /\ seShown'.urls = seShown.urls
    BY <1>2, <1>3, <1>5 DEF SavePublicPage, SeSend, Exists, SettingsTyped
  <2>2. SettingsTyped'
    BY <1>1, <1>2, <1>3, <1>5 DEF SavePublicPage, SeSend, SettingsTyped
  <2>3. /\ new.kind = "create" /\ new.arg = p /\ new.at = "sent"
    BY <1>1
  <2>. HIDE DEF new
  <2>4. \A r \in SeFlying("link") : r.arg # p
    BY <2>1 DEF LinksHold, PageRequest, Current, SeFlying
  <2>5. OneAtATime'
    BY <2>1, <2>3, <2>4 DEF LinksHold, OneAtATime, SeFlying, ExcusedPage
  <2>6. PageShown(p) /\ seShown.pages[p] # "active"
    BY <2>1 DEF LinksHold, PageShown, OthersIssued, Current
  <2>7. PageRequest(new)'
    BY <2>1, <2>3, <2>6 DEF PageRequest, Current, Exists
  <2>8. \A r \in seReqs : PageRequest(r)'
    BY <2>1 DEF LinksHold, PageRequest, Current, Exists, ExcusedPage, Read
  <2>9. \A x \in SePages : PageShown(x)' /\ OthersIssued(x)'
    BY <2>1 DEF LinksHold, PageShown, OthersIssued, Current, Exists, ExcusedPage
  <2>. QED
    BY <2>1, <2>2, <2>5, <2>7, <2>8, <2>9 DEF LinksHold
<1>6. ASSUME NEW p \in SePages, RevokePage(p)
      PROVE  LinksHold'
  <2>1. PageRequest(SeReq("revoke", p)) /\ SeReq("revoke", p).kind = "revoke"
    BY <1>1, <1>4, <1>6 DEF RevokePage, PageRequest, Current
  <2>2. SettingsTyped'
    BY <1>1, <1>2, <1>3, <1>6 DEF RevokePage, SeSend, SettingsTyped
  <2>. QED
    BY <1>2, <1>3, <1>6, <2>1, <2>2, LinksKept DEF RevokePage, SeSend, SettingsTyped
<1>7. ASSUME NEW p \in SePages, GeneratePageLink(p)
      PROVE  LinksHold'
  <2>. DEFINE new == SeReq("link", p)
  <2>1. /\ UNCHANGED seServer /\ seReqs' = seReqs \cup {new} /\ SeFlying("link") = {}
        /\ Exists(p) /\ seShown.urls[p] = 0 /\ seShown.pages[p] = "active"
        /\ seLeft'.excused = seLeft.excused
        /\ seBusy'.link = p /\ seShown'.pages = seShown.pages /\ seShown'.urls = seShown.urls
    BY <1>2, <1>3, <1>4, <1>7
       DEF GeneratePageLink, SeSend, SettingsTyped, LinksHold, OneAtATime, ActivePages
  <2>2. SettingsTyped'
    BY <1>1, <1>2, <1>3, <1>7 DEF GeneratePageLink, SeSend, SettingsTyped
  <2>3. new.kind = "link" /\ new.arg = p /\ new.at = "sent"
    BY <1>1
  <2>. HIDE DEF new
  <2>4. \A r \in SeFlying("create") : r.arg = p => ExcusedPage(p)
    BY <2>1 DEF LinksHold, PageRequest, Current, SeFlying
  <2>5. OneAtATime'
    BY <1>2, <2>1, <2>3, <2>4 DEF LinksHold, OneAtATime, SeFlying, ExcusedPage
  <2>6. PageRequest(new)'
    BY <2>1, <2>3 DEF PageRequest, Current, Exists
  <2>7. \A r \in seReqs : PageRequest(r)'
    BY <2>1 DEF LinksHold, PageRequest, Current, Exists, ExcusedPage, Read
  <2>8. \A x \in SePages : PageShown(x)' /\ OthersIssued(x)'
    BY <2>1 DEF LinksHold, PageShown, OthersIssued, Current, Exists, ExcusedPage
  <2>. QED
    BY <2>1, <2>2, <2>5, <2>6, <2>7, <2>8 DEF LinksHold
<1>8. ASSUME SeReload
      PROVE  LinksHold'
  <2>1. \A q \in SeMount(seLeft.kinds) :
          /\ q.kind \in {"pages", "roles"} /\ q.got = {} /\ DOMAIN q = RequestFields
    BY <1>1 DEF SeMount
  <2>2. \A q \in SeMount(seLeft.kinds) : q.kind \notin {"link", "create"} /\ PageRequest(q)
    BY <2>1 DEF PageRequest, Current, Read
  <2>3. SettingsTyped'
    BY <1>2, <1>3, <1>8, <2>1 DEF SeReload, SeSend, SettingsTyped
  <2>. QED
    BY <1>2, <1>3, <1>8, <2>2, <2>3, LinksKept DEF SeReload, SeSend, SettingsTyped
<1>9. ASSUME NEW p \in SePages, SelectPage(p)
      PROVE  LinksHold'
  <2>1. SettingsTyped' /\ seShown'.pages = seShown.pages /\ seShown'.urls = seShown.urls
    BY <1>1, <1>2, <1>3, <1>9 DEF SelectPage, SeSend, SettingsTyped
  <2>. QED
    BY <1>1, <1>3, <1>9, <2>1, LinksKept DEF SelectPage, SeSend, PageRequest, Current
<1>10. ASSUME NEW u \in SeUsers, AddViewer(u)
       PROVE  LinksHold'
  <2>1. SettingsTyped' /\ seBusy'.link = seBusy.link
    BY <1>1, <1>2, <1>3, <1>10 DEF AddViewer, SeSend, SettingsTyped
  <2>. QED
    BY <1>1, <1>3, <1>10, <2>1, LinksKept DEF AddViewer, SeSend, PageRequest, Current
<1>11. ASSUME NEW u \in SeUsers, RemoveViewer(u) \/ Invite(u)
       PROVE  LinksHold'
  <2>1. SettingsTyped'
    BY <1>1, <1>2, <1>3, <1>11 DEF RemoveViewer, Invite, SeSend, SettingsTyped
  <2>. QED
    BY <1>1, <1>3, <1>11, <2>1, LinksKept DEF RemoveViewer, Invite, SeSend, PageRequest, Current
<1>12. ASSUME NEW u \in SeUsers, NEW r \in {"member", "admin"}, UpdateRole(u, r)
       PROVE  LinksHold'
  <2>1. SettingsTyped'
    BY <1>1, <1>2, <1>3, <1>12 DEF UpdateRole, SeSend, SettingsTyped
  <2>. QED
    BY <1>1, <1>3, <1>12, <2>1, LinksKept DEF UpdateRole, SeSend, PageRequest, Current
<1>13. ASSUME NEW order \in Orders, CommitOrder(order)
       PROVE  LinksHold'
  <2>1. \A q \in seReqs' : q \in seReqs \/ (q.kind = "position" /\ DOMAIN q = RequestFields)
    BY <1>1, <1>13 DEF CommitOrder, SeSend, RequestFields, SeReq
  <2>2. SettingsTyped' /\ seShown'.pages = seShown.pages /\ seShown'.urls = seShown.urls
    BY <1>2, <1>3, <1>13, <2>1 DEF CommitOrder, SettingsTyped
  <2>. QED
    BY <1>3, <1>13, <2>1, <2>2, LinksKept DEF CommitOrder, PageRequest, Current
<1>. QED
  BY <1>5, <1>6, <1>7, <1>8, <1>9, <1>10, <1>11, <1>12, <1>13 DEF SeUser

(* The server's steps.                                                     *)
LEMMA LinksServed ==
    ASSUME LinksHold, NEW q \in seReqs, SeServe(q)
    PROVE  LinksHold'
<1>0. /\ UNCHANGED <<seShown, seBusy, seLeft>> /\ q.at = "sent" /\ DOMAIN q = RequestFields
      /\ SettingsTyped
  BY DEF SeServe, LinksHold, SettingsTyped
(* Whatever the server answers, the request is the only one to change.     *)
<1>1. ASSUME NEW ok, NEW s, NEW got, SeAnswer(q, ok, s, got)
      PROVE  \E new : /\ seReqs' = (seReqs \ {q}) \cup {new}
                      /\ DOMAIN new = RequestFields
                      /\ new.kind = q.kind /\ new.arg = q.arg
                      /\ new.at = (IF ok THEN "ok" ELSE "refused") /\ new.got = {got}
                      /\ seServer' = IF ok THEN s ELSE seServer
  <2>. DEFINE new == [q EXCEPT !.at = IF ok THEN "ok" ELSE "refused", !.got = {got}]
  <2>1. /\ DOMAIN new = RequestFields /\ new.kind = q.kind /\ new.arg = q.arg
        /\ new.at = (IF ok THEN "ok" ELSE "refused") /\ new.got = {got}
    BY <1>0 DEF RequestFields
  <2>2. seReqs' = (seReqs \ {q}) \cup {new} /\ seServer' = IF ok THEN s ELSE seServer
    BY <1>1 DEF SeAnswer
  <2>. HIDE DEF new
  <2>. QED
    BY <2>1, <2>2
(* A step about anything else leaves pages and tokens as they are.         *)
<1>2. ASSUME NEW ok, NEW s, NEW got, SeAnswer(q, ok, s, got),
             s.page = seServer.page, s.token = seServer.token,
             s.other = seServer.other,
             DOMAIN s = DOMAIN seServer,
             \/ q.kind \notin {"link", "create", "revoke", "pages"}
             \/ q.kind = "pages" /\ got = seServer.page
      PROVE  LinksHold'
  <2>1. PICK new : /\ seReqs' = (seReqs \ {q}) \cup {new}
                   /\ DOMAIN new = RequestFields
                   /\ new.kind = q.kind /\ new.got = {got}
                   /\ seServer' = IF ok THEN s ELSE seServer
    BY <1>1, <1>2
  <2>2. SettingsTyped'
    BY <1>0, <1>2, <2>1 DEF SettingsTyped
  <2>3. PageRequest(new) /\ new.kind \notin {"link", "create"}
    BY <1>0, <1>2, <2>1 DEF PageRequest, Current, Read, Exists, SettingsTyped
  <2>. QED
    BY <1>0, <1>2, <2>1, <2>2, <2>3, LinksKept
<1>3. CASE ServePages(q)
  BY <1>2, <1>3 DEF ServePages
<1>4. CASE ServeViewers(q) \/ ServePosition(q) \/ ServeRole(q)
  <2>1. \E s : /\ DOMAIN s = DOMAIN seServer
               /\ s.page = seServer.page /\ s.token = seServer.token
               /\ s.other = seServer.other
               /\ \E ok, got : SeAnswer(q, ok, s, got)
    BY <1>0, <1>4 DEF ServeViewers, ServePosition, ServeRole, SettingsTyped
  <2>2. q.kind \notin {"link", "create", "revoke", "pages"}
    BY <1>4 DEF ServeViewers, ServePosition, ServeRole
  <2>. QED
    BY <1>2, <2>1, <2>2
<1>5. CASE ServeRevoke(q)
  <2>. DEFINE s == [seServer EXCEPT !.page[q.arg] = "revoked"]
  <2>1. q.kind = "revoke" /\ SeAnswer(q, TRUE, s, 0)
    BY <1>5 DEF ServeRevoke
  <2>2. q.arg \in SePages /\ Exists(q.arg)
    BY <2>1 DEF LinksHold, PageRequest, Current
  <2>3. /\ DOMAIN s = DOMAIN seServer /\ s.token = seServer.token /\ s.other = seServer.other
        /\ DOMAIN s.page = SePages
        /\ \A p \in SePages : s.page[p] # "none" <=> Exists(p)
    BY <1>0, <2>2 DEF SettingsTyped, Exists
  <2>. HIDE DEF s
  <2>4. PICK new : /\ seReqs' = (seReqs \ {q}) \cup {new}
                   /\ DOMAIN new = RequestFields
                   /\ new.kind = q.kind /\ new.arg = q.arg
                   /\ seServer' = s
    <3>1. seServer' = s
      BY <2>1 DEF SeAnswer
    <3>. QED
      BY <1>1, <2>1, <3>1
  <2>5. SettingsTyped'
    BY <1>0, <2>3, <2>4 DEF SettingsTyped
  <2>6. \A p \in SePages : Exists(p)' <=> Exists(p)
    BY <2>3, <2>4 DEF Exists
  <2>7. PageRequest(new)'
    BY <2>1, <2>2, <2>4, <2>6 DEF PageRequest, Current
  <2>8. \A r \in seReqs : PageRequest(r)'
    BY <1>0, <2>3, <2>4, <2>6 DEF LinksHold, PageRequest, Current, Read, ExcusedPage
  <2>9. \A p \in SePages : PageShown(p)' /\ OthersIssued(p)'
    BY <1>0, <2>3, <2>4, <2>6 DEF LinksHold, PageShown, OthersIssued, Current, ExcusedPage
  <2>10. OneAtATime'
    BY <1>0, <2>1, <2>4 DEF LinksHold, OneAtATime, SeFlying, ExcusedPage
  <2>. QED
    BY <2>4, <2>5, <2>7, <2>8, <2>9, <2>10 DEF LinksHold
<1>6. CASE ServeCreatePage(q)
  <2>. DEFINE s == [seServer EXCEPT !.page[q.arg] = "active", !.token[q.arg] = 1]
  <2>1. q.kind = "create" /\ SeAnswer(q, TRUE, s, 1)
    BY <1>6 DEF ServeCreatePage
  <2>2. /\ q.arg \in SePages /\ ~Exists(q.arg)
        /\ seShown.pages[q.arg] = "active" => ExcusedPage(q.arg)
    BY <1>0, <2>1 DEF LinksHold, PageRequest, Current
  <2>3. /\ DOMAIN s = DOMAIN seServer /\ DOMAIN s.page = SePages
        /\ s.token \in [SePages -> Nat] /\ s.token[q.arg] = 1 /\ s.page[q.arg] = "active"
        /\ s.other = seServer.other
        /\ \A p \in SePages : p # q.arg => /\ s.page[p] = seServer.page[p]
                                           /\ s.token[p] = seServer.token[p]
    BY <1>0, <2>2 DEF SettingsTyped
  <2>. HIDE DEF s
  <2>4. PICK new : /\ seReqs' = (seReqs \ {q}) \cup {new}
                   /\ DOMAIN new = RequestFields
                   /\ new.kind = q.kind /\ new.arg = q.arg /\ new.at = "ok"
                   /\ seServer' = s
    <3>1. seServer' = s
      BY <2>1 DEF SeAnswer
    <3>2. PICK new : /\ seReqs' = (seReqs \ {q}) \cup {new}
                     /\ DOMAIN new = RequestFields
                     /\ new.kind = q.kind /\ new.arg = q.arg
                     /\ new.at = (IF TRUE THEN "ok" ELSE "refused")
      BY <1>1, <2>1
    <3>. QED
      BY <3>1, <3>2
  <2>5. SettingsTyped'
    BY <1>0, <2>3, <2>4 DEF SettingsTyped
  <2>6. /\ \A p \in SePages : Exists(p) => Exists(p)' /\ p # q.arg
        /\ \A p \in SePages : p # q.arg => (Exists(p)' <=> Exists(p))
        /\ Exists(q.arg)'
    BY <2>2, <2>3, <2>4 DEF Exists
  <2>7. PageRequest(new)'
    BY <1>0, <2>1, <2>2, <2>3, <2>4, <2>6 DEF PageRequest, Current, ExcusedPage
  <2>8. ASSUME NEW r \in seReqs, r # q
        PROVE  PageRequest(r)'
    <3>1. r.kind # "create"
      BY <2>1, <2>8 DEF LinksHold, OneAtATime, SeFlying
    <3>2. PageRequest(r)
      BY DEF LinksHold
    <3>. QED
      BY <1>0, <2>2, <2>3, <2>4, <2>6, <3>1, <3>2 DEF PageRequest, Current, Read, ExcusedPage
  <2>9. \A p \in SePages : PageShown(p)' /\ OthersIssued(p)'
    BY <1>0, <2>2, <2>3, <2>4, <2>6 DEF LinksHold, PageShown, OthersIssued, Current, ExcusedPage
  <2>10. OneAtATime'
    BY <1>0, <2>1, <2>4 DEF LinksHold, OneAtATime, SeFlying, ExcusedPage
  <2>. QED
    BY <2>4, <2>5, <2>7, <2>8, <2>9, <2>10 DEF LinksHold
<1>7. CASE ServeLink(q)
  <2>. DEFINE n == Issued(q.arg)
              s == [seServer EXCEPT !.token[q.arg] = n]
              ok == seServer.page[q.arg] = "active"
  <2>1. q.kind = "link" /\ SeAnswer(q, ok, s, n)
    BY <1>7 DEF ServeLink
  <2>2. /\ q.arg \in SePages /\ Exists(q.arg)
        /\ seShown.urls[q.arg] = 0 \/ ExcusedPage(q.arg)
    BY <2>1 DEF LinksHold, PageRequest, Current
  <2>3. /\ DOMAIN s = DOMAIN seServer /\ s.page = seServer.page
        /\ s.token \in [SePages -> Nat] /\ s.token[q.arg] = n /\ s.other = seServer.other
        /\ n \in Nat /\ seServer.token[q.arg] <= n
        /\ \A p \in SePages : p # q.arg => s.token[p] = seServer.token[p]
    <3>1. n \in Nat /\ seServer.token[q.arg] <= n
      BY <1>0, <2>2 DEF Issued, SettingsTyped
    <3>. QED
      BY <1>0, <2>2, <3>1 DEF SettingsTyped
  <2>. HIDE DEF s, ok, n
  <2>4. PICK new : /\ seReqs' = (seReqs \ {q}) \cup {new}
                   /\ DOMAIN new = RequestFields
                   /\ new.kind = "link" /\ new.arg = q.arg /\ new.got = {n}
                   /\ new.at = (IF ok THEN "ok" ELSE "refused")
                   /\ seServer' = IF ok THEN s ELSE seServer
    BY <1>1, <2>1
  <2>5. SettingsTyped'
    BY <1>0, <2>3, <2>4 DEF SettingsTyped
  <2>6. \A p \in SePages : Exists(p)' <=> Exists(p)
    BY <2>3, <2>4 DEF Exists
  <2>7. PageRequest(new)'
    BY <1>0, <2>1, <2>2, <2>3, <2>4, <2>6 DEF PageRequest, Current, ExcusedPage
  <2>8. ASSUME NEW r \in seReqs, r # q
        PROVE  PageRequest(r)'
    <3>1. r.kind # "link"
      BY <2>1, <2>8 DEF LinksHold, OneAtATime, SeFlying
    <3>2. PageRequest(r)
      BY DEF LinksHold
    <3>3. r.kind = "create" => r.arg # q.arg \/ ExcusedPage(r.arg)
      BY <2>1 DEF LinksHold, OneAtATime, SeFlying
    <3>. QED
      BY <1>0, <2>2, <2>3, <2>4, <2>6, <3>1, <3>2, <3>3 DEF PageRequest, Current, Read, ExcusedPage
  <2>9. ASSUME NEW p \in SePages
        PROVE  PageShown(p)' /\ OthersIssued(p)'
    <3>1. PageShown(p) /\ OthersIssued(p)
      BY DEF LinksHold
    <3>2. p # q.arg => seServer'.token[p] = seServer.token[p]
      BY <2>3, <2>4
    <3>3. seServer'.other[p] = seServer.other[p] /\ seServer.other[p] \in Nat
      BY <1>0, <2>3, <2>4 DEF SettingsTyped
    <3>4. PageShown(p)'
      BY <1>0, <2>2, <2>6, <3>1, <3>2, <3>3 DEF PageShown, Current, ExcusedPage
    <3>5. /\ seServer.token[p] \in Nat /\ seServer'.token[p] \in Nat
          /\ seServer.token[p] <= seServer'.token[p]
      BY <1>0, <2>3, <2>4 DEF SettingsTyped
    <3>6. OthersIssued(p)'
      BY <2>6, <3>1, <3>3, <3>5 DEF OthersIssued
    <3>. QED
      BY <3>4, <3>6
  <2>10. OneAtATime'
    BY <1>0, <2>1, <2>4 DEF LinksHold, OneAtATime, SeFlying, ExcusedPage
  <2>. QED
    BY <2>4, <2>5, <2>7, <2>8, <2>9, <2>10 DEF LinksHold
<1>. QED
  BY <1>3, <1>4, <1>5, <1>6, <1>7 DEF SeServe

(* A lost request or answer leaves nothing to be believed.                 *)
LEMMA LinksLost ==
    ASSUME LinksHold, NEW q \in seReqs, SeLose(q)
    PROVE  LinksHold'
<1>. DEFINE new == [q EXCEPT !.at = "lost", !.got = {}]
<1>0. /\ UNCHANGED <<seServer, seShown, seBusy>> /\ SettingsTyped
      /\ seReqs' = (seReqs \ {q}) \cup {new}
  BY DEF SeLose, LinksHold
<1>1. /\ DOMAIN new = RequestFields /\ new.kind = q.kind /\ new.arg = q.arg
      /\ new.at = "lost" /\ new.got = {}
  BY DEF LinksHold, SettingsTyped, RequestFields
<1>. HIDE DEF new
<1>2. seLeft'.excused = seLeft.excused /\ DOMAIN seLeft' = DOMAIN seLeft
  BY <1>0 DEF SeLose, SettingsTyped
<1>3. SettingsTyped'
  BY <1>0, <1>1, <1>2 DEF SettingsTyped
<1>4. PageRequest(q)
  BY DEF LinksHold
<1>5. PageRequest(new)'
  BY <1>0, <1>1, <1>2, <1>4 DEF PageRequest, Current, Read, Exists, ExcusedPage
<1>6. \A r \in seReqs : PageRequest(r)'
  BY <1>0, <1>2 DEF LinksHold, PageRequest, Current, Read, Exists, ExcusedPage
<1>7. \A p \in SePages : PageShown(p)' /\ OthersIssued(p)'
  BY <1>0, <1>2 DEF LinksHold, PageShown, OthersIssued, Current, Exists, ExcusedPage
<1>8. OneAtATime'
  BY <1>0, <1>1, <1>2 DEF LinksHold, OneAtATime, SeFlying, ExcusedPage
<1>. QED
  BY <1>0, <1>3, <1>5, <1>6, <1>7, <1>8 DEF LinksHold

(* Another manager's link comes after every one that is shown or on its    *)
(* way.                                                                    *)
LEMMA LinksOfOthers ==
    ASSUME LinksHold, NEW p \in SePages, AnotherManager(p)
    PROVE  LinksHold'
<1>1. /\ UNCHANGED <<seShown, seBusy, seReqs>> /\ SettingsTyped /\ Exists(p)
      /\ DOMAIN seLeft' = DOMAIN seLeft /\ seLeft'.excused = seLeft.excused
      /\ DOMAIN seServer' = DOMAIN seServer
  BY DEF AnotherManager, LinksHold, SettingsTyped, Exists
<1>2. /\ DOMAIN seServer'.page = SePages
      /\ \A x \in SePages : Exists(x)' <=> Exists(x)
  BY <1>1 DEF AnotherManager, SettingsTyped, Exists
<1>3. /\ seServer'.token \in [SePages -> Nat] /\ seServer'.other \in [SePages -> Nat]
      /\ \A x \in SePages : \/ /\ seServer'.token[x] = seServer.token[x]
                             /\ seServer'.other[x] = seServer.other[x]
                          \/ /\ seServer'.token[x] \in {seServer.token[x], seServer.token[x] + 1}
                             /\ seServer'.other[x] = seServer'.token[x] /\ Exists(x)
  <2>. DEFINE n == Issued(p)
  <2>1. n \in {seServer.token[p], seServer.token[p] + 1} /\ n \in Nat
    BY <1>1 DEF Issued, SettingsTyped
  <2>. HIDE DEF n
  <2>2. CASE seServer' = [seServer EXCEPT !.token[p] = n, !.other[p] = n]
    <3>1. /\ seServer'.token = [seServer.token EXCEPT ![p] = n]
          /\ seServer'.other = [seServer.other EXCEPT ![p] = n]
      BY <1>1, <2>2 DEF SettingsTyped
    <3>. QED
      BY <1>1, <2>1, <3>1 DEF SettingsTyped
  <2>3. CASE seServer' = [seServer EXCEPT !.page[p] = "revoked"]
    BY <1>1, <2>3 DEF SettingsTyped
  <2>. QED
    BY <2>2, <2>3 DEF AnotherManager, n
<1>4. SettingsTyped'
  BY <1>1, <1>2, <1>3 DEF SettingsTyped
<1>5. \A x \in SePages : /\ OthersIssued(x)'
                        /\ \A n \in Nat : Current(x, n) => Current(x, n)'
  BY <1>1, <1>2, <1>3 DEF LinksHold, OthersIssued, Current, SettingsTyped
<1>6. OneAtATime'
  BY <1>1 DEF LinksHold, OneAtATime, SeFlying, ExcusedPage
<1>7. \A q \in seReqs : PageRequest(q)'
  BY <1>1, <1>2, <1>5 DEF LinksHold, PageRequest, Read, ExcusedPage
<1>8. \A x \in SePages : PageShown(x)'
  BY <1>1, <1>2, <1>5 DEF LinksHold, PageShown, ExcusedPage
<1>. QED
  BY <1>1, <1>4, <1>5, <1>6, <1>7, <1>8 DEF LinksHold

LEMMA MaxOfOne ==
    ASSUME NEW n \in Nat
    PROVE  Max({n} \cup {0}) = n
<1>1. /\ n \in {n} \cup {0}
      /\ \A y \in {n} \cup {0} : n >= y
  OBVIOUS
<1>2. \A x \in {n} \cup {0} : (\A y \in {n} \cup {0} : x >= y) => x = n
  OBVIOUS
<1>. QED
  BY <1>1, <1>2 DEF Max

(* An answer comes in and its request is gone.                             *)
LEMMA LinksEnded ==
    ASSUME LinksHold, NEW q \in seReqs, SettingsTyped', UNCHANGED seServer,
           seReqs' = seReqs \ {q},
           seBusy'.link = seBusy.link \/ q.kind = "link",
           \A p \in SePages : /\ ExcusedPage(p) => ExcusedPage(p)'
                              /\ PageShown(p)' /\ OthersIssued(p)',
           \A r \in seReqs \ {q} : r.kind \in {"link", "create"} => PageRequest(r)'
    PROVE  LinksHold'
<1>1. OneAtATime'
  BY DEF LinksHold, OneAtATime, SeFlying, PageRequest, Current
<1>2. \A r \in seReqs \ {q} : r.kind \notin {"link", "create"} => PageRequest(r)'
  BY DEF LinksHold, PageRequest, Current, Read, Exists
<1>. QED
  BY <1>1, <1>2 DEF LinksHold

LEMMA LinksContinued ==
    ASSUME LinksHold, NEW q \in seReqs, SeContinue(q)
    PROVE  LinksHold'
<1>0. /\ UNCHANGED seServer /\ SettingsTyped /\ PageRequest(q) /\ q.at # "sent"
      /\ \A p \in SePages : Exists(p)' = Exists(p)
  BY DEF SeContinue, LinksHold, Exists
(* Where neither the pages nor their links change, nothing does.           *)
<1>1. ASSUME seReqs' = seReqs \ {q}, SettingsTyped',
             seShown'.pages = seShown.pages, seShown'.urls = seShown.urls,
             UNCHANGED seLeft, seBusy'.link = seBusy.link \/ q.kind = "link"
      PROVE  LinksHold'
  <2>1. \A p \in SePages : ExcusedPage(p)' = ExcusedPage(p) /\ PageShown(p)' /\ OthersIssued(p)'
    BY <1>0, <1>1 DEF LinksHold, PageShown, OthersIssued, Current, ExcusedPage
  <2>2. \A r \in seReqs : r.kind \in {"link", "create"} => PageRequest(r)'
    BY <1>0, <1>1 DEF LinksHold, PageRequest, Current, ExcusedPage
  <2>. QED
    BY <1>0, <1>1, <2>1, <2>2, LinksEnded
<1>2. ASSUME NEW after, NEW busy, SeEnds(q, after, busy), UNCHANGED seLeft,
             DOMAIN after = DOMAIN seShown, DOMAIN busy = DOMAIN seBusy,
             after.pages = seShown.pages, after.urls = seShown.urls,
             busy.link = seBusy.link
      PROVE  LinksHold'
  <2>1. /\ DOMAIN seShown' = DOMAIN seShown
        /\ seShown'.pages = seShown.pages /\ seShown'.urls = seShown.urls
        /\ seBusy' = busy /\ seReqs' = seReqs \ {q}
    BY <1>0, <1>2 DEF SeEnds, SettingsTyped
  <2>2. SettingsTyped'
    BY <1>0, <1>2, <2>1 DEF SettingsTyped
  <2>. QED
    BY <1>1, <1>2, <2>1, <2>2
(* Nor when the request failed.                                            *)
<1>3. ASSUME NEW after, NEW busy, SeEnds(q, after, busy), UNCHANGED seLeft, q.at # "ok",
             DOMAIN busy = DOMAIN seBusy, busy.link = seBusy.link \/ q.kind = "link"
      PROVE  LinksHold'
  <2>1. /\ DOMAIN seShown' = DOMAIN seShown
        /\ seShown'.pages = seShown.pages /\ seShown'.urls = seShown.urls
        /\ seBusy' = busy /\ seReqs' = seReqs \ {q}
    BY <1>0, <1>3 DEF SeEnds, SettingsTyped
  <2>2. SettingsTyped'
    BY <1>0, <1>3, <2>1 DEF SettingsTyped
  <2>. QED
    BY <1>1, <1>3, <2>1, <2>2
<1>4. CASE EndPages(q)
  <2>1. CASE UNCHANGED seLeft /\ SeEnds(q, seShown, seBusy)
    BY <1>2, <2>1
  <2>2. ASSUME NEW got \in q.got, SeEnds(q, [seShown EXCEPT !.pages = got], seBusy),
               seLeft' = [seLeft EXCEPT !.excused =
                            @ \cup {p \in SePages : got[p] = "active" /\
                                      \E c \in SeFlying("create") : c.arg = p}]
        PROVE  LinksHold'
    <3>1. /\ DOMAIN got = SePages
          /\ \A p \in SePages : got[p] # "none" => Exists(p)
      BY <1>0, <1>4, <2>2 DEF EndPages, PageRequest, Current, Read
    <3>2. /\ DOMAIN seShown' = DOMAIN seShown
          /\ seShown'.pages = got \/ seShown'.pages = seShown.pages
          /\ seShown'.urls = seShown.urls
          /\ seBusy' = seBusy /\ seReqs' = seReqs \ {q}
      BY <1>0, <1>4, <2>2 DEF SeEnds, SettingsTyped
    <3>3. /\ DOMAIN seLeft' = DOMAIN seLeft
          /\ \A p \in SePages :
               /\ ExcusedPage(p) => ExcusedPage(p)'
               /\ got[p] = "active" /\ (\E c \in SeFlying("create") : c.arg = p)
                    => ExcusedPage(p)'
      BY <1>0, <2>2 DEF ExcusedPage, SettingsTyped
    <3>4. SettingsTyped'
      BY <1>0, <3>1, <3>2, <3>3 DEF SettingsTyped
    <3>5. \A p \in SePages : PageShown(p)' /\ OthersIssued(p)'
      BY <1>0, <3>1, <3>2, <3>3 DEF LinksHold, PageShown, OthersIssued, Current
    <3>6. \A r \in seReqs : r.kind \in {"link", "create"} => PageRequest(r)'
      BY <1>0, <3>2, <3>3 DEF LinksHold, PageRequest, Current, SeFlying
    <3>. QED
      BY <1>0, <3>2, <3>3, <3>4, <3>5, <3>6, LinksEnded
  <2>. QED
    BY <1>4, <2>1, <2>2 DEF EndPages
<1>5. CASE EndCreatePage(q) /\ UNCHANGED seLeft
  <2>. DEFINE after == [seShown EXCEPT !.pages[q.arg] = "active", !.urls[q.arg] = 1,
                                       !.public = <<q.arg, 1>>]
              busy == [seBusy EXCEPT !.saving = FALSE]
  <2>0. q.kind = "create" /\ SeEnds(q, after, busy)
    BY <1>5 DEF EndCreatePage
  <2>1. DOMAIN busy = DOMAIN seBusy /\ busy.link = seBusy.link
    BY <1>0 DEF SettingsTyped
  <2>2. CASE q.at # "ok"
    BY <1>3, <1>5, <2>0, <2>1, <2>2
  <2>3. CASE q.at = "ok"
    <3>1. /\ q.arg \in SePages /\ Exists(q.arg)
          /\ ExcusedPage(q.arg) \/ Current(q.arg, 1)
      BY <1>0, <2>0, <2>3 DEF PageRequest, Current
    <3>2. /\ DOMAIN after = DOMAIN seShown
          /\ DOMAIN after.pages = SePages /\ DOMAIN after.urls = SePages
          /\ after.urls[q.arg] = 1
          /\ \A p \in SePages : p # q.arg => /\ after.pages[p] = seShown.pages[p]
                                             /\ after.urls[p] = seShown.urls[p]
      BY <1>0, <3>1 DEF SettingsTyped
    <3>. HIDE DEF after, busy
    <3>3. seShown' = after /\ seBusy' = busy /\ seReqs' = seReqs \ {q}
      BY <2>0, <2>3 DEF SeEnds
    <3>4. SettingsTyped'
      BY <1>0, <1>5, <2>1, <3>2, <3>3 DEF SettingsTyped
    <3>5. \A p \in SePages : ExcusedPage(p)' = ExcusedPage(p) /\ PageShown(p)' /\ OthersIssued(p)'
      BY <1>0, <1>5, <3>1, <3>2, <3>3 DEF LinksHold, PageShown, OthersIssued, Current, ExcusedPage
    <3>6. ASSUME NEW r \in seReqs \ {q}, r.kind \in {"link", "create"}
          PROVE  PageRequest(r)'
      <4>1. r.kind = "link" /\ (r.arg = q.arg => ExcusedPage(r.arg)) /\ PageRequest(r)
        BY <2>0, <3>6 DEF LinksHold, OneAtATime, SeFlying
      <4>. QED
        BY <1>0, <1>5, <3>2, <3>3, <4>1 DEF PageRequest, Current, ExcusedPage
    <3>. QED
      BY <1>0, <2>1, <3>3, <3>4, <3>5, <3>6, LinksEnded
  <2>. QED
    BY <2>2, <2>3
<1>6. CASE EndRevoke(q) /\ UNCHANGED seLeft
  <2>. DEFINE after == [seShown EXCEPT !.pages[q.arg] = "revoked", !.urls[q.arg] = 0]
              busy == [seBusy EXCEPT !.revoke = NoPage]
  <2>0. q.kind = "revoke" /\ SeEnds(q, after, busy)
    BY <1>6 DEF EndRevoke
  <2>1. DOMAIN busy = DOMAIN seBusy /\ busy.link = seBusy.link
    BY <1>0 DEF SettingsTyped
  <2>2. CASE q.at # "ok"
    BY <1>3, <1>6, <2>0, <2>1, <2>2
  <2>3. CASE q.at = "ok"
    <3>1. q.arg \in SePages /\ Exists(q.arg)
      BY <1>0, <2>0 DEF PageRequest, Current
    <3>2. /\ DOMAIN after = DOMAIN seShown
          /\ DOMAIN after.pages = SePages /\ DOMAIN after.urls = SePages
          /\ after.urls[q.arg] = 0 /\ after.pages[q.arg] = "revoked"
          /\ \A p \in SePages : p # q.arg => /\ after.pages[p] = seShown.pages[p]
                                             /\ after.urls[p] = seShown.urls[p]
      BY <1>0, <3>1 DEF SettingsTyped
    <3>. HIDE DEF after, busy
    <3>3. seShown' = after /\ seBusy' = busy /\ seReqs' = seReqs \ {q}
      BY <2>0, <2>3 DEF SeEnds
    <3>4. SettingsTyped'
      BY <1>0, <1>6, <2>1, <3>2, <3>3 DEF SettingsTyped
    <3>5. \A p \in SePages : ExcusedPage(p)' = ExcusedPage(p) /\ PageShown(p)' /\ OthersIssued(p)'
      BY <1>0, <1>6, <3>1, <3>2, <3>3 DEF LinksHold, PageShown, OthersIssued, Current, ExcusedPage
    <3>6. \A r \in seReqs : r.kind \in {"link", "create"} => PageRequest(r)'
      BY <1>0, <1>6, <3>2, <3>3 DEF LinksHold, PageRequest, Current, ExcusedPage
    <3>. QED
      BY <1>0, <2>1, <3>3, <3>4, <3>5, <3>6, LinksEnded
  <2>. QED
    BY <2>2, <2>3
<1>7. CASE EndLink(q) /\ UNCHANGED seLeft
  <2>. DEFINE n == Max(q.got \cup {0})
              after == [seShown EXCEPT !.urls[q.arg] = n, !.public = <<q.arg, n>>]
              busy == [seBusy EXCEPT !.link = NoPage]
  <2>0. q.kind = "link" /\ SeEnds(q, after, busy)
    BY <1>7 DEF EndLink
  <2>1. DOMAIN busy = DOMAIN seBusy
    BY <1>0 DEF SettingsTyped
  <2>2. CASE q.at # "ok"
    BY <1>3, <1>7, <2>0, <2>1, <2>2
  <2>3. CASE q.at = "ok"
    <3>1. q.arg \in SePages /\ Exists(q.arg)
      BY <1>0, <2>0, <2>3 DEF PageRequest
    <3>2. n \in Nat /\ Current(q.arg, n)
      <4>1. PICK m \in Nat : q.got = {m} /\ Current(q.arg, m)
        BY <1>0, <2>0, <2>3 DEF PageRequest
      <4>. QED
        BY <4>1, MaxOfOne
    <3>. HIDE DEF n
    <3>3. /\ DOMAIN after = DOMAIN seShown
          /\ after.pages = seShown.pages /\ DOMAIN after.urls = SePages
          /\ after.urls[q.arg] = n
          /\ \A p \in SePages : p # q.arg => after.urls[p] = seShown.urls[p]
      BY <1>0, <3>1 DEF SettingsTyped
    <3>. HIDE DEF after, busy
    <3>4. seShown' = after /\ seBusy' = busy /\ seReqs' = seReqs \ {q}
      BY <2>0, <2>3 DEF SeEnds
    <3>5. SettingsTyped'
      BY <1>0, <1>7, <2>1, <3>3, <3>4 DEF SettingsTyped
    <3>6. \A p \in SePages : ExcusedPage(p)' = ExcusedPage(p) /\ PageShown(p)' /\ OthersIssued(p)'
      BY <1>0, <1>7, <3>1, <3>2, <3>3, <3>4 DEF LinksHold, PageShown, OthersIssued, Current, ExcusedPage
    <3>7. ASSUME NEW r \in seReqs \ {q}, r.kind \in {"link", "create"}
          PROVE  PageRequest(r)'
      <4>1. r.kind = "create" /\ PageRequest(r)
        BY <2>0, <3>7 DEF LinksHold, OneAtATime, SeFlying
      <4>. QED
        BY <1>0, <1>7, <3>3, <3>4, <4>1 DEF PageRequest, Current, ExcusedPage
    <3>. QED
      BY <1>0, <2>0, <3>4, <3>5, <3>6, <3>7, LinksEnded
  <2>. QED
    BY <2>2, <2>3
<1>8. CASE (EndViewers(q) \/ EndRole(q)) /\ UNCHANGED seLeft
  <2>1. \E after, busy : /\ SeEnds(q, after, busy)
                         /\ DOMAIN after = DOMAIN seShown /\ DOMAIN busy = DOMAIN seBusy
                         /\ after.pages = seShown.pages /\ after.urls = seShown.urls
                         /\ busy.link = seBusy.link
    <3>1. CASE EndViewers(q)
      <4>1. CASE q.kind = "viewers" /\ SeEnds(q, [seShown EXCEPT !.viewers = UNION q.got], seBusy)
        BY <1>0, <4>1 DEF SettingsTyped
      <4>2. CASE SeEnds(q, [seShown EXCEPT !.viewers = @ \cup {q.arg[2]}],
                        [seBusy EXCEPT !.viewer = FALSE])
        BY <1>0, <4>2 DEF SettingsTyped
      <4>3. CASE SeEnds(q, [seShown EXCEPT !.viewers = @ \ {q.arg[2]}], seBusy)
        BY <1>0, <4>3 DEF SettingsTyped
      <4>. QED
        BY <3>1, <4>1, <4>2, <4>3 DEF EndViewers
    <3>2. CASE EndRole(q)
      <4>1. CASE SeEnds(q, seShown, seBusy)
        BY <4>1
      <4>2. ASSUME NEW got, SeEnds(q, [seShown EXCEPT !.role = got.role,
                                                      !.invited = got.invited], seBusy)
            PROVE  \E after, busy : /\ SeEnds(q, after, busy)
                         /\ DOMAIN after = DOMAIN seShown /\ DOMAIN busy = DOMAIN seBusy
                         /\ after.pages = seShown.pages /\ after.urls = seShown.urls
                         /\ busy.link = seBusy.link
        BY <1>0, <4>2 DEF SettingsTyped
      <4>3. CASE SeEnds(q, [seShown EXCEPT !.role[q.arg[1]] = q.arg[2]], seBusy)
        BY <1>0, <4>3 DEF SettingsTyped
      <4>4. CASE SeEnds(q, [seShown EXCEPT !.invited = @ \cup {q.arg}], seBusy)
        BY <1>0, <4>4 DEF SettingsTyped
      <4>. QED
        BY <3>2, <4>1, <4>2, <4>3, <4>4 DEF EndRole
    <3>. QED
      BY <1>8, <3>1, <3>2
  <2>. QED
    BY <1>2, <1>8, <2>1
<1>9. CASE EndPosition(q) /\ UNCHANGED seLeft
  <2>1. /\ DOMAIN seShown' = DOMAIN seShown /\ UNCHANGED seBusy
        /\ seShown'.pages = seShown.pages /\ seShown'.urls = seShown.urls
    BY <1>0, <1>9 DEF EndPosition, SettingsTyped
  <2>2. \A r \in seReqs' : \/ r \in seReqs
                           \/ r.kind = "position" /\ DOMAIN r = RequestFields
    <3>1. CASE seReqs' = seReqs \ {q}
      BY <3>1
    <3>2. CASE seReqs' = {IF r.kind = "position" /\ r.was = q.was
                          THEN [r EXCEPT !.was = {}] ELSE r : r \in seReqs \ {q}}
      <4>1. \A r \in seReqs : /\ DOMAIN [r EXCEPT !.was = {}] = RequestFields
                              /\ [r EXCEPT !.was = {}].kind = r.kind
        BY <1>0 DEF SettingsTyped, RequestFields
      <4>2. ASSUME NEW s \in seReqs'
            PROVE  \/ s \in seReqs
                   \/ \E r \in seReqs : r.kind = "position" /\ s = [r EXCEPT !.was = {}]
        BY <3>2
      <4>. QED
        BY <4>1, <4>2
    <3>. QED
      BY <1>9, <3>1, <3>2 DEF EndPosition
  <2>3. SettingsTyped'
    BY <1>0, <1>9, <2>1, <2>2 DEF SettingsTyped
  <2>. QED
    BY <1>0, <1>9, <2>1, <2>2, <2>3, LinksKept DEF PageRequest, Current
<1>. QED
  BY <1>4, <1>5, <1>6, <1>7, <1>8, <1>9 DEF SeContinue

(* The server keeps only the hash of a token and every new link ends the   *)
(* earlier one (CustomerPageControls, generatePageLink): however creating, *)
(* issuing, revoking, reloading, lost answers and other managers interleave,*)
(* a link that is shown opens its page, if the server still serves it and  *)
(* no other client has issued a later one.                                 *)
THEOREM ShownLinksOpen == SeSpec => []ListedLinksOpen
<1>1. SeInit => LinksHold
  <2>. SUFFICES ASSUME SeInit
                PROVE  LinksHold
    OBVIOUS
  <2>1. \A q \in seReqs : q.kind \in {"pages", "roles"} /\ q.got = {} /\ DOMAIN q = RequestFields
    BY DEF SeInit, SeMount, SeReq, RequestFields
  <2>2. {"login", "kinds", "starts", "others", "faults", "excused"} \subseteq DOMAIN seLeft
    BY SettingsAssumption DEF SeInit, SettingsAssumption
  <2>3. SettingsTyped
    BY <2>1, <2>2 DEF SeInit, SettingsTyped
  <2>4. OneAtATime
    BY <2>1 DEF OneAtATime, SeFlying
  <2>5. \A q \in seReqs : PageRequest(q)
    BY <2>1 DEF PageRequest, Current, Read
  <2>6. \A p \in SePages : PageShown(p) /\ OthersIssued(p)
    BY DEF SeInit, PageShown, OthersIssued, Current
  <2>. QED
    BY <2>3, <2>4, <2>5, <2>6 DEF LinksHold
<1>2. LinksHold /\ [SeNext]_seVars => LinksHold'
  <2>. SUFFICES ASSUME LinksHold, [SeNext]_seVars
                PROVE  LinksHold'
    OBVIOUS
  <2>1. CASE UNCHANGED seVars
    <3>1. UNCHANGED <<seServer, seShown, seBusy, seReqs, seLeft>>
      BY <2>1 DEF seVars
    <3>2. SettingsTyped'
      BY <3>1 DEF LinksHold, SettingsTyped
    <3>. QED
      BY <3>1, <3>2, LinksKept
  <2>. QED
    BY <2>1, LinksUser, LinksServed, LinksOfOthers, LinksLost, LinksContinued DEF SeNext
<1>3. LinksHold => ListedLinksOpen
  BY DEF LinksHold, PageShown, OthersIssued, Current, ListedLinksOpen, ActivePages, ExcusedPage
<1>. QED
  BY <1>1, <1>2, <1>3, PTL DEF SeSpec

-----------------------------------------------------------------------------
(* RequestInbox                                                            *)
(*                                                                         *)
(* ConvertedOnce is inductive once two things are known of every request   *)
(* under way (Sound): it concerns a row that exists, and the key it brings *)
(* is one.  The keys come from rows the tab was answered, so the tab's     *)
(* rows are part of the argument.                                          *)

IbSpec == IbInit /\ [][IbNext]_ibVars

Named(rows) == \A row \in rows : "id" \in DOMAIN row /\ row.id \in IbRequests

SoundReq(q) ==
    /\ {"by", "kind", "id", "body", "at", "row"} \subseteq DOMAIN q
    /\ Named(q.row)
    /\ q.kind # "load" => q.id \in IbRequests
    /\ q.kind = "convert" => q.body # NoKey
    /\ q.kind \in {"save", "convert"} /\ q.at = "answered" => q.row # {}

TypedServer ==
    /\ DOMAIN ibServer = {"rows", "made"}
    /\ DOMAIN ibServer.rows = IbRequests /\ DOMAIN ibServer.made = IbRequests
    /\ \A r \in IbRequests : /\ DOMAIN ibServer.rows[r] = {"id", "status", "notes", "into"}
                             /\ ibServer.rows[r].id = r

TypedTab ==
    /\ DOMAIN ibTab = {"at", "list", "selected", "filter", "form", "loading", "saving", "error"}
    /\ Named(ibTab.list) /\ Named(ibTab.selected)

SoundReqs == \A q \in ibReqs : SoundReq(q)

Sound == TypedTab /\ TypedServer /\ SoundReqs

InboxInv == Sound /\ ConvertedOnce

-----------------------------------------------------------------------------
LEMMA NewRequestSound ==
    ASSUME NEW by, NEW kind, NEW id, NEW body, kind # "load" => id \in IbRequests,
           kind = "convert" => body # NoKey
    PROVE  SoundReq(IbReq(by, kind, id, body))
BY DEF SoundReq, IbReq, Named

LEMMA AnswerSound ==
    ASSUME SoundReqs, NEW q \in ibReqs, NEW at, NEW rows, Answer(q, at, rows), Named(rows),
           q.kind \in {"save", "convert"} /\ at = "answered" => rows # {}
    PROVE  SoundReqs'
<1>. DEFINE new == [q EXCEPT !.at = at, !.row = rows]
<1>1. SoundReq(q)
  BY DEF SoundReqs
<1>2. /\ DOMAIN new = DOMAIN q /\ new.row = rows /\ new.at = at
      /\ new.kind = q.kind /\ new.id = q.id /\ new.body = q.body
  BY <1>1 DEF SoundReq
<1>3. SoundReq(new)
  <2>. HIDE DEF new
  <2>. QED
    BY <1>1, <1>2 DEF SoundReq
<1>4. \A p \in ibReqs' : p \in ibReqs \/ p = new
  BY DEF Answer
<1>. HIDE DEF new
<1>. QED
  BY <1>3, <1>4 DEF SoundReqs

(* The manager's steps change the tab and add requests about its rows. *)
LEMMA ManagerSound ==
    ASSUME Sound, IbManager
    PROVE  Sound' /\ UNCHANGED ibServer
<1>. USE DEF Sound
<1>1. ASSUME ibServer' = ibServer, SoundReqs', TypedTab'
      PROVE  Sound' /\ UNCHANGED ibServer
  BY <1>1 DEF TypedServer
<1>2. CASE IbLoad
  <2>1. TypedTab' /\ ibServer' = ibServer
    BY <1>2 DEF IbLoad, TypedTab, Named
  <2>2. PICK nth : ibReqs' = ibReqs \cup {IbReq("tab", "load", nth, {})}
    BY <1>2 DEF IbLoad
  <2>3. SoundReq(IbReq("tab", "load", nth, {}))
    BY NewRequestSound
  <2>. QED
    BY <1>1, <2>1, <2>2, <2>3 DEF SoundReqs
<1>3. ASSUME NEW statuses, IbFilter(statuses)
      PROVE  Sound' /\ UNCHANGED ibServer
  BY <1>1, <1>3 DEF IbFilter, SoundReqs, TypedTab, Named
<1>4. ASSUME NEW row \in ibTab.list, SelectRequest(row)
      PROVE  Sound' /\ UNCHANGED ibServer
  BY <1>1, <1>4 DEF SelectRequest, SoundReqs, TypedTab, Named
<1>5. ASSUME NEW form, EditRequest(form)
      PROVE  Sound' /\ UNCHANGED ibServer
  BY <1>1, <1>5 DEF EditRequest, SoundReqs, TypedTab, Named
<1>6. CASE CloseSheet
  BY <1>1, <1>6 DEF CloseSheet, SoundReqs, TypedTab, Named
<1>7. ASSUME NEW row \in ibTab.selected, SaveRequest(row) \/ ConvertRequest(row)
      PROVE  Sound' /\ UNCHANGED ibServer
  <2>0. PICK kind \in {"save", "convert"} :
          \E body : /\ IbSend(kind, row, body)
                    /\ kind = "convert" => body = IbTitleKey[row.id]
    BY <1>7 DEF SaveRequest, ConvertRequest
  <2>1. PICK body : /\ IbSend(kind, row, body)
                    /\ kind = "convert" => body = IbTitleKey[row.id]
    BY <2>0
  <2>2. row.id \in IbRequests
    BY DEF TypedTab, Named
  <2>3. TypedTab' /\ ibServer' = ibServer
        /\ ibReqs' = ibReqs \cup {IbReq("tab", kind, row.id, body)}
    BY <2>1 DEF IbSend, TypedTab, Named
  <2>4. SoundReq(IbReq("tab", kind, row.id, body))
    BY <2>1, <2>2, NewRequestSound, KeysAreKeys
  <2>. QED
    BY <1>1, <2>3, <2>4 DEF SoundReqs
<1>. QED
  BY <1>2, <1>3, <1>4, <1>5, <1>6, <1>7 DEF IbManager

LEMMA OtherClientSound ==
    ASSUME Sound, NEW kind \in {"save", "convert"}, NEW r \in IbRequests, NEW body,
           kind = "convert" => body # NoKey, OtherClient(kind, r, body)
    PROVE  Sound' /\ UNCHANGED ibServer
<1>1. SoundReq(IbReq("other", kind, r, body))
  BY NewRequestSound
<1>. QED
  BY <1>1 DEF OtherClient, Sound, SoundReqs, TypedTab, TypedServer

(* The continuations put the rows of an answer in the tab. *)
LEMMA ContinueSound ==
    ASSUME Sound, NEW q \in ibReqs, IbContinue(q)
    PROVE  Sound' /\ UNCHANGED ibServer
<1>. USE DEF Sound
<1>1. SoundReq(q) /\ SoundReqs' /\ ibServer' = ibServer
  BY DEF IbContinue, SoundReqs
<1>2. CASE UNCHANGED ibTab
  BY <1>1, <1>2 DEF TypedServer, TypedTab
<1>3. ASSUME EndLoad(q)
      PROVE  TypedTab'
  BY <1>1, <1>3 DEF EndLoad, TypedTab, SoundReq, Named
<1>4. ASSUME EndSave(q) \/ EndConvert(q)
      PROVE  TypedTab'
  <2>1. CASE q.at = "answered"
    <3>1. Named(RowSaved(q))
      <4>1. PICK new \in q.row : new = CHOOSE row \in q.row : TRUE
        BY <1>1, <1>4, <2>1 DEF EndSave, EndConvert, SoundReq
      <4>. QED
        BY <1>1, <4>1 DEF RowSaved, Named, TypedTab, SoundReq
    <3>2. ibTab'.list = RowSaved(q) /\ ibTab'.selected = q.row /\ DOMAIN ibTab' = DOMAIN ibTab
      BY <1>4, <2>1 DEF EndSave, EndConvert, TypedTab
    <3>. QED
      BY <1>1, <3>1, <3>2 DEF TypedTab, SoundReq
  <2>2. CASE q.at # "answered"
    BY <1>4, <2>2 DEF EndSave, EndConvert, TypedTab, Named
  <2>. QED
    BY <2>1, <2>2
<1>. QED
  BY <1>1, <1>2, <1>3, <1>4 DEF IbContinue, TypedServer

(* The transaction of a conversion names the project that it makes in a    *)
(* row that named none.                                                    *)
LEMMA CommitConvertsOnce ==
    ASSUME InboxInv, NEW q \in ibReqs, CommitConvert(q)
    PROVE  SoundReqs' /\ TypedServer' /\ ConvertedOnce'
<1>. USE DEF InboxInv, Sound
<1>1. SoundReq(q) /\ q.id \in IbRequests /\ q.body # NoKey
  BY DEF CommitConvert, SoundReqs, SoundReq
<1>2. CASE q.body \in UsedKeys \/ ibServer.rows[q.id].into # NoKey
  <2>1. Answer(q, "failed", {}) /\ ibServer' = ibServer
    BY <1>2 DEF CommitConvert
  <2>2. SoundReqs'
    BY <2>1, AnswerSound DEF Named
  <2>. QED
    BY <2>1, <2>2 DEF TypedServer, ConvertedOnce
<1>3. CASE ~(q.body \in UsedKeys \/ ibServer.rows[q.id].into # NoKey)
  <2>1. ibServer' = [ibServer EXCEPT !.made[q.id] = @ \cup {q.body},
                                     !.rows[q.id].status = "converted",
                                     !.rows[q.id].into = q.body]
    BY <1>3 DEF CommitConvert
  <2>2. PICK row \in q.row : Answer(q, "answered", {[row EXCEPT !.status = "converted",
                                                                !.into = q.body]})
    BY <1>3 DEF CommitConvert
  <2>0. TypedServer'
    BY <1>1, <2>1 DEF TypedServer
  <2>3. \A r \in IbRequests :
          /\ ibServer'.made[r] = IF r = q.id THEN ibServer.made[r] \cup {q.body}
                                 ELSE ibServer.made[r]
          /\ ibServer'.rows[r].into = IF r = q.id THEN q.body ELSE ibServer.rows[r].into
    BY <1>1, <2>1 DEF TypedServer
  <2>4. ConvertedOnce'
    BY <1>1, <1>3, <2>3 DEF ConvertedOnce
  <2>5. Named({[row EXCEPT !.status = "converted", !.into = q.body]})
    BY <1>1 DEF Named, SoundReq
  <2>6. SoundReqs'
    BY <2>2, <2>5, AnswerSound
  <2>. QED
    BY <2>0, <2>4, <2>6
<1>. QED
  BY <1>2, <1>3

LEMMA ServeSound ==
    ASSUME InboxInv, NEW q \in ibReqs, IbServe(q)
    PROVE  InboxInv'
<1>. USE DEF InboxInv, Sound
<1>1. TypedTab'
  BY DEF IbServe, TypedTab
<1>2. CASE ServeRequests(q)
  <2>1. Named({ibServer.rows[r] : r \in IbRequests})
    BY DEF TypedServer, Named
  <2>2. SoundReqs' /\ ibServer' = ibServer
    BY <1>2, <2>1, AnswerSound DEF ServeRequests
  <2>. QED
    BY <1>1, <2>2 DEF TypedServer, ConvertedOnce
<1>3. CASE ServeSave(q)
  <2>. DEFINE row == [ibServer.rows[q.id] EXCEPT !.status = q.body.status,
                                                 !.notes = q.body.notes]
  <2>1. q.id \in IbRequests
    BY <1>3 DEF ServeSave, SoundReqs, SoundReq
  <2>2. ibServer' = [ibServer EXCEPT !.rows[q.id] = row] /\ Answer(q, "answered", {row})
    BY <1>3 DEF ServeSave
  <2>3. /\ row.id = q.id /\ row.into = ibServer.rows[q.id].into
        /\ DOMAIN row = {"id", "status", "notes", "into"}
    BY <2>1 DEF TypedServer
  <2>. HIDE DEF row
  <2>4. SoundReqs'
    BY <2>1, <2>2, <2>3, AnswerSound DEF Named
  <2>5. /\ DOMAIN ibServer' = DOMAIN ibServer /\ ibServer'.made = ibServer.made
        /\ ibServer'.rows = [ibServer.rows EXCEPT ![q.id] = row]
    BY <2>2 DEF TypedServer
  <2>6. TypedServer'
    BY <2>1, <2>3, <2>5 DEF TypedServer
  <2>7. ConvertedOnce'
    BY <2>1, <2>3, <2>5 DEF TypedServer, ConvertedOnce
  <2>. QED
    BY <1>1, <2>4, <2>6, <2>7
<1>4. CASE CheckConvert(q)
  <2>1. q.id \in IbRequests
    BY <1>4 DEF CheckConvert, SoundReqs, SoundReq
  <2>2. /\ Answer(q, "failed", {}) \/ Answer(q, "checked", {ibServer.rows[q.id]})
        /\ ibServer' = ibServer
    BY <1>4 DEF CheckConvert
  <2>3. SoundReqs'
    BY <2>1, <2>2, AnswerSound DEF Named, TypedServer
  <2>. QED
    BY <1>1, <2>2, <2>3 DEF TypedServer, ConvertedOnce
<1>5. CASE CommitConvert(q)
  BY <1>1, <1>5, CommitConvertsOnce
<1>. QED
  BY <1>2, <1>3, <1>4, <1>5 DEF IbServe

(* "project request has already been converted" (features.go 494): clients *)
(* that convert a request at once, and saves that set its status back in   *)
(* between, lead to one project at most, the one its row names.            *)
THEOREM RequestsConvertOnce == IbSpec => []ConvertedOnce
<1>1. IbInit => InboxInv
  <2>. SUFFICES ASSUME IbInit
                PROVE  InboxInv
    OBVIOUS
  <2>1. SoundReqs
    BY NewRequestSound DEF IbInit, SoundReqs
  <2>2. TypedServer /\ ConvertedOnce
    BY DEF IbInit, TypedServer, ConvertedOnce
  <2>3. TypedTab
    BY DEF IbInit, TypedTab, Named
  <2>. QED
    BY <2>1, <2>2, <2>3 DEF InboxInv, Sound
<1>2. InboxInv /\ [IbNext]_ibVars => InboxInv'
  <2>. SUFFICES ASSUME InboxInv, [IbNext]_ibVars
                PROVE  InboxInv'
    OBVIOUS
  <2>. USE DEF InboxInv
  <2>1. ASSUME Sound' /\ UNCHANGED ibServer
        PROVE  InboxInv'
    BY <2>1 DEF ConvertedOnce
  <2>2. CASE UNCHANGED ibVars
    BY <2>1, <2>2 DEF ibVars, Sound, SoundReqs, TypedServer, TypedTab
  <2>3. CASE IbManager
    BY <2>1, <2>3, ManagerSound
  <2>4. ASSUME NEW r \in IbRequests, NEW form, OtherClient("save", r, form)
        PROVE  InboxInv'
    BY <2>1, <2>4, OtherClientSound
  <2>5. ASSUME NEW r \in IbRequests, NEW key \in {IbTitleKey[r], IbOtherKey},
               OtherClient("convert", r, key)
        PROVE  InboxInv'
    BY <2>1, <2>5, OtherClientSound, KeysAreKeys
  <2>6. ASSUME NEW q \in ibReqs, IbServe(q)
        PROVE  InboxInv'
    BY <2>6, ServeSound
  <2>7. ASSUME NEW q \in ibReqs, IbLose(q)
        PROVE  InboxInv'
    <3>1. \E at : at # "answered" /\ Answer(q, at, {})
      BY <2>7 DEF IbLose
    <3>2. SoundReqs' /\ ibServer' = ibServer /\ ibTab' = ibTab
      BY <2>7, <3>1, AnswerSound DEF IbLose, Named, Sound
    <3>. QED
      BY <2>1, <3>2 DEF Sound, TypedServer, TypedTab
  <2>8. ASSUME NEW q \in ibReqs, IbContinue(q)
        PROVE  InboxInv'
    BY <2>1, <2>8, ContinueSound
  <2>. QED
    BY <2>2, <2>3, <2>4, <2>5, <2>6, <2>7, <2>8 DEF IbNext
<1>. QED
  BY <1>1, <1>2, PTL DEF IbSpec, InboxInv

-----------------------------------------------------------------------------
(* PlatformAdmin                                                           *)
(*                                                                         *)
(* A request is authorized before the lock and may commit after its sender *)
(* has lost the right; what counts is that the count of administrators is  *)
(* taken under the same lock as the change.                                *)

PaSpec == PaInit /\ [][PaNext]_paVars

Asked(q) == "id" \in DOMAIN q /\ "body" \in DOMAIN q /\ q.id \in PaUsers /\ q.body \in BOOLEAN

(* The rows the checks read, and the requests that lead to them. *)
PersonRows ==
    /\ paServer \in [flag : [PaUsers -> BOOLEAN], suspended : [PaUsers -> BOOLEAN],
                     sessions : [PaUsers -> Nat], login : BOOLEAN, signup : BOOLEAN,
                     active : BOOLEAN]
    /\ \A q \in paReqs : Asked(q)

AdminInv == PersonRows /\ LastAdminStands

LEMMA NewRequestAsked ==
    ASSUME NEW by, NEW kind, NEW u \in PaUsers, NEW body \in BOOLEAN
    PROVE  Asked(PaReq(by, kind, u, body))
BY DEF PaReq, Asked

(* What a request asks for does not change while it is answered. *)
LEMMA AnswerKeepsRequest ==
    ASSUME PersonRows, NEW q \in paReqs, NEW at, NEW got, PaAnswer(q, at, got)
    PROVE  \A p \in paReqs' : Asked(p)
BY DEF PaAnswer, PersonRows, Asked

(* A change of a user that updatePlatformUser lets pass leaves an active   *)
(* administrator: the user, somebody who is not concerned, or one of the   *)
(* others that were counted.                                               *)
LEMMA CommitLeavesOne ==
    ASSUME AdminInv, NEW q \in paReqs, CommitUser(q)
    PROVE  AdminInv'
<1>. USE DEF AdminInv
<1>1. CASE UserRefused(q)
  <2>1. PaAnswer(q, "failed", {}) /\ UNCHANGED paServer
    BY <1>1 DEF CommitUser
  <2>. QED
    BY <2>1, AnswerKeepsRequest DEF PersonRows, LastAdminStands, ActiveAdmins, IsPlatformAdmin
<1>2. CASE ~UserRefused(q)
  <2>. DEFINE got == [admin |-> FlagAfter(q) \/ q.id \in PaConfigured,
                      suspended |-> SuspendedAfter(q)]
  <2>1. PaAnswer(q, "answered", {got})
    BY <1>2 DEF CommitUser
  <2>2. paServer' = [paServer EXCEPT
              !.flag[q.id] = FlagAfter(q), !.suspended[q.id] = SuspendedAfter(q),
              !.sessions[q.id] = IF q.kind = "suspended" /\ q.body THEN 0 ELSE @]
    BY <1>2 DEF CommitUser
  <2>. HIDE DEF got
  <2>3. FlagAfter(q) \in BOOLEAN /\ SuspendedAfter(q) \in BOOLEAN /\ q.id \in PaUsers
    BY DEF PersonRows, Asked, FlagAfter, SuspendedAfter
  <2>4. /\ paServer'.flag = [paServer.flag EXCEPT ![q.id] = FlagAfter(q)]
        /\ paServer'.suspended = [paServer.suspended EXCEPT ![q.id] = SuspendedAfter(q)]
        /\ paServer' \in [flag : [PaUsers -> BOOLEAN], suspended : [PaUsers -> BOOLEAN],
                          sessions : [PaUsers -> Nat], login : BOOLEAN, signup : BOOLEAN,
                          active : BOOLEAN]
    BY <2>2, <2>3 DEF PersonRows
  <2>5. PersonRows'
    BY <2>1, <2>4, AnswerKeepsRequest DEF PersonRows
  <2>6. \A u \in ActiveAdmins : u # q.id => u \in ActiveAdmins'
    BY <2>3, <2>4 DEF ActiveAdmins, IsPlatformAdmin, PersonRows
  <2>7. CASE ~IsPlatformAdmin(q.id)
    BY <2>5, <2>6, <2>7 DEF LastAdminStands, ActiveAdmins
  <2>8. CASE IsPlatformAdmin(q.id) /\ FlagAfter(q) /\ ~SuspendedAfter(q)
    <3>1. q.id \in ActiveAdmins'
      BY <2>3, <2>4, <2>8 DEF ActiveAdmins, IsPlatformAdmin, PersonRows
    <3>. QED
      BY <2>5, <3>1 DEF LastAdminStands
  <2>9. CASE IsPlatformAdmin(q.id) /\ (~FlagAfter(q) \/ SuspendedAfter(q))
    <3>1. ~(Cardinality(ActiveAdmins) <= 1)
      BY <1>2, <2>9 DEF UserRefused
    <3>2. PICK u \in ActiveAdmins : u # q.id
      <4>1. ASSUME \A u \in ActiveAdmins : u = q.id
            PROVE  ActiveAdmins = {q.id}
        BY <4>1 DEF LastAdminStands
      <4>2. Cardinality({q.id}) = 1
        BY FS_Singleton
      <4>3. ActiveAdmins # {q.id}
        BY <3>1, <4>2
      <4>. QED
        BY <4>1, <4>3
    <3>. QED
      BY <2>5, <2>6, <3>2 DEF LastAdminStands
  <2>. QED
    BY <2>7, <2>8, <2>9
<1>. QED
  BY <1>1, <1>2

(* "at least one active platform administrator is required"               *)
(* (platform_admin.go 258): whatever requests administrators send about    *)
(* each other and in whatever order they commit, one remains.              *)
THEOREM AdministratorRemains == PaSpec => []LastAdminStands
<1>1. PaInit => AdminInv
  <2>. SUFFICES ASSUME PaInit
                PROVE  AdminInv
    OBVIOUS
  <2>1. paServer.flag = [u \in PaUsers |-> u \in paLeft.admins]
        /\ paServer.suspended = [u \in PaUsers |-> u \in paLeft.suspended]
    BY DEF PaInit
  <2>2. PICK u \in ((paLeft.admins \cap PaUsers) \cup PaConfigured) : u \notin paLeft.suspended
    BY Governed DEF PaInit
  <2>3. u \in ActiveAdmins
    BY <2>1, <2>2, SelfIsUser DEF ActiveAdmins, IsPlatformAdmin
  <2>4. PersonRows
    BY SelfIsUser DEF PaInit, PaReq, PersonRows, Asked
  <2>. QED
    BY <2>3, <2>4 DEF AdminInv, LastAdminStands
<1>2. AdminInv /\ [PaNext]_paVars => AdminInv'
  <2>. SUFFICES ASSUME AdminInv, [PaNext]_paVars
                PROVE  AdminInv'
    OBVIOUS
  <2>1. ASSUME paServer' = paServer, \A q \in paReqs' : Asked(q)
        PROVE  AdminInv'
    BY <2>1 DEF AdminInv, PersonRows, LastAdminStands, ActiveAdmins, IsPlatformAdmin
  <2>2. CASE UNCHANGED paVars
    BY <2>1, <2>2 DEF paVars, AdminInv, PersonRows
  <2>3. ASSUME NEW key, NEW kind, NEW u \in PaUsers, NEW body \in BOOLEAN,
               PaSave(key, kind, u, body)
        PROVE  AdminInv'
    <3>1. \A q \in paReqs' : Asked(q)
      BY <2>3 DEF PaSave, PaReq, AdminInv, PersonRows, Asked
    <3>. QED
      BY <2>1, <2>3, <3>1 DEF PaSave
  <2>4. CASE PaAccess \/ PaDirectory
    <3>1. CASE PaRefresh
      <4>1. Asked(PaReq(PaSelf, "load", PaSelf, TRUE))
        BY NewRequestAsked, SelfIsUser, Zenon
      <4>2. paServer' = paServer /\ \A q \in paReqs' : Asked(q)
        BY <3>1, <4>1 DEF PaRefresh, AdminInv, PersonRows
      <4>. QED
        BY <2>1, <4>2
    <3>2. ASSUME NEW field, SaveSetting(field)
          PROVE  AdminInv'
      BY <2>3, <3>2, SelfIsUser DEF SaveSetting
    <3>3. CASE SaveProject
      BY <2>3, <3>3, SelfIsUser DEF SaveProject
    <3>4. ASSUME NEW u \in PaUsers, SaveUser(u)
          PROVE  AdminInv'
      BY <2>3, <3>4 DEF SaveUser
    <3>5. ASSUME NEW u \in PaUsers, RevokeSessions(u)
          PROVE  AdminInv'
      BY <2>3, <3>5 DEF RevokeSessions
    <3>. QED
      BY <2>4, <3>1, <3>2, <3>3, <3>4, <3>5 DEF PaAccess, PaDirectory
  <2>5. ASSUME NEW u \in PaUsers, OtherAdmin(u)
        PROVE  AdminInv'
    BY <2>1, <2>5 DEF OtherAdmin, PaReq, AdminInv, PersonRows, Asked
  <2>6. ASSUME NEW u \in PaUsers, SignIn(u)
        PROVE  AdminInv'
    <3>1. /\ paServer'.flag = paServer.flag /\ paServer'.suspended = paServer.suspended
          /\ paReqs' = paReqs /\ PersonRows'
      BY <2>6 DEF SignIn, AdminInv, PersonRows
    <3>. QED
      BY <3>1 DEF AdminInv, LastAdminStands, ActiveAdmins, IsPlatformAdmin
  <2>7. ASSUME NEW q \in paReqs, PaServe(q)
        PROVE  AdminInv'
    <3>1. CASE Authorize(q)
      BY <2>1, <3>1, AnswerKeepsRequest DEF Authorize, AdminInv
    <3>2. CASE ServePlatform(q)
      BY <2>1, <3>2, AnswerKeepsRequest DEF ServePlatform, AdminInv
    <3>3. CASE CommitUser(q)
      BY <3>3, CommitLeavesOne
    <3>4. ASSUME ServeRevokeSessions(q) \/ ServeSetting(q) \/ ServeProjectStatus(q)
          PROVE  AdminInv'
      <4>1. \A p \in paReqs' : Asked(p)
        BY <3>4, AnswerKeepsRequest
           DEF ServeRevokeSessions, ServeSetting, ServeProjectStatus, AdminInv
      <4>2. /\ paServer'.flag = paServer.flag /\ paServer'.suspended = paServer.suspended
            /\ paServer' \in [flag : [PaUsers -> BOOLEAN], suspended : [PaUsers -> BOOLEAN],
                              sessions : [PaUsers -> Nat], login : BOOLEAN, signup : BOOLEAN,
                              active : BOOLEAN]
        BY <3>4 DEF ServeRevokeSessions, ServeSetting, ServeProjectStatus, AdminInv, PersonRows,
                    Asked
      <4>. QED
        BY <4>1, <4>2 DEF AdminInv, PersonRows, LastAdminStands, ActiveAdmins, IsPlatformAdmin
    <3>. QED
      BY <2>7, <3>1, <3>2, <3>3, <3>4 DEF PaServe
  <2>8. ASSUME NEW q \in paReqs, PaLose(q)
        PROVE  AdminInv'
    BY <2>1, <2>8, AnswerKeepsRequest DEF PaLose, AdminInv
  <2>9. ASSUME NEW q \in paReqs, PaContinue(q)
        PROVE  AdminInv'
    BY <2>1, <2>9 DEF PaContinue, AdminInv, PersonRows
  <2>. QED
    BY <2>2, <2>4, <2>5, <2>6, <2>7, <2>8, <2>9 DEF PaNext
<1>. QED
  BY <1>1, <1>2, PTL DEF PaSpec, AdminInv

=============================================================================
