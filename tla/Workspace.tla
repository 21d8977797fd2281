----------------------------- MODULE Workspace -----------------------------
(***************************************************************************)
(* One mounted ProjectWorkspace (components/project-workspace.tsx): the    *)
(* lists it shows, the loads, polls and writes it has in flight, the       *)
(* details sheet and the editor, against the rows of the server.           *)
(*                                                                         *)
(* Every request is a record in reqs.  It is sent, later the server reads  *)
(* or commits, later still the continuation after the await runs: three    *)
(* steps, so that any two requests interleave.  The App Router mounts the  *)
(* component anew for each /projects/[projectId]/[view], so an instance    *)
(* keeps its project and its view.  A row is [id, status, ver]: status     *)
(* stands for everything a form can change.                                *)
(***************************************************************************)
EXTENDS Naturals, Sequences, FiniteSets, SequencesExt

CONSTANTS
    Order,        \* the ids of all tasks and milestones, in server order
    TaskIds,      \* the ids that are tasks; the others are milestones
    WsStatuses,   \* the values a row's status takes
    FirstStatus,  \* the one the stored rows have
    WsScenes      \* bounds: the view an instance is mounted in, the ids stored
                  \* by then, how many loads and writes its user starts, how
                  \* many rows others change, how many requests fail

Ids == ToSet(Order)
Lists == {"tasks", "milestones"}
ListOf(i) == IF i \in TaskIds THEN "tasks" ELSE "milestones"
NoRow == [id |-> "none", status |-> "none", ver |-> 0]

VARIABLES
    view,      \* activeView
    db,        \* the server's rows, NoRow where none exists
    shown,     \* data.tasks and data.milestones
    opened,    \* whether data.project is set
    loading,   \* loading
    alert,     \* error is set: the notice with its retry is on screen
    failed,    \* the lists named in resourceErrors
    reqs,      \* loads and requests in flight
    sheet,     \* selectedTask: a copy of a row
    editor,    \* editingTask or editingMilestone: a copy of a row
    saving,    \* the editor's submitting
    mounted,   \* FALSE once the user was sent to /login
    left       \* the scene, less what happened of it

wsVars == <<view, db, shown, opened, loading, alert, failed, reqs,
            sheet, editor, saving, mounted, left>>

Rows(l) ==
    LET here == SelectSeq(Order, LAMBDA i : ListOf(i) = l /\ db[i] # NoRow)
    IN  [k \in DOMAIN here |-> db[here[k]]]

\* The lists a view polls every five seconds.
Polled == IF view = "tasks" THEN {"tasks"} ELSE Lists

RowIn(seq, i) == {seq[k] : k \in {k \in DOMAIN seq : seq[k].id = i}}

\* items.map(item => item.id === row.id ? row : item)
Replace(seq, row) ==
    [k \in DOMAIN seq |-> IF seq[k].id = row.id THEN row ELSE seq[k]]

\* Takes one of the scene's k, while there is one.
Spend(k) == left[k] > 0 /\ left' = [left EXCEPT ![k] = @ - 1]

ListReq(l) == [kind |-> "list", list |-> l, at |-> "sent", rows |-> <<>>]
Unread == [at |-> "sent", rows |-> <<>>]
Load(known) == [kind |-> "load", list |-> "both", at |-> "session", known |-> known,
                tasks |-> Unread, milestones |-> Unread]

-----------------------------------------------------------------------------
(* loadWorkspace *)

\* The body up to its first await: the notices are cleared, loading is set.
\* known is whether the reference names a project: a retry passes
\* data.project.id, which is empty until a project was loaded.
BeginLoad(known) ==
    /\ Spend("loads")
    /\ loading' = TRUE /\ alert' = FALSE /\ failed' = {}
    /\ reqs' = reqs \cup {Load(known)}
    /\ UNCHANGED <<view, db, shown, opened, sheet, editor, saving, mounted>>

\* The retry of a notice.
Retry == mounted /\ (alert \/ failed # {}) /\ BeginLoad(opened)

\* t has a new identity after a change of language: the effect loads again.
ChangeLanguage == mounted /\ BeginLoad(TRUE)

\* getSession, listProjects and getProject have answered.
LoadProject(q) ==
    /\ q \in reqs /\ q.kind = "load" /\ q.at = "session" /\ q.known
    /\ opened' = TRUE
    /\ reqs' = (reqs \ {q}) \cup {[q EXCEPT !.at = "lists"]}
    /\ UNCHANGED <<view, db, shown, loading, alert, failed, sheet, editor,
                   saving, mounted, left>>

\* No project has the reference, or one of the three requests failed.
LoadFails(q) ==
    /\ q \in reqs /\ q.kind = "load" /\ q.at = "session"
    /\ IF q.known THEN Spend("faults")
                  ELSE UNCHANGED left
    /\ alert' = TRUE /\ loading' = FALSE
    /\ reqs' = reqs \ {q}
    /\ UNCHANGED <<view, db, shown, opened, failed, sheet, editor, saving, mounted>>

\* The session has expired: the user is sent to /login.
LoadUnauthorized(q) ==
    /\ q \in reqs /\ q.kind = "load" /\ q.at = "session"
    /\ Spend("faults")
    /\ mounted' = FALSE /\ loading' = FALSE
    /\ reqs' = {}
    /\ UNCHANGED <<view, db, shown, opened, alert, failed, sheet, editor, saving>>

\* One of the lists of Promise.allSettled is read, or its request fails.
LoadReads(q, l) ==
    /\ q \in reqs /\ q.kind = "load" /\ q.at = "lists" /\ q[l].at = "sent"
    /\ \/ /\ reqs' = (reqs \ {q}) \cup {[q EXCEPT ![l] = [at |-> "read", rows |-> Rows(l)]]}
          /\ UNCHANGED left
       \/ /\ Spend("faults")
          /\ reqs' = (reqs \ {q}) \cup {[q EXCEPT ![l] = [at |-> "failed", rows |-> <<>>]]}
    /\ UNCHANGED <<view, db, shown, opened, loading, alert, failed, sheet,
                   editor, saving, mounted>>

\* All have settled: every list is replaced, a failed one by an empty one.
LoadSettles(q) ==
    /\ q \in reqs /\ q.kind = "load" /\ q.at = "lists"
    /\ \A l \in Lists : q[l].at # "sent"
    /\ shown' = [l \in Lists |-> q[l].rows]
    /\ failed' = {l \in Lists : q[l].at = "failed"}
    /\ loading' = FALSE
    /\ reqs' = reqs \ {q}
    /\ UNCHANGED <<view, db, opened, alert, sheet, editor, saving, mounted, left>>

-----------------------------------------------------------------------------
(* refreshTasks, refreshMilestones and the polling effect *)

(* Mutant of Polling: a failed list stops the interval. *)
PollingUnlessFailed(l) == mounted /\ opened /\ l \in Polled /\ failed = {}

\* The effect's condition: it looks at no error.
Polling(l) == mounted /\ opened /\ l \in Polled

\* The interval's tick, or the toolbar's refresh.
Poll(l) ==
    /\ Polling(l)
    /\ Cardinality({q \in reqs : q.kind = "list" /\ q.list = l}) < 2
    /\ reqs' = reqs \cup {ListReq(l)}
    /\ UNCHANGED <<view, db, shown, opened, loading, alert, failed, sheet,
                   editor, saving, mounted, left>>

ServeList(q) ==
    /\ q \in reqs /\ q.kind = "list" /\ q.at = "sent"
    /\ \/ /\ reqs' = (reqs \ {q}) \cup {[q EXCEPT !.at = "read", !.rows = Rows(q.list)]}
          /\ UNCHANGED left
       \/ /\ Spend("faults")
          /\ reqs' = (reqs \ {q}) \cup {[q EXCEPT !.at = "failed"]}
    /\ UNCHANGED <<view, db, shown, opened, loading, alert, failed, sheet,
                   editor, saving, mounted>>

\* The continuation of refreshTasks or refreshMilestones.
RefreshEnds(q) ==
    /\ q \in reqs /\ q.kind = "list" /\ q.at \in {"read", "failed"}
    /\ IF q.at = "read"
       THEN /\ shown' = [shown EXCEPT ![q.list] = q.rows]
            /\ failed' = failed \ {q.list}
       ELSE failed' = failed \cup {q.list} /\ UNCHANGED shown
    /\ reqs' = reqs \ {q}
    /\ UNCHANGED <<view, db, opened, loading, alert, sheet, editor, saving,
                   mounted, left>>

-----------------------------------------------------------------------------
(* The writes: sent with the list as it was, for the rollback *)

Write(kind, base, ver, want, before) ==
    [kind |-> kind, at |-> "sent", base |-> base, ver |-> ver, want |-> want,
     list |-> ListOf(base.id), before |-> before, over |-> NoRow, row |-> NoRow]

MayWrite == mounted /\ opened 

\* handleTaskStatusChange: the card moves at once; the version is the list's.
HandleTaskStatusChange(i, s) ==
    LET now == RowIn(shown.tasks, i)
    IN  /\ MayWrite /\ Spend("writes")
        /\ \/ now = {} /\ UNCHANGED <<shown, reqs>>
           \/ \E row \in now :
                /\ shown' = [shown EXCEPT !.tasks = Replace(@, [row EXCEPT !.status = s])]
                /\ reqs' = reqs \cup {Write("move", row, row.ver, s, shown.tasks)}
        /\ UNCHANGED <<view, db, opened, loading, alert, failed, sheet, editor,
                       saving, mounted>>

\* A card dropped in another column of the board.
MoveCard(i, s) ==
    /\ view = "tasks" /\ ~loading
    /\ \E row \in RowIn(shown.tasks, i) : row.status # s
    /\ HandleTaskStatusChange(i, s)

\* The sheet's select, which keeps showing the copy it was opened with.
MoveInSheet(s) ==
    /\ sheet # NoRow /\ sheet.status # s
    /\ HandleTaskStatusChange(sheet.id, s)

(* Mutant of FormVersion: the version of the row as it is shown by now. *)
ShownVersion(l) ==
    LET now == RowIn(shown[l], editor.id)
    IN  IF now = {} THEN editor.ver ELSE (CHOOSE row \in now : TRUE).ver

\* The version a save names is that of the row the dialog was opened for.
FormVersion(l) == editor.ver

\* The dialog's submit: the form replaces the row at once, under the version of
\* the copy it was filled from.
SaveForm(l, s) ==
    /\ MayWrite /\ editor # NoRow /\ ListOf(editor.id) = l /\ ~saving
    /\ Spend("writes")
    /\ saving' = TRUE
    /\ shown' = [shown EXCEPT ![l] =
                   [k \in DOMAIN @ |-> IF @[k].id = editor.id
                                       THEN [@[k] EXCEPT !.status = s] ELSE @[k]]]
    /\ reqs' = reqs \cup {Write("save", editor, FormVersion(l), s, shown[l])}
    /\ UNCHANGED <<view, db, opened, loading, alert, failed, sheet, editor, mounted>>

HandleUpdateTask(s) == SaveForm("tasks", s)
HandleUpdateMilestone(s) == SaveForm("milestones", s)

\* Nothing is shown of a new row before the answer.
SubmitNew(i, s) ==
    /\ MayWrite /\ db[i] = NoRow
    /\ \A q \in reqs : q.kind = "create" => q.base.id # i
    /\ Spend("writes")
    /\ reqs' = reqs \cup {Write("create", [NoRow EXCEPT !.id = i], 0, s, <<>>)}
    /\ UNCHANGED <<view, db, shown, opened, loading, alert, failed, sheet,
                   editor, saving, mounted>>

HandleCreateTask(i, s) == i \in TaskIds /\ SubmitNew(i, s)
\* Only the roadmap opens the milestone dialog.
HandleCreateMilestone(i, s) == i \notin TaskIds /\ view = "roadmap" /\ SubmitNew(i, s)

Writes == {"move", "save", "create"}

\* The row a write leaves behind when the server accepts it.
Written(q) == [id |-> q.base.id, status |-> q.want, ver |-> db[q.base.id].ver + 1]

\* The server: a row is changed only under the version it still has.
ServeWrite(q) ==
    LET i  == q.base.id
        ok == q.kind = "create" \/ db[i].ver = q.ver
    IN  /\ q \in reqs /\ q.kind \in Writes /\ q.at = "sent"
        /\ db' = IF ok THEN [db EXCEPT ![i] = Written(q)] ELSE db
        /\ reqs' = (reqs \ {q}) \cup
                     {[q EXCEPT !.at = IF ok THEN "ok" ELSE "refused",
                                !.row = IF ok THEN Written(q) ELSE NoRow, !.over = db[i]]}
        /\ UNCHANGED <<view, shown, opened, loading, alert, failed, sheet, editor,
                       saving, mounted, left>>

\* The request never gets through, or its answer is lost.
LoseWrite(q) ==
    /\ q \in reqs /\ q.kind \in Writes /\ q.at \in {"sent", "ok"}
    /\ Spend("faults")
    /\ reqs' = (reqs \ {q}) \cup {[q EXCEPT !.at = "refused"]}
    /\ UNCHANGED <<view, db, shown, opened, loading, alert, failed, sheet,
                   editor, saving, mounted>>

\* reset, onOpenChange(false) and setSubmitting(false) at the end of submit.
DialogCloses == editor' = NoRow /\ saving' = FALSE

\* The rest of the handler after an accepted write.  Saving and creating close
\* the dialog, whatever it is open for by then; all refresh the list.
WriteSucceeds(q) ==
    /\ q \in reqs /\ q.kind \in Writes /\ q.at = "ok"
    /\ shown' = [shown EXCEPT ![q.list] =
                   IF q.kind = "create" THEN Append(@, q.row) ELSE Replace(@, q.row)]
    /\ IF q.kind = "save"
       THEN /\ DialogCloses
            /\ sheet' = IF sheet.id = q.row.id THEN q.row ELSE sheet
       ELSE UNCHANGED <<editor, saving, sheet>>
    /\ reqs' = (reqs \ {q}) \cup {ListReq(q.list)}
    /\ UNCHANGED <<view, db, opened, loading, alert, failed, mounted, left>>

\* The catch: the whole list is put back as it was when the write was sent.
\* A create has none; the dialog of a save stays open.
WriteFails(q) ==
    /\ q \in reqs /\ q.kind \in Writes /\ q.at = "refused"
    /\ IF q.kind = "create"
       THEN UNCHANGED <<shown, alert, saving>>
       ELSE /\ shown' = [shown EXCEPT ![q.list] = q.before]
            /\ alert' = TRUE
            /\ saving' = IF q.kind = "save" THEN FALSE ELSE saving
    /\ reqs' = reqs \ {q}
    /\ UNCHANGED <<view, db, opened, loading, failed, sheet, editor, mounted, left>>

-----------------------------------------------------------------------------
(* The sheet and the editor hold copies *)

SelectTask(row) ==
    /\ mounted /\ ~loading /\ view # "roadmap" /\ sheet = NoRow /\ editor = NoRow
    /\ row \in ToSet(shown.tasks)
    /\ sheet' = row
    /\ UNCHANGED <<view, db, shown, opened, loading, alert, failed, reqs,
                   editor, saving, mounted, left>>

\* openTaskEditor from a card or from the sheet, openMilestoneEditor.
OpenEditor(row) ==
    /\ mounted /\ editor = NoRow
    /\ \/ ~loading /\ sheet = NoRow
          /\ row \in ToSet(shown[IF view = "roadmap" THEN "milestones" ELSE "tasks"])
       \/ row = sheet /\ sheet # NoRow
    /\ editor' = row /\ sheet' = NoRow
    /\ UNCHANGED <<view, db, shown, opened, loading, alert, failed, reqs,
                   saving, mounted, left>>

CloseDialog ==
    /\ sheet # NoRow \/ editor # NoRow
    /\ sheet' = NoRow /\ editor' = NoRow
    /\ UNCHANGED <<view, db, shown, opened, loading, alert, failed, reqs,
                   saving, mounted, left>>

\* Another user, or the worker, changes a row.
OtherWrite(i, s) ==
    /\ Spend("others")
    /\ db[i] # NoRow /\ db[i].status # s
    /\ db' = [db EXCEPT ![i] = [@ EXCEPT !.status = s, !.ver = @ + 1]]
    /\ UNCHANGED <<view, shown, opened, loading, alert, failed, reqs, sheet, editor,
                   saving, mounted>>

-----------------------------------------------------------------------------
WsInit ==
    /\ left \in WsScenes /\ view = left.view
    /\ db = [i \in Ids |-> IF i \in left.stored THEN [id |-> i, status |-> FirstStatus, ver |-> 1]
                                           ELSE NoRow]
    /\ shown = [l \in Lists |-> <<>>]
    /\ opened = FALSE /\ loading = TRUE /\ alert = FALSE /\ failed = {}
    /\ reqs = {Load(TRUE)}
    /\ sheet = NoRow /\ editor = NoRow /\ saving = FALSE /\ mounted = TRUE

WsUser ==
    \/ Retry \/ ChangeLanguage \/ CloseDialog
    \/ \E s \in WsStatuses : MoveInSheet(s) \/ HandleUpdateTask(s) \/ HandleUpdateMilestone(s)
    \/ \E i \in TaskIds, s \in WsStatuses : MoveCard(i, s)
    \/ \E i \in Ids, s \in WsStatuses :
         HandleCreateTask(i, s) \/ HandleCreateMilestone(i, s) \/ OtherWrite(i, s)
    \/ \E l \in Lists, k \in 1..Len(Order) :
         k \in DOMAIN shown[l] /\ (SelectTask(shown[l][k]) \/ OpenEditor(shown[l][k]))
    \/ OpenEditor(sheet)

LoadSteps ==
    \E q \in reqs :
      \/ LoadProject(q) \/ LoadFails(q) \/ LoadUnauthorized(q) \/ LoadSettles(q)
      \/ \E l \in Lists : LoadReads(q, l)
ListServed(l) == \E q \in reqs : q.list = l /\ ServeList(q)
Refreshes(l) == \E q \in reqs : q.list = l /\ RefreshEnds(q)
WriteSteps ==
    \E q \in reqs : ServeWrite(q) \/ LoseWrite(q) \/ WriteSucceeds(q) \/ WriteFails(q)

WsNext ==
    \/ WsUser \/ LoadSteps \/ WriteSteps
    \/ \E l \in Lists : Poll(l) \/ ListServed(l) \/ Refreshes(l)

\* The interval keeps ticking; every request ends, and its continuation runs.
WsFairness ==
    /\ WF_wsVars(LoadSteps) /\ WF_wsVars(WriteSteps)
    /\ \A l \in Lists : WF_wsVars(Poll(l)) /\ WF_wsVars(ListServed(l))
                                           /\ WF_wsVars(Refreshes(l))

WsSpec == WsInit /\ [][WsNext]_wsVars /\ WsFairness

-----------------------------------------------------------------------------
(* Properties *)

\* An edit form is filled from a copy that polls, moves and rollbacks leave
\* behind; a save the server accepts replaces the version the form was filled
\* from, never a newer one the user has not seen.
NoBlindSave ==
    \A q \in reqs : q.kind = "save" /\ q.at = "ok" => q.base.ver = q.over.ver

\* Once writes and faults have stopped, whatever order the answers, rollbacks
\* and duplicate cards came in, the lists the view polls become those of the
\* server and stay so, if the project was loaded at all.
Converges ==
    <>[](mounted /\ opened => \A l \in Polled : shown[l] = Rows(l))
=============================================================================
