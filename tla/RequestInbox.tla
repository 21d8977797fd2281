---------------------------- MODULE RequestInbox ----------------------------
(***************************************************************************)
(* The inbox of project requests (components/request-inbox.tsx) in one     *)
(* manager's tab, the endpoints behind it (updateProjectRequest and        *)
(* convertProjectRequest) and another client of the same endpoints.        *)
(* Assignee and internal notes are one field; a project is known by its    *)
(* key, which a conversion takes from the request's title unless the       *)
(* client names one.                                                       *)
(***************************************************************************)
EXTENDS Naturals, FiniteSets

CONSTANTS
    IbRequests,    \* ids of project requests
    IbTitleKey,    \* the key their titles lead to
    IbOtherKey,    \* a key another client may name
    NoKey,
    IbNotes,       \* values of assignee and internal notes
    IbScenes       \* bounds: requests the user starts and another client starts,
                   \* answers that are lost

ASSUME KeysAreKeys == IbOtherKey # NoKey /\ \A r \in IbRequests : IbTitleKey[r] # NoKey

VARIABLES
    ibServer,  \* the request rows and the projects made from each
    ibTab,     \* requests, selected, the form, loading, saving, error; at is the route
    ibReqs,
    ibLeft

ibVars == <<ibServer, ibTab, ibReqs, ibLeft>>

IbStatuses == {"submitted", "approved", "converted"}
IbReq(by, kind, id, body) ==
    [by |-> by, kind |-> kind, id |-> id, body |-> body, at |-> "sent", row |-> {}]
IbFlying(kind) == {q \in ibReqs : q.kind = kind /\ q.by = "tab"}
IbBegin == ibLeft.starts > 0 /\ ibLeft' = [ibLeft EXCEPT !.starts = @ - 1]

\* Keys of all projects.
UsedKeys == UNION {ibServer.made[r] : r \in IbRequests}

IbInit ==
    /\ ibLeft \in IbScenes
    /\ ibServer = [rows |-> [r \in IbRequests |-> [id |-> r, status |-> "submitted",
                                                   notes |-> CHOOSE n \in IbNotes : TRUE, into |-> NoKey]],
                   made |-> [r \in IbRequests |-> {}]]
    /\ ibTab = [at |-> "inbox", list |-> {}, selected |-> {}, filter |-> IbStatuses,
                form |-> [status |-> "submitted", notes |-> CHOOSE n \in IbNotes : TRUE],
                loading |-> TRUE, saving |-> FALSE, error |-> FALSE]
    /\ ibReqs = {IbReq("tab", "load", "first", {})}

-----------------------------------------------------------------------------
(* What the manager does in the tab *)

\* load, by Retry beside an error or because t changed with the language; it may
\* overlap an earlier one.
IbLoad ==
    /\ ibTab.at = "inbox" /\ Cardinality(IbFlying("load")) < 2 /\ IbBegin
    /\ ibTab' = [ibTab EXCEPT !.loading = TRUE, !.error = FALSE]
    /\ \E nth \in {IF \E q \in IbFlying("load") : q.id = "first" THEN "again" ELSE "first"} :
         ibReqs' = ibReqs \cup {IbReq("tab", "load", nth, {})}
    /\ UNCHANGED ibServer

\* The list is filtered by status.
IbFilter(statuses) ==
    /\ ibTab.at = "inbox" /\ ibTab.selected = {} /\ ibTab.filter # statuses /\ IbBegin
    /\ ibTab' = [ibTab EXCEPT !.filter = statuses]
    /\ UNCHANGED <<ibServer, ibReqs>>

Filtered == {row \in ibTab.list : row.status \in ibTab.filter}

FormOf(row) == [status |-> row.status, notes |-> row.notes]

\* selectRequest: the sheet opens with the row's fields in the form.
SelectRequest(row) ==
    /\ ibTab.at = "inbox" /\ ~ibTab.loading /\ ibTab.selected = {}
    /\ row \in Filtered
    /\ ibTab' = [ibTab EXCEPT !.selected = {row},
                              !.form = FormOf(row)]
    /\ UNCHANGED <<ibServer, ibReqs, ibLeft>>

\* The sheet's fields.
EditRequest(form) ==
    /\ ibTab.at = "inbox" /\ ibTab.selected # {} /\ form # ibTab.form /\ IbBegin
    /\ ibTab' = [ibTab EXCEPT !.form = form]
    /\ UNCHANGED <<ibServer, ibReqs>>

CloseSheet ==
    /\ ibTab.at = "inbox" /\ ibTab.selected # {}
    /\ ibTab' = [ibTab EXCEPT !.selected = {}]
    /\ UNCHANGED <<ibServer, ibReqs, ibLeft>>

IbSend(kind, row, body) ==
    /\ ibTab.at = "inbox" /\ ~ibTab.saving /\ row \in ibTab.selected /\ IbBegin
    /\ ibTab' = [ibTab EXCEPT !.saving = TRUE, !.error = FALSE]
    /\ ibReqs' = ibReqs \cup {IbReq("tab", kind, row.id, body)}
    /\ UNCHANGED ibServer

SaveRequest(row) == IbSend("save", row, ibTab.form)

\* convert: offered until the row shown names a project.
ConvertRequest(row) == row.into = NoKey /\ IbSend("convert", row, IbTitleKey[row.id])

\* Another client saves or converts; it may name a key of its own.
OtherClient(kind, r, body) ==
    /\ ibLeft.others > 0 /\ ibLeft' = [ibLeft EXCEPT !.others = @ - 1]
    /\ {q \in ibReqs : q.by = "other"} = {}
    /\ ibReqs' = ibReqs \cup {IbReq("other", kind, r, body)}
    /\ UNCHANGED <<ibServer, ibTab>>

-----------------------------------------------------------------------------
(* The endpoints *)

Answer(q, at, rows) == ibReqs' = (ibReqs \ {q}) \cup {[q EXCEPT !.at = at, !.row = rows]}

\* listProjectRequests, after the session was read.
ServeRequests(q) ==
    /\ q.kind = "load" /\ q.at = "sent"
    /\ Answer(q, "answered", {ibServer.rows[r] : r \in IbRequests})
    /\ UNCHANGED ibServer

\* updateProjectRequest: status, assignee and notes are written for the id alone.
ServeSave(q) ==
    /\ q.kind = "save" /\ q.at = "sent"
    /\ \E row \in {[ibServer.rows[q.id] EXCEPT !.status = q.body.status, !.notes = q.body.notes]} :
         /\ ibServer' = [ibServer EXCEPT !.rows[q.id] = row]
         /\ Answer(q, "answered", {row})

\* convertProjectRequest up to its transaction.
CheckConvert(q) ==
    /\ q.kind = "convert" /\ q.at = "sent"
    /\ \E row \in {ibServer.rows[q.id]} :
         IF row.into # NoKey \/ row.status = "converted" \/ q.body \in UsedKeys
         THEN Answer(q, "failed", {}) ELSE Answer(q, "checked", {row})
    /\ UNCHANGED ibServer

(* Mutant of CommitConvert: the UPDATE does not ask for converted_project_id IS NULL. *)
CommitConvertUnasked(q) ==
    /\ q.kind = "convert" /\ q.at = "checked"
    /\ IF q.body \in UsedKeys
       THEN Answer(q, "failed", {}) /\ UNCHANGED ibServer
       ELSE /\ ibServer' = [ibServer EXCEPT !.made[q.id] = @ \cup {q.body},
                                            !.rows[q.id].status = "converted",
                                            !.rows[q.id].into = q.body]
            /\ \E row \in q.row :
                 Answer(q, "answered", {[row EXCEPT !.status = "converted", !.into = q.body]})

\* Its transaction: the project's key is unique, and the request must not name a
\* project yet; otherwise everything is rolled back.  The answer is made from the
\* row as it was read before.
CommitConvert(q) ==
    /\ q.kind = "convert" /\ q.at = "checked"
    /\ IF q.body \in UsedKeys \/ ibServer.rows[q.id].into # NoKey
       THEN Answer(q, "failed", {}) /\ UNCHANGED ibServer
       ELSE /\ ibServer' = [ibServer EXCEPT !.made[q.id] = @ \cup {q.body},
                                            !.rows[q.id].status = "converted",
                                            !.rows[q.id].into = q.body]
            /\ \E row \in q.row :
                 Answer(q, "answered", {[row EXCEPT !.status = "converted", !.into = q.body]})

\* An error, before or after the request was served; a session that has ended sends a
\* load to the login page.
IbLose(q) ==
    /\ ibLeft.faults > 0 /\ ibLeft' = [ibLeft EXCEPT !.faults = @ - 1]
    /\ q.at \in {"sent", "answered"} /\ q.by = "tab"
    /\ \E at \in {"failed"} \cup IF q.kind = "load" THEN {"unauthorized"} ELSE {} : Answer(q, at, {})
    /\ UNCHANGED <<ibServer, ibTab>>

IbServe(q) ==
    /\ ServeRequests(q) \/ ServeSave(q) \/ CheckConvert(q) \/ CommitConvert(q)
    /\ UNCHANGED <<ibTab, ibLeft>>

-----------------------------------------------------------------------------
(* The continuations *)

EndLoad(q) ==
    /\ q.kind = "load"
    /\ ibTab' = IF q.at = "answered" THEN [ibTab EXCEPT !.list = q.row, !.loading = FALSE]
                ELSE IF q.at = "failed" THEN [ibTab EXCEPT !.error = TRUE, !.loading = FALSE]
                ELSE [ibTab EXCEPT !.at = "login", !.loading = FALSE]

RowSaved(q) == {IF row.id = q.id THEN CHOOSE new \in q.row : TRUE ELSE row : row \in ibTab.list}

\* The answer's row is put in the list and shown in the sheet, whatever it shows now.
EndSave(q) ==
    /\ q.kind = "save"
    /\ ibTab' = IF q.at = "answered"
                THEN [ibTab EXCEPT !.list = RowSaved(q), !.selected = q.row, !.saving = FALSE]
                ELSE [ibTab EXCEPT !.error = TRUE, !.saving = FALSE]

\* The same, and the tab moves on to the project.
EndConvert(q) ==
    /\ q.kind = "convert"
    /\ ibTab' = IF q.at = "answered"
                THEN [ibTab EXCEPT !.list = RowSaved(q), !.selected = q.row, !.saving = FALSE,
                                   !.at = "project"]
                ELSE [ibTab EXCEPT !.error = TRUE, !.saving = FALSE]

\* Once the tab has left the inbox, and for the other client, nothing comes of an answer.
IbContinue(q) ==
    /\ q.at \notin {"sent", "checked"}
    /\ ibReqs' = ibReqs \ {q}
    /\ IF q.by = "tab" /\ ibTab.at = "inbox" THEN EndLoad(q) \/ EndSave(q) \/ EndConvert(q)
       ELSE UNCHANGED ibTab
    /\ UNCHANGED <<ibServer, ibLeft>>

-----------------------------------------------------------------------------
\* What the view offers.
IbManager ==
    \/ IbLoad
    \/ \E statuses \in {IbStatuses, {"converted"}} : IbFilter(statuses)
    \/ \E row \in ibTab.list : SelectRequest(row)
    \/ \E form \in [status : IbStatuses, notes : IbNotes] : EditRequest(form)
    \/ CloseSheet
    \/ \E row \in ibTab.selected : SaveRequest(row) \/ ConvertRequest(row)

IbNext ==
    \/ IbManager
    \/ \E r \in IbRequests :
         \/ \E form \in [status : IbStatuses, notes : IbNotes] : OtherClient("save", r, form)
         \/ \E key \in {IbTitleKey[r], IbOtherKey} : OtherClient("convert", r, key)
    \/ \E q \in ibReqs : IbServe(q) \/ IbLose(q) \/ IbContinue(q)

-----------------------------------------------------------------------------
(* Properties *)

\* convertProjectRequest answers "project request has already been converted": one
\* request leads to one project at most, the one its row names, though two clients
\* convert it at once and a save may set its status back in between.
ConvertedOnce ==
    \A r \in IbRequests :
      ibServer.made[r] = IF ibServer.rows[r].into = NoKey THEN {} ELSE {ibServer.rows[r].into}
=============================================================================
