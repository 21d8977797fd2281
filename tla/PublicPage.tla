----------------------------- MODULE PublicPage -----------------------------
(***************************************************************************)
(* A customer's view of a project (components/public-project-page.tsx):    *)
(* the page and its login form, the bell with the customer's notifications *)
(* (notification-bell.tsx) and the dialog that requests another project    *)
(* (project-request-dialog.tsx, project-request-form.tsx).                 *)
(*                                                                         *)
(* Requests are answered and continued in any order.  The bell asks again  *)
(* every five seconds while the browser tab is visible.                    *)
(***************************************************************************)
EXTENDS Naturals, FiniteSets

CONSTANTS
    PpNotes,   \* ids of notifications
    PpLinked,  \* those that lead somewhere
    PpScenes   \* bounds: mode (accessMode), signed (with a session at first), notes,
               \* kinds and number of the customer's steps, changes by others, faults

VARIABLES
    ppServer,  \* the session, the notifications, the requests made
    ppPage,    \* loading, authRequired, authenticated, error, the login form, the dialog
    ppBell,    \* notifications, removingIDs, clearing, open; whether the tab is visible
    ppReqs,
    ppLeft

ppVars == <<ppServer, ppPage, ppBell, ppReqs, ppLeft>>

NoNotes == [n \in PpNotes |-> "none"]

PpReq(kind, id, nth) == [kind |-> kind, id |-> id, nth |-> nth, at |-> "sent", got |-> {}]
PpFlying(kind) == Cardinality({q \in ppReqs : q.kind = kind})
\* Requests alike are told apart by the least free number.
PpNth(kind, id) == IF \E q \in ppReqs : q.kind = kind /\ q.id = id /\ q.nth = 0 THEN 1 ELSE 0
PpSent(kind, id) == ppReqs \cup {PpReq(kind, id, PpNth(kind, id))}
PpBegin(kind) ==
    /\ ~ppPage.gone /\ kind \in ppLeft.kinds /\ ppLeft.starts > 0
    /\ ppLeft' = [ppLeft EXCEPT !.starts = @ - 1]
PpOther == ppLeft.others > 0 /\ ppLeft' = [ppLeft EXCEPT !.others = @ - 1]

PpInit ==
    /\ ppLeft \in PpScenes
    /\ ppServer = [signed |-> ppLeft.signed, open |-> TRUE, requests |-> 0,
                    notes |-> [n \in PpNotes |-> IF n \in ppLeft.notes THEN "unread" ELSE "none"]]
    /\ ppPage = [loading |-> TRUE, required |-> FALSE, authed |-> FALSE, error |-> FALSE,
                  login |-> "idle", gone |-> FALSE,
                  dialog |-> FALSE, form |-> 0, saving |-> FALSE, submitted |-> FALSE]
    /\ ppBell = [items |-> NoNotes, removing |-> {}, clearing |-> FALSE,
                  open |-> FALSE, visible |-> TRUE]
    /\ ppReqs = {PpReq("page", "page", 0)}

\* Which of its parts the page shows.
Contents == ~ppPage.loading /\ ~ppPage.required /\ ~ppPage.error
LoginForm == ~ppPage.loading /\ ppPage.required

-----------------------------------------------------------------------------
(* The page and its login form *)

\* Another language: the effect that loads the page depends on t.
SwitchLanguage ==
    /\ PpFlying("page") < 2 /\ PpBegin("page")
    /\ ppReqs' = PpSent("page", "page")
    /\ UNCHANGED <<ppServer, ppPage, ppBell>>

\* CustomerAccessForm, submit.
SignInCustomer ==
    /\ LoginForm /\ ppPage.login # "busy" /\ PpBegin("login")
    /\ ppPage' = [ppPage EXCEPT !.login = "busy"]
    /\ ppReqs' = PpSent("login", "page")
    /\ UNCHANGED <<ppServer, ppBell>>

\* The bell that appears with authenticated loads at once.
BellOf(page, reqs) ==
    reqs \cup IF page.authed /\ ~ppPage.authed THEN {PpReq("list", "bell", PpNth("list", "bell"))} ELSE {}

EndPage(q) ==
    /\ q.kind = "page"
    /\ \E page \in {[ppPage EXCEPT !.loading = FALSE,
                       !.authed = IF q.at = "answered" THEN ppLeft.mode = "login" ELSE @,
                       !.required = @ \/ q.at = "unauthorized",
                       !.error = @ \/ q.at = "failed"]} :
         /\ ppPage' = page
         /\ ppReqs' = BellOf(page, ppReqs \ {q})
    /\ UNCHANGED ppBell

\* customerLogin; signed in, the form reads the page.
EndLogin(q) ==
    /\ q.kind = "login"
    /\ IF q.at = "answered"
       THEN UNCHANGED ppPage /\ ppReqs' = (ppReqs \ {q}) \cup {PpReq("enter", "page", 0)}
       ELSE ppPage' = [ppPage EXCEPT !.login = "error"] /\ ppReqs' = ppReqs \ {q}
    /\ UNCHANGED ppBell

\* onAuthenticated
EndEnter(q) ==
    /\ q.kind = "enter"
    /\ IF q.at = "answered"
       THEN \E page \in {[ppPage EXCEPT !.login = "idle", !.required = FALSE, !.authed = TRUE]} :
              ppPage' = page /\ ppReqs' = BellOf(page, ppReqs \ {q})
       ELSE ppPage' = [ppPage EXCEPT !.login = "error"] /\ ppReqs' = ppReqs \ {q}
    /\ UNCHANGED ppBell

-----------------------------------------------------------------------------
(* The bell *)

Disabled(n) == ppBell.clearing \/ n \in ppBell.removing

(* Mutant of PollBell: an open list is left alone. *)
PollClosedBell ==
    /\ ppPage.authed /\ ~ppPage.gone /\ ppBell.visible /\ ~ppBell.open /\ PpFlying("list") < 2
    /\ ppReqs' = PpSent("list", "bell")
    /\ UNCHANGED <<ppServer, ppPage, ppBell, ppLeft>>

\* The interval; at most two answers are under way (bound).
PollBell ==
    /\ ppPage.authed /\ ~ppPage.gone /\ ppBell.visible /\ PpFlying("list") < 2
    /\ ppReqs' = PpSent("list", "bell")
    /\ UNCHANGED <<ppServer, ppPage, ppBell, ppLeft>>

OpenBell ==
    /\ ppPage.authed /\ PpBegin("bell")
    /\ ppBell' = [ppBell EXCEPT !.open = ~@]
    /\ UNCHANGED <<ppServer, ppPage, ppReqs>>

\* remove
RemoveNote(n) ==
    /\ ppBell.open /\ ppBell.items[n] # "none" /\ ~Disabled(n) /\ PpBegin("remove")
    /\ ppBell' = [ppBell EXCEPT !.removing = @ \cup {n}]
    /\ ppReqs' = PpSent("remove", n)
    /\ UNCHANGED <<ppServer, ppPage>>

\* clearAll
ClearNotes ==
    /\ ppBell.open /\ ppBell.items # NoNotes /\ ~ppBell.clearing /\ ppBell.removing = {}
    /\ PpBegin("clear")
    /\ ppBell' = [ppBell EXCEPT !.clearing = TRUE]
    /\ ppReqs' = PpSent("clear", "bell")
    /\ UNCHANGED <<ppServer, ppPage>>

\* The end of read: the list closes and the router leaves the page.
FollowLink(n, items) ==
    IF n \in PpLinked
    THEN ppBell' = [ppBell EXCEPT !.items = items, !.open = FALSE] /\ ppPage' = [ppPage EXCEPT !.gone = TRUE]
    ELSE ppBell' = [ppBell EXCEPT !.items = items] /\ UNCHANGED ppPage

\* read: a notification that has been read is only followed.
ReadNote(n) ==
    /\ ppBell.open /\ ppBell.items[n] # "none" /\ ~Disabled(n) /\ PpBegin("mark")
    /\ IF ppBell.items[n] = "unread"
       THEN ppReqs' = PpSent("mark", n) /\ UNCHANGED <<ppPage, ppBell>>
       ELSE FollowLink(n, ppBell.items) /\ UNCHANGED ppReqs
    /\ UNCHANGED ppServer

EndList(q) ==
    /\ q.kind = "list"
    /\ ppBell' = IF q.at = "answered" THEN [ppBell EXCEPT !.items = CHOOSE i \in q.got : TRUE] ELSE ppBell
    /\ UNCHANGED ppPage

EndRemove(q) ==
    /\ q.kind = "remove"
    /\ ppBell' = [ppBell EXCEPT !.items[q.id] = IF q.at = "answered" THEN "none" ELSE @,
                                !.removing = @ \ {q.id}]
    /\ UNCHANGED ppPage

EndClear(q) ==
    /\ q.kind = "clear"
    /\ ppBell' = [ppBell EXCEPT !.items = IF q.at = "answered" THEN NoNotes ELSE @, !.clearing = FALSE]
    /\ UNCHANGED ppPage

\* The row that is still listed is marked; the link is followed in either case.
EndMark(q) ==
    /\ q.kind = "mark"
    /\ IF q.at # "answered" THEN UNCHANGED <<ppPage, ppBell>>
       ELSE FollowLink(q.id, [ppBell.items EXCEPT ![q.id] = IF @ = "none" THEN @ ELSE "read"])

-----------------------------------------------------------------------------
(* The request dialog *)

\* Its form is mounted anew each time it opens (form counts them).
OpenDialog ==
    /\ Contents /\ ~ppPage.dialog /\ PpBegin("request")
    /\ ppPage' = [ppPage EXCEPT !.dialog = TRUE, !.form = @ + 1, !.saving = FALSE]
    /\ UNCHANGED <<ppServer, ppBell, ppReqs>>

\* close
CloseRequestDialog ==
    /\ ppPage.dialog
    /\ ppPage' = [ppPage EXCEPT !.dialog = FALSE, !.submitted = FALSE]
    /\ UNCHANGED <<ppServer, ppBell, ppReqs, ppLeft>>

\* ProjectRequestForm, submit.
SubmitRequest ==
    /\ ppPage.dialog /\ ~ppPage.submitted /\ ~ppPage.saving /\ PpBegin("request")
    /\ ppPage' = [ppPage EXCEPT !.saving = TRUE]
    /\ ppReqs' = ppReqs \cup {PpReq("request", "page", ppPage.form)}
    /\ UNCHANGED <<ppServer, ppBell>>

\* The dialog turns to its notice, whichever form it shows; an error is the form's own.
EndRequest(q) ==
    /\ q.kind = "request"
    /\ ppPage' = [ppPage EXCEPT
         !.submitted = @ \/ q.at = "answered",
         !.saving = IF q.nth = ppPage.form \/ q.at = "answered" THEN FALSE ELSE @]
    /\ UNCHANGED ppBell

-----------------------------------------------------------------------------
(* The endpoints *)

PpAnswer(q, at, got) == ppReqs' = (ppReqs \ {q}) \cup {[q EXCEPT !.at = at, !.got = got]}
Signed(q) == IF ppServer.signed THEN "answered" ELSE "unauthorized"

\* publicPage: a page for customers asks for their session.
ServePage(q) ==
    /\ q.kind \in {"page", "enter"}
    /\ PpAnswer(q, IF ~ppServer.open THEN "failed"
                   ELSE IF ppLeft.mode = "login" THEN Signed(q) ELSE "answered", {})
    /\ UNCHANGED ppServer

\* customerLogin: the credentials may be right or wrong.
ServeLogin(q) ==
    /\ q.kind = "login"
    /\ \/ PpAnswer(q, "answered", {}) /\ ppServer' = [ppServer EXCEPT !.signed = TRUE]
       \/ PpAnswer(q, "unauthorized", {}) /\ UNCHANGED ppServer

ServeNotes(q) ==
    /\ q.kind = "list"
    /\ PpAnswer(q, Signed(q), {ppServer.notes})
    /\ UNCHANGED ppServer

\* deleteNotification and clearNotifications; a notification that is gone is not found.
ServeRemove(q) ==
    /\ q.kind \in {"remove", "clear"}
    /\ IF ppServer.signed /\ (q.kind = "clear" \/ ppServer.notes[q.id] # "none")
       THEN /\ PpAnswer(q, "answered", {})
            /\ ppServer' = [ppServer EXCEPT !.notes = [n \in PpNotes |->
                              IF q.kind = "clear" \/ n = q.id THEN "none" ELSE @[n]]]
       ELSE PpAnswer(q, "failed", {}) /\ UNCHANGED ppServer

\* markNotificationRead
ServeMark(q) ==
    /\ q.kind = "mark"
    /\ IF ppServer.signed /\ ppServer.notes[q.id] # "none"
       THEN PpAnswer(q, "answered", {}) /\ ppServer' = [ppServer EXCEPT !.notes[q.id] = "read"]
       ELSE PpAnswer(q, "failed", {}) /\ UNCHANGED ppServer

\* createPublicProjectRequest
ServeRequest(q) ==
    /\ q.kind = "request"
    /\ IF ppServer.open THEN PpAnswer(q, "answered", {}) /\ ppServer' = [ppServer EXCEPT !.requests = @ + 1]
       ELSE PpAnswer(q, "failed", {}) /\ UNCHANGED ppServer

PpServe(q) ==
    /\ q \in ppReqs /\ q.at = "sent"
    /\ \/ ServePage(q) \/ ServeLogin(q) \/ ServeNotes(q)
       \/ ServeRemove(q) \/ ServeMark(q) \/ ServeRequest(q)
    /\ UNCHANGED <<ppPage, ppBell, ppLeft>>

\* An error before or after a request was served.
PpLose(q) ==
    /\ ppLeft.faults > 0 /\ ppLeft' = [ppLeft EXCEPT !.faults = @ - 1]
    /\ q.at \in {"sent", "answered"} /\ PpAnswer(q, "failed", {})
    /\ UNCHANGED <<ppServer, ppPage, ppBell>>

\* Once the page is left nothing comes of an answer.
PpContinue(q) ==
    /\ q \in ppReqs /\ q.at # "sent"
    /\ IF ppPage.gone THEN ppReqs' = ppReqs \ {q} /\ UNCHANGED <<ppPage, ppBell>>
       ELSE \/ EndPage(q) \/ EndLogin(q) \/ EndEnter(q)
            \/ /\ EndList(q) \/ EndRemove(q) \/ EndClear(q) \/ EndMark(q) \/ EndRequest(q)
               /\ ppReqs' = ppReqs \ {q}
    /\ UNCHANGED <<ppServer, ppLeft>>

-----------------------------------------------------------------------------
(* Others *)

\* The project's people notify the customer, or the customer removes it elsewhere.
NotifyCustomer(n) ==
    /\ PpOther
    /\ ppServer' = [ppServer EXCEPT !.notes[n] = IF @ = "none" THEN "unread" ELSE "none"]
    /\ UNCHANGED <<ppPage, ppBell, ppReqs>>

\* The session runs out, or the page is revoked.
AccessEnds ==
    /\ PpOther
    /\ \/ ppServer.signed /\ ppServer' = [ppServer EXCEPT !.signed = FALSE]
       \/ ppServer.open /\ ppServer' = [ppServer EXCEPT !.open = FALSE]
    /\ UNCHANGED <<ppPage, ppBell, ppReqs>>

\* The browser's tab is hidden or shown.
HideTab ==
    /\ PpOther
    /\ ppBell' = [ppBell EXCEPT !.visible = ~@]
    /\ UNCHANGED <<ppServer, ppPage, ppReqs>>

PpCustomer ==
    \/ SwitchLanguage \/ SignInCustomer \/ OpenBell \/ ClearNotes
    \/ OpenDialog \/ CloseRequestDialog \/ SubmitRequest
    \/ \E n \in PpNotes : RemoveNote(n) \/ ReadNote(n)

PpServes(kinds) == \E q \in ppReqs : q.kind \in kinds /\ PpServe(q)
PpEnds(kinds) == \E q \in ppReqs : q.kind \in kinds /\ PpContinue(q)
PpOthers == {"page", "enter", "login", "remove", "clear", "mark", "request"}

PpNext ==
    \/ PpCustomer \/ PollBell \/ HideTab \/ AccessEnds
    \/ PpServes(PpOthers) \/ PpServes({"list"}) \/ PpEnds(PpOthers) \/ PpEnds({"list"})
    \/ \E q \in ppReqs : PpLose(q)
    \/ \E n \in PpNotes : NotifyCustomer(n)

\* The interval keeps ticking, every request is answered and continued.
PpFairness ==
    /\ WF_ppVars(PollBell)
    /\ WF_ppVars(PpServes({"list"})) /\ WF_ppVars(PpEnds({"list"}))
    /\ WF_ppVars(PpServes(PpOthers)) /\ WF_ppVars(PpEnds(PpOthers))

PpSpec == PpInit /\ [][PpNext]_ppVars /\ PpFairness

-----------------------------------------------------------------------------
(* Properties *)

\* An answer read before a removal, and a clearing that overlaps a new notification,
\* put a wrong list on the screen.  Where the customer stays on the page with a session
\* and a visible tab, the bell comes to show the server's notifications and keeps to it.
BellConverges ==
    <>[](ppPage.authed /\ ~ppPage.gone /\ ppBell.visible /\ ppServer.signed
           => ppBell.items = ppServer.notes)
=============================================================================
