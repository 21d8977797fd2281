---------------------------- MODULE PlatformAdmin ---------------------------
(***************************************************************************)
(* The platform administration: the page of one administrator              *)
(* (components/platform-admin.tsx), the endpoints of                       *)
(* httpapi/platform_admin.go, and the other administrators, who call the   *)
(* same endpoints.  A request is authorized first and changes a user later,*)
(* in a transaction under the advisory lock of the administrators.  The    *)
(* statistics and the searches only count and narrow what is listed and    *)
(* are left out; sessions are counted.                                     *)
(***************************************************************************)
EXTENDS Naturals, FiniteSets

CONSTANTS
    PaUsers,
    PaSelf,        \* whose page it is
    PaConfigured,  \* users named by PLATFORM_ADMIN_EMAILS
    PaScenes       \* bounds: administrators by flag at first (admins), suspended users,
                   \* kinds and number of requests the page starts, requests and sign-ins
                   \* of others, answers lost

ASSUME SelfIsUser == PaSelf \in PaUsers /\ PaConfigured \subseteq PaUsers

(* Somebody administers the platform when the page is opened. *)
ASSUME Governed ==
    /\ IsFiniteSet(PaUsers)
    /\ \A s \in PaScenes : ((s.admins \cap PaUsers) \cup PaConfigured) \ s.suspended # {}

VARIABLES
    paServer,  \* the rows of users, the settings, whether the project is active
    paPage,    \* users, settings, active, saving, loading, error, notice; at is the route
    paReqs,
    paLeft

paVars == <<paServer, paPage, paReqs, paLeft>>

PaReq(by, kind, id, body) ==
    [by |-> by, kind |-> kind, id |-> id, body |-> body, at |-> "sent", got |-> {}]
PaFlying(kind) == {q \in paReqs : q.kind = kind /\ q.by = PaSelf}
PaBegin(kind) ==
    /\ kind \in paLeft.kinds /\ paLeft.starts > 0
    /\ paLeft' = [paLeft EXCEPT !.starts = @ - 1]

\* IsPlatformAdmin: the flag, or the configured address.
IsPlatformAdmin(u) == paServer.flag[u] \/ u \in PaConfigured

\* platformAdminCount counts them.
ActiveAdmins == {u \in PaUsers : IsPlatformAdmin(u) /\ ~paServer.suspended[u]}

\* What the lists answer: the effective right, not the flag.
UserRows == [u \in PaUsers |-> [admin |-> IsPlatformAdmin(u), suspended |-> paServer.suspended[u],
                                sessions |-> paServer.sessions[u]]]

PaInit ==
    /\ paLeft \in PaScenes
    /\ paServer = [flag |-> [u \in PaUsers |-> u \in paLeft.admins],
                    suspended |-> [u \in PaUsers |-> u \in paLeft.suspended],
                    sessions |-> [u \in PaUsers |-> IF u \in paLeft.suspended THEN 0 ELSE 1],
                    login |-> TRUE, signup |-> TRUE, active |-> TRUE]
    /\ paPage = [at |-> "admin", users |-> <<>>, login |-> TRUE, signup |-> TRUE,
                  active |-> TRUE, saving |-> "none", loading |-> TRUE,
                  error |-> FALSE, notice |-> FALSE]
    /\ paReqs = {PaReq(PaSelf, "load", PaSelf, TRUE)}

Loaded == paPage.at = "admin" /\ paPage.users # <<>>

-----------------------------------------------------------------------------
(* The page *)

\* load: the Refresh button, disabled while loading; saving does not disable it.
PaRefresh ==
    /\ paPage.at = "admin" /\ ~paPage.loading /\ PaBegin("load")
    /\ paPage' = [paPage EXCEPT !.loading = TRUE, !.error = FALSE]
    /\ paReqs' = paReqs \cup {PaReq(PaSelf, "load", PaSelf, TRUE)}
    /\ UNCHANGED paServer

\* One key says what is being saved; a later save puts its own over it.
PaSave(key, kind, id, body) ==
    /\ Loaded /\ PaBegin(kind)
    /\ PaReq(PaSelf, kind, id, body) \notin paReqs
    /\ paPage' = [paPage EXCEPT !.saving = key, !.error = FALSE]
    /\ paReqs' = paReqs \cup {PaReq(PaSelf, kind, id, body)}
    /\ UNCHANGED paServer

\* AccessToggle: disabled only while its own setting is being saved.
SaveSetting(field) == paPage.saving # field /\ PaSave(field, field, PaSelf, ~paPage[field])

\* ProjectRow: the same for its project.
SaveProject ==
    paPage.saving # "project" /\ PaSave("project", "project", PaSelf, ~paPage.active)

\* UserRow: no buttons on one's own row, and none while anything is being saved.
Editable(u) == u # PaSelf /\ paPage.saving = "none"

SaveUser(u) ==
    /\ Editable(u) /\ Loaded
    /\ \/ PaSave("user", "admin", u, ~paPage.users[u].admin)
       \/ PaSave("user", "suspended", u, ~paPage.users[u].suspended)

RevokeSessions(u) == Editable(u) /\ PaSave("sessions", "revoke", u, TRUE)

\* Another administrator, one request each at a time; an administrator of this page
\* may also be open elsewhere.
OtherAdmin(by) ==
    /\ paLeft.others > 0 /\ paLeft' = [paLeft EXCEPT !.others = @ - 1]
    /\ by # PaSelf /\ {q \in paReqs : q.by = by} = {}
    /\ \E u \in PaUsers, kind \in {"admin", "suspended"}, body \in BOOLEAN :
         paReqs' = paReqs \cup {PaReq(by, kind, u, body)}
    /\ UNCHANGED <<paServer, paPage>>

-----------------------------------------------------------------------------
(* The endpoints *)

PaAnswer(q, at, got) == paReqs' = (paReqs \ {q}) \cup {[q EXCEPT !.at = at, !.got = got]}

\* The session, then requirePlatformAdmin.
Authorize(q) ==
    /\ q.at = "sent"
    /\ PaAnswer(q, IF paServer.sessions[q.by] = 0 \/ paServer.suspended[q.by] THEN "unauthorized"
                   ELSE IF ~IsPlatformAdmin(q.by) THEN "forbidden" ELSE "allowed", {})
    /\ UNCHANGED paServer

\* platformOverview, listPlatformUsers and listPlatformProjects.
ServePlatform(q) ==
    /\ q.kind = "load" /\ q.at = "allowed"
    /\ PaAnswer(q, "answered", {[users |-> UserRows, login |-> paServer.login,
                                 signup |-> paServer.signup, active |-> paServer.active]})
    /\ UNCHANGED paServer

\* The row after q's change.
FlagAfter(q) == IF q.kind = "admin" THEN q.body ELSE paServer.flag[q.id]
SuspendedAfter(q) == IF q.kind = "suspended" THEN q.body ELSE paServer.suspended[q.id]

(* Mutant of UserRefused: only one's own row is protected. *)
UserRefusedSelf(q) ==
    \/ q.id = q.by /\ q.body = (q.kind = "suspended")
    \/ q.kind = "admin" /\ ~q.body /\ ~paServer.flag[q.id] /\ IsPlatformAdmin(q.id)

\* updatePlatformUser's checks: nobody demotes or suspends himself, a configured
\* administrator without the flag cannot be demoted, and who loses the flag or is
\* suspended must not be the only active administrator.
UserRefused(q) ==
    \/ q.id = q.by /\ q.body = (q.kind = "suspended")
    \/ q.kind = "admin" /\ ~q.body /\ ~paServer.flag[q.id] /\ IsPlatformAdmin(q.id)
    \/ /\ IsPlatformAdmin(q.id) /\ (~FlagAfter(q) \/ SuspendedAfter(q))
       /\ Cardinality(ActiveAdmins) <= 1

\* updatePlatformUser from the lock to the commit; suspending ends the sessions.
CommitUser(q) ==
    /\ q.kind \in {"admin", "suspended"} /\ q.at = "allowed"
    /\ IF UserRefused(q) THEN PaAnswer(q, "failed", {}) /\ UNCHANGED paServer
       ELSE /\ paServer' = [paServer EXCEPT
                 !.flag[q.id] = FlagAfter(q), !.suspended[q.id] = SuspendedAfter(q),
                 !.sessions[q.id] = IF q.kind = "suspended" /\ q.body THEN 0 ELSE @]
            /\ PaAnswer(q, "answered", {[admin |-> FlagAfter(q) \/ q.id \in PaConfigured,
                                         suspended |-> SuspendedAfter(q)]})

\* revokePlatformUserSessions
ServeRevokeSessions(q) ==
    /\ q.kind = "revoke" /\ q.at = "allowed"
    /\ paServer' = [paServer EXCEPT !.sessions[q.id] = 0]
    /\ PaAnswer(q, "answered", {[revoked |-> paServer.sessions[q.id]]})

\* updatePlatformSettings answers both settings as they are afterwards.
ServeSetting(q) ==
    /\ q.kind \in {"login", "signup"} /\ q.at = "allowed"
    /\ paServer' = [paServer EXCEPT ![q.kind] = q.body]
    /\ PaAnswer(q, "answered", {[login |-> paServer'.login, signup |-> paServer'.signup]})

\* updatePlatformProject
ServeProjectStatus(q) ==
    /\ q.kind = "project" /\ q.at = "allowed"
    /\ paServer' = [paServer EXCEPT !.active = q.body]
    /\ PaAnswer(q, "answered", {[active |-> q.body]})

\* An error before or after a request was served.
PaLose(q) ==
    /\ paLeft.faults > 0 /\ paLeft' = [paLeft EXCEPT !.faults = @ - 1]
    /\ q.by = PaSelf /\ q.at \in {"sent", "answered"}
    /\ PaAnswer(q, "failed", {})
    /\ UNCHANGED <<paServer, paPage>>

\* Login: a user who was signed out comes back, unless suspended; who does not
\* administer the platform, only while signing in is enabled.
SignIn(u) ==
    /\ paLeft.others > 0 /\ paLeft' = [paLeft EXCEPT !.others = @ - 1]
    /\ paServer.sessions[u] = 0 /\ ~paServer.suspended[u]
    /\ paServer.login \/ IsPlatformAdmin(u)
    /\ paServer' = [paServer EXCEPT !.sessions[u] = 1]
    /\ UNCHANGED <<paPage, paReqs>>

PaServe(q) ==
    /\ \/ Authorize(q) \/ ServePlatform(q) \/ CommitUser(q) \/ ServeRevokeSessions(q)
       \/ ServeSetting(q) \/ ServeProjectStatus(q)
    /\ UNCHANGED <<paPage, paLeft>>

-----------------------------------------------------------------------------
(* The continuations *)

\* load: a session that has ended leads to the login page, a lost right to the home page.
EndPlatform(q, got) ==
    /\ q.kind = "load"
    /\ paPage' = CASE q.at = "answered" ->
                        [paPage EXCEPT !.users = got.users, !.login = got.login,
                           !.signup = got.signup, !.active = got.active, !.loading = FALSE]
                   [] q.at = "failed" -> [paPage EXCEPT !.error = TRUE, !.loading = FALSE]
                   [] q.at = "unauthorized" -> [paPage EXCEPT !.at = "login"]
                   [] q.at = "forbidden" -> [paPage EXCEPT !.at = "home"]

\* The end of every save: the notice or the error, and saving is cleared.
Saved(page) == [page EXCEPT !.notice = TRUE, !.saving = "none"]

EndSetting(q, got) ==
    /\ q.kind \in {"login", "signup"}
    /\ paPage' = Saved([paPage EXCEPT !.login = got.login, !.signup = got.signup])

EndUser(q, got) ==
    /\ q.kind \in {"admin", "suspended"}
    /\ paPage' = Saved([paPage EXCEPT
         !.users[q.id] = [admin |-> got.admin, suspended |-> got.suspended,
                          sessions |-> IF got.suspended THEN 0 ELSE @.sessions]])

EndRevokeSessions(q, got) ==
    /\ q.kind = "revoke"
    /\ paPage' = Saved([paPage EXCEPT !.users[q.id].sessions = 0])

EndProjectStatus(q, got) ==
    /\ q.kind = "project"
    /\ paPage' = Saved([paPage EXCEPT !.active = got.active])

\* What an error leaves of a save.
EndFailed(q) ==
    /\ q.kind # "load"
    /\ paPage' = [paPage EXCEPT !.error = TRUE, !.saving = "none"]

PaContinue(q) ==
    /\ q.at \notin {"sent", "allowed"}
    /\ paReqs' = paReqs \ {q}
    /\ IF q.by # PaSelf \/ paPage.at # "admin" THEN UNCHANGED paPage
       ELSE \/ \E got \in q.got :
                 \/ EndPlatform(q, got) \/ EndSetting(q, got) \/ EndUser(q, got)
                 \/ EndRevokeSessions(q, got) \/ EndProjectStatus(q, got)
            \/ q.got = {} /\ (EndFailed(q) \/ EndPlatform(q, {}))
    /\ UNCHANGED <<paServer, paLeft>>

-----------------------------------------------------------------------------
\* The upper part of the page, and the lists of users and projects.
PaAccess == PaRefresh \/ \E field \in {"login", "signup"} : SaveSetting(field)
PaDirectory == SaveProject \/ \E u \in PaUsers : SaveUser(u) \/ RevokeSessions(u)

PaNext ==
    \/ PaAccess \/ PaDirectory
    \/ \E u \in PaUsers : OtherAdmin(u) \/ SignIn(u)
    \/ \E q \in paReqs : PaServe(q) \/ PaLose(q) \/ PaContinue(q)

-----------------------------------------------------------------------------
(* Properties *)

\* "at least one active platform administrator is required": administrators who demote
\* and suspend each other at the same time, each authorized before the other's change,
\* never leave the platform without one.
LastAdminStands == ActiveAdmins # {}
=============================================================================
