------------------------------ MODULE Settings ------------------------------
(***************************************************************************)
(* The settings view of a project (ProjectSettings, WorkflowStatusList and *)
(* WorkspaceAccessPanel of components/project-workspace.tsx, and           *)
(* CustomerPageControls): its public pages and their access links, the     *)
(* viewers of a page, the order of the workflow statuses and the members'  *)
(* roles.  The server keeps only a hash of a page's token: issuing a link  *)
(* replaces the token, and the links shown before stop working.  A page    *)
(* for signed-in viewers is reached without its token.  Other managers of  *)
(* the project issue links and revoke pages too.                           *)
(*                                                                         *)
(* Requests are answered and continued in any order; was is the view as    *)
(* the closure of the handler saw it.                                      *)
(***************************************************************************)
EXTENDS Naturals, FiniteSets, FiniteSetsExt

CONSTANTS
    SePages,      \* ids of public pages
    SeStatuses,   \* ids of workflow statuses
    SeUsers,      \* members
    NoPage,
    SeScenes      \* bounds: the kinds of requests of a scene and how many of
                  \* them the user starts, how many answers are lost, what
                  \* other managers do, and the pages in login mode (excused:
                  \* the pages ListedLinksOpen makes an exception for)

(* No page has the id that stands for none, and a scene starts without an  *)
(* exception.                                                              *)
ASSUME SettingsAssumption ==
    /\ NoPage \notin SePages
    /\ \A s \in SeScenes :
         /\ DOMAIN s = {"pages", "login", "kinds", "starts", "others", "faults", "excused"}
         /\ s.excused = {}

VARIABLES
    seServer,  \* page states and tokens (other: the last one issued to another
               \* client), viewers, positions, roles
    seShown,   \* what the view shows of them
    seBusy,    \* loadingPageLinkId, revokingPageId and the savings
    seReqs,
    seLeft     \* the scene, less what happened of it

seVars == <<seServer, seShown, seBusy, seReqs, seLeft>>

SeReq(kind, arg) == [kind |-> kind, arg |-> arg, at |-> "sent", got |-> {}, was |-> {}]
SeBegin(kind) ==
    /\ kind \in seLeft.kinds /\ seLeft.starts > 0
    /\ seLeft' = [seLeft EXCEPT !.starts = @ - 1]
SeFlying(kind) == {q \in seReqs : q.kind = kind}
SeSend(qs) == seReqs' = seReqs \cup qs

\* Pages shown as active, the first of which is selected until the user chooses.
ActivePages == {p \in SePages : seShown.pages[p] = "active"}

\* Reads made when the view mounts.
SeMount(kinds) == {q \in {SeReq("pages", "all"), SeReq("roles", "all")} : q.kind \in kinds}

\* The orders a drag may leave.
Orders == {f \in [SeStatuses -> 1..Cardinality(SeStatuses)] :
             \A s, t \in SeStatuses : s # t => f[s] # f[t]}

SeInit ==
    /\ seLeft \in SeScenes
    /\ seServer = [page |-> [p \in SePages |-> IF p \in seLeft.pages THEN "active" ELSE "none"],
                    token |-> [p \in SePages |-> IF p \in seLeft.pages THEN 1 ELSE 0],
                    other |-> [p \in SePages |-> 0],
                    viewers |-> [p \in SePages |-> {}], pos |-> CHOOSE f \in Orders : TRUE,
                    role |-> [u \in SeUsers |-> "member"], invited |-> {}]
    /\ seShown = [pages |-> [p \in SePages |-> "none"], urls |-> [p \in SePages |-> 0],
                  public |-> <<NoPage, 0>>, selected |-> NoPage, viewers |-> {},
                  pos |-> seServer.pos, role |-> seServer.role, invited |-> {},
                  error |-> FALSE]
    /\ seBusy = [link |-> NoPage, revoke |-> NoPage, saving |-> FALSE, viewer |-> FALSE]
    /\ seReqs = SeMount(seLeft.kinds)

-----------------------------------------------------------------------------
(* What the user may do *)

\* savePublicPage; its checks of the slug are left out.
SavePublicPage(p) ==
    /\ seServer.page[p] = "none" /\ ~seBusy.saving
    /\ SeFlying("create") = {} /\ SeBegin("create")
    /\ seBusy' = [seBusy EXCEPT !.saving = TRUE]
    /\ SeSend({SeReq("create", p)})
    /\ seShown' = [seShown EXCEPT !.error = FALSE]
    /\ UNCHANGED seServer

\* revokePage: one at a time.
RevokePage(p) ==
    /\ p \in ActivePages /\ seBusy.revoke = NoPage /\ SeBegin("revoke")
    /\ seBusy' = [seBusy EXCEPT !.revoke = p]
    /\ SeSend({SeReq("revoke", p)})
    /\ seShown' = [seShown EXCEPT !.error = FALSE]
    /\ UNCHANGED seServer

(* Mutant of GeneratePageLink: the button is not disabled meanwhile. *)
GenerateAgain(p) ==
    /\ p \in ActivePages \ seLeft.login /\ seShown.urls[p] = 0 /\ SeBegin("link")
    /\ Cardinality(SeFlying("link")) < 2
    /\ seBusy' = seBusy
    /\ SeSend({[SeReq("link", p) EXCEPT !.was = {Cardinality(SeFlying("link"))}]})
    /\ seShown' = [seShown EXCEPT !.error = FALSE]
    /\ UNCHANGED seServer

\* generatePageLink: offered for a link-mode page while no link of it is
\* known, one at a time.
GeneratePageLink(p) ==
    /\ p \in ActivePages \ seLeft.login /\ seShown.urls[p] = 0
    /\ seBusy.link = NoPage /\ SeBegin("link")
    /\ seBusy' = [seBusy EXCEPT !.link = p]
    /\ SeSend({SeReq("link", p)})
    /\ seShown' = [seShown EXCEPT !.error = FALSE]
    /\ UNCHANGED seServer

\* Another language: loadPages and the roles are loaded again.
SeReload ==
    /\ SeFlying("pages") = {} /\ SeBegin("pages")
    /\ SeSend(SeMount(seLeft.kinds))
    /\ seShown' = [seShown EXCEPT !.error = FALSE]
    /\ UNCHANGED <<seServer, seBusy>>

\* The page whose viewers are managed; its list is loaded.
SelectPage(p) ==
    /\ p \in ActivePages /\ p # seShown.selected /\ SeBegin("viewers")
    /\ seShown' = [seShown EXCEPT !.selected = p]
    /\ SeSend({SeReq("viewers", p)})
    /\ UNCHANGED <<seServer, seBusy>>

AddViewer(u) ==
    /\ seShown.selected # NoPage /\ u \notin seShown.viewers /\ ~seBusy.viewer
    /\ SeBegin("addViewer")
    /\ seBusy' = [seBusy EXCEPT !.viewer = TRUE]
    /\ SeSend({SeReq("addViewer", <<seShown.selected, u>>)})
    /\ UNCHANGED <<seServer, seShown>>

RemoveViewer(u) ==
    /\ u \in seShown.viewers /\ SeBegin("removeViewer")
    /\ SeSend({SeReq("removeViewer", <<seShown.selected, u>>)})
    /\ UNCHANGED <<seServer, seShown, seBusy>>

\* commitOrder: shown at once, then one request for each status.  The handle
\* is not disabled while an earlier order is being saved.
CommitOrder(order) ==
    /\ order # seShown.pos /\ SeBegin("position")
    /\ seShown' = [seShown EXCEPT !.pos = order]
    /\ SeSend({[SeReq("position", <<s, order[s]>>) EXCEPT !.was = {seShown.pos}] :
                 s \in SeStatuses})
    /\ UNCHANGED <<seServer, seBusy>>

\* updateRole, createInvitation: the list follows the answer.
UpdateRole(u, r) ==
    /\ seShown.role[u] # r /\ SeBegin("role")
    /\ SeSend({SeReq("role", <<u, r>>)})
    /\ UNCHANGED <<seServer, seShown, seBusy>>
Invite(u) ==
    /\ u \notin seServer.invited /\ SeReq("invite", u) \notin seReqs /\ SeBegin("invite")
    /\ SeSend({SeReq("invite", u)})
    /\ UNCHANGED <<seServer, seShown, seBusy>>

-----------------------------------------------------------------------------
(* The server *)

SeAnswer(q, ok, s, got) ==
    /\ seServer' = IF ok THEN s ELSE seServer
    /\ seReqs' = (seReqs \ {q}) \cup
                   {[q EXCEPT !.at = IF ok THEN "ok" ELSE "refused", !.got = {got}]}

ServePages(q) == q.kind = "pages" /\ SeAnswer(q, TRUE, seServer, seServer.page)
ServeCreatePage(q) ==
    /\ q.kind = "create"
    /\ SeAnswer(q, TRUE, [seServer EXCEPT !.page[q.arg] = "active", !.token[q.arg] = 1], 1)
ServeRevoke(q) ==
    q.kind = "revoke" /\ SeAnswer(q, TRUE, [seServer EXCEPT !.page[q.arg] = "revoked"], 0)
\* Issuing a link replaces the token, but for a login page, whose link has none.
Issued(p) == seServer.token[p] + (IF p \in seLeft.login THEN 0 ELSE 1)
\* The link of a page that is not revoked.
ServeLink(q) ==
    /\ q.kind = "link"
    /\ SeAnswer(q, seServer.page[q.arg] = "active",
                [seServer EXCEPT !.token[q.arg] = Issued(q.arg)], Issued(q.arg))
ServeViewers(q) ==
    \/ q.kind = "viewers" /\ SeAnswer(q, TRUE, seServer, seServer.viewers[q.arg])
    \/ /\ q.kind = "addViewer"
       /\ SeAnswer(q, TRUE, [seServer EXCEPT !.viewers[q.arg[1]] = @ \cup {q.arg[2]}], {})
    \/ /\ q.kind = "removeViewer"
       /\ SeAnswer(q, q.arg[2] \in seServer.viewers[q.arg[1]],
                   [seServer EXCEPT !.viewers[q.arg[1]] = @ \ {q.arg[2]}], {})
ServePosition(q) ==
    q.kind = "position" /\ SeAnswer(q, TRUE, [seServer EXCEPT !.pos[q.arg[1]] = q.arg[2]], 0)
ServeRole(q) ==
    \/ q.kind = "roles" /\ SeAnswer(q, TRUE, seServer,
                                    [role |-> seServer.role, invited |-> seServer.invited])
    \/ q.kind = "role" /\ SeAnswer(q, TRUE, [seServer EXCEPT !.role[q.arg[1]] = q.arg[2]], 0)
    \/ q.kind = "invite" /\ SeAnswer(q, TRUE, [seServer EXCEPT !.invited = @ \cup {q.arg}], 0)

SeServe(q) ==
    /\ q \in seReqs /\ q.at = "sent"
    /\ \/ ServePages(q) \/ ServeCreatePage(q) \/ ServeRevoke(q) \/ ServeLink(q)
       \/ ServeViewers(q) \/ ServePosition(q) \/ ServeRole(q)
    /\ UNCHANGED <<seShown, seBusy, seLeft>>

\* Another manager issues a link of the page, or revokes it.
AnotherManager(p) ==
    /\ seLeft.others > 0 /\ seServer.page[p] = "active"
    /\ seLeft' = [seLeft EXCEPT !.others = @ - 1]
    /\ \/ seServer' = [seServer EXCEPT !.token[p] = Issued(p), !.other[p] = Issued(p)]
       \/ seServer' = [seServer EXCEPT !.page[p] = "revoked"]
    /\ UNCHANGED <<seShown, seBusy, seReqs>>

\* A request or its answer is lost.
SeLose(q) ==
    /\ q \in seReqs /\ q.at \in {"sent", "ok"} /\ seLeft.faults > 0
    /\ seLeft' = [seLeft EXCEPT !.faults = @ - 1]
    /\ seReqs' = (seReqs \ {q}) \cup {[q EXCEPT !.at = "lost", !.got = {}]}
    /\ UNCHANGED <<seServer, seShown, seBusy>>

-----------------------------------------------------------------------------
(* The continuations *)

\* The handler ends with shown on success and a notice on failure, which
\* viewers report by a toast only.
SeEnds(q, shown, busy) ==
    /\ seShown' = IF q.at = "ok" THEN shown
                  ELSE IF q.kind \in {"viewers", "addViewer", "removeViewer"} THEN seShown
                  ELSE [seShown EXCEPT !.error = TRUE]
    /\ seBusy' = busy
    /\ seReqs' = seReqs \ {q}

\* loadPages; CustomerPageControls falls back on the first active page.
EndPages(q) ==
    /\ q.kind = "pages"
    /\ \/ q.at # "ok" /\ SeEnds(q, seShown, seBusy) /\ UNCHANGED seLeft
       \/ \E got \in q.got :
            /\ SeEnds(q, [seShown EXCEPT !.pages = got], seBusy)
            /\ seLeft' = [seLeft EXCEPT !.excused =
                            @ \cup {p \in SePages : got[p] = "active" /\
                                      \E c \in SeFlying("create") : c.arg = p}]

EndCreatePage(q) ==
    /\ q.kind = "create"
    /\ SeEnds(q, [seShown EXCEPT !.pages[q.arg] = "active", !.urls[q.arg] = 1,
                                 !.public = <<q.arg, 1>>],
              [seBusy EXCEPT !.saving = FALSE])

\* The page and its link leave the list; publicUrl stays.
EndRevoke(q) ==
    /\ q.kind = "revoke"
    /\ SeEnds(q, [seShown EXCEPT !.pages[q.arg] = "revoked", !.urls[q.arg] = 0],
              [seBusy EXCEPT !.revoke = NoPage])

EndLink(q) ==
    /\ q.kind = "link"
    /\ SeEnds(q, [seShown EXCEPT !.urls[q.arg] = Max(q.got \cup {0}),
                                 !.public = <<q.arg, Max(q.got \cup {0})>>],
              [seBusy EXCEPT !.link = NoPage])

\* The lists of whichever page is selected by then.
EndViewers(q) ==
    \/ q.kind = "viewers" /\ SeEnds(q, [seShown EXCEPT !.viewers = UNION q.got], seBusy)
    \/ /\ q.kind = "addViewer"
       /\ SeEnds(q, [seShown EXCEPT !.viewers = @ \cup {q.arg[2]}],
                 [seBusy EXCEPT !.viewer = FALSE])
    \/ /\ q.kind = "removeViewer"
       /\ SeEnds(q, [seShown EXCEPT !.viewers = @ \ {q.arg[2]}], seBusy)

\* Promise.all: the first failure puts the previous order back and nobody
\* waits for the others.
EndPosition(q) ==
    /\ q.kind = "position"
    /\ IF q.at = "ok" \/ q.was = {} THEN seReqs' = seReqs \ {q} /\ UNCHANGED seShown
       ELSE /\ \E before \in q.was : seShown' = [seShown EXCEPT !.pos = before, !.error = TRUE]
            /\ seReqs' = {IF r.kind = "position" /\ r.was = q.was
                          THEN [r EXCEPT !.was = {}] ELSE r : r \in seReqs \ {q}}
    /\ UNCHANGED seBusy

EndRole(q) ==
    \/ /\ q.kind = "roles"
       /\ \/ q.at # "ok" /\ SeEnds(q, seShown, seBusy)
          \/ \E got \in q.got :
               SeEnds(q, [seShown EXCEPT !.role = got.role, !.invited = got.invited], seBusy)
    \/ q.kind = "role" /\ SeEnds(q, [seShown EXCEPT !.role[q.arg[1]] = q.arg[2]], seBusy)
    \/ q.kind = "invite" /\ SeEnds(q, [seShown EXCEPT !.invited = @ \cup {q.arg}], seBusy)

SeContinue(q) ==
    /\ q \in seReqs /\ q.at # "sent"
    /\ \/ EndPages(q)
       \/ /\ \/ EndCreatePage(q) \/ EndRevoke(q) \/ EndLink(q)
             \/ EndViewers(q) \/ EndPosition(q) \/ EndRole(q)
          /\ UNCHANGED seLeft
    /\ UNCHANGED seServer

-----------------------------------------------------------------------------
SeUser ==
    \/ \E p \in SePages : \/ SavePublicPage(p) \/ RevokePage(p) \/ GeneratePageLink(p)
                          \/ SelectPage(p)
    \/ SeReload
    \/ \E u \in SeUsers : \/ AddViewer(u) \/ RemoveViewer(u) \/ Invite(u)
                          \/ \E r \in {"member", "admin"} : UpdateRole(u, r)
    \/ \E order \in Orders : CommitOrder(order)

SeNext ==
    \/ SeUser
    \/ \E p \in SePages : AnotherManager(p)
    \/ \E q \in seReqs : SeServe(q) \/ SeLose(q) \/ SeContinue(q)

-----------------------------------------------------------------------------
(* Properties *)

\* A link shown for a page the server still serves carries the page's token,
\* though creating, issuing and revoking overlap with each other, with reloads
\* and with other managers, and every issued link ends the earlier ones.
\* Excepted are a page that was listed, and may have got a new link, before
\* the answer to its creation brought the first one, and a link issued before
\* another manager issued one: nothing tells the view, and the button for a new
\* link is gone while one is shown.
ListedLinksOpen ==
    \A p \in ActivePages :
      \/ seShown.urls[p] = 0 \/ SeFlying("link") # {} \/ p \in seLeft.excused
      \/ seShown.urls[p] < seServer.other[p]
      \/ seServer.page[p] = "active" => seServer.token[p] = seShown.urls[p]

=============================================================================
