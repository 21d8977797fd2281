---------------------------- MODULE Integrations ----------------------------
(***************************************************************************)
(* The integrations view of a project (IntegrationsView of                 *)
(* components/project-workspace.tsx with SyncConflictPanel,                *)
(* GitAssigneeMappings, GitConnectionDialog and SyncActivity): the         *)
(* connection of the project, the repositories it offers, imports,         *)
(* conflicts and user mappings, each loaded and written by requests of     *)
(* their own that nothing cancels.                                         *)
(*                                                                         *)
(* A request is sent, answered by the server and ended by the continuation *)
(* of the handler, which still sees the props and state of the render it   *)
(* was started in: was.  Every connection offers one repository, named     *)
(* like it.                                                                *)
(***************************************************************************)
EXTENDS Naturals, FiniteSets

CONSTANTS
    IgConnections,     \* ids of connections and of their repositories
    IgConflicts,       \* ids of conflicts
    AssigneeConflict,  \* the one whose local value needs a user mapping
    IgLogins,          \* provider logins
    NoConnection,      \* the empty selection
    IgScenes           \* bounds: what the server holds at first, and how many
                       \* writes, foreign changes and failures there are of
                       \* which kinds of requests

VARIABLES
    igServer,  \* the project's connection and version, and the tenant's rows; with
               \* what properties except: the connections taken away since they
               \* were chosen (gone), the one the project has of an import (lent),
               \* the version that another client wrote last (other)
    igShown,   \* what the view shows of it, its notices and its selection
    igBusy,    \* the ids of the writes whose buttons are disabled
    igDialog,  \* the step of the connection dialog, 0 while it is closed
    igReqs,
    igLeft     \* the scene, less what happened of it

igVars == <<igServer, igShown, igBusy, igDialog, igReqs, igLeft>>

IgIdle == [import |-> NoConnection, detach |-> NoConnection, resolve |-> NoConnection,
           saving |-> FALSE]

\* Polls and loads see nothing of the render, writes and their closures all.
IgReq(kind, arg) ==
    [kind |-> kind, arg |-> arg, at |-> "sent", got |-> {}, was |-> {}]
IgWrite(kind, arg) == [IgReq(kind, arg) EXCEPT !.was = {igShown}]

IgSpend(k) == igLeft[k] > 0 /\ igLeft' = [igLeft EXCEPT ![k] = @ - 1]
IgBegin(kind) == kind \in igLeft.kinds /\ IgSpend("writes")
IgFlying(kind) == Cardinality({q \in igReqs : q.kind = kind})

\* repositories, conflicts, mappings: loadRepositories, loadConflicts and
\* loadMappings run when the view mounts.
IgMount(picked, kinds) ==
    {q \in {IgReq("repos", picked), IgReq("conflicts", "all"), IgReq("mappings", "all")} :
       q.kind \in kinds}

IgInit ==
    /\ igLeft \in IgScenes
    /\ igServer = [conn |-> igLeft.conn, ver |-> 1, conns |-> igLeft.conns, attached |-> {},
                   running |-> {}, mapped |-> {}, gone |-> {}, lent |-> {}, other |-> 0,
                   open |-> IF "conflicts" \in igLeft.kinds THEN IgConflicts ELSE {},
                   allowed |-> igLeft.allowed]
    /\ igShown = [conn |-> igLeft.conn, ver |-> 1, picked |-> igLeft.conn,
                  conns |-> igLeft.conns, repos |-> NoConnection, attached |-> {},
                  running |-> {}, open |-> {}, mapped |-> {},
                  noConflicts |-> FALSE, noMappings |-> FALSE,
                  alert |-> FALSE, error |-> FALSE]
    /\ igBusy = IgIdle /\ igDialog = 0
    /\ igReqs = IgMount(igLeft.conn, igLeft.kinds)

-----------------------------------------------------------------------------
(* What the user may do *)

\* The effect on [connections, project.connectionId]: the selection follows the
\* project, and a new selection loads its repositories.
Follow(shown) == [shown EXCEPT !.picked = shown.conn]
Reloads(shown) ==
    IF "repos" \in igLeft.kinds /\ shown.picked # igShown.picked THEN {IgReq("repos", shown.picked)} ELSE {}

\* handleProjectConnectionChange: shown at once, under the version in the
\* closure the call was made from.
ChangeConnection(c, shown, was) ==
    [show |-> [shown EXCEPT !.conn = c, !.picked = c],
     req |-> [IgReq("project", c) EXCEPT !.was = {was}]]

SelectConnection(c) ==
    /\ c \in igShown.conns \cup {NoConnection} /\ c # igShown.picked
    /\ IgBegin("project")
    /\ LET change == ChangeConnection(c, [igShown EXCEPT !.repos = NoConnection], igShown)
       IN  /\ igShown' = change.show
           /\ igReqs' = igReqs \cup {change.req} \cup Reloads(change.show)
    /\ UNCHANGED <<igServer, igBusy, igDialog>>

\* The refresh button and the retry of the notice.
RefreshRepositories ==
    /\ "repos" \in igLeft.kinds /\ IgFlying("repos") < 2 /\ igShown.error
    /\ igReqs' = igReqs \cup {IgReq("repos", igShown.picked)}
    /\ UNCHANGED <<igServer, igShown, igBusy, igDialog, igLeft>>

ImportRunning(r) == igBusy.import = r \/ r \in igShown.running

\* attachAndImport up to its first await.
AttachAndImport(r) ==
    /\ r = igShown.repos /\ r # NoConnection
    /\ igBusy.import = NoConnection /\ ~ImportRunning(r)
    /\ IgBegin("attach")
    /\ igBusy' = [igBusy EXCEPT !.import = r]
    /\ igShown' = [igShown EXCEPT !.error = FALSE]
    /\ igReqs' = igReqs \cup
         {IgReq(IF r \in igShown.attached THEN "import" ELSE "attach", r)}
    /\ UNCHANGED <<igServer, igDialog>>

DetachRepository(r) ==
    /\ r = igShown.repos /\ r \in igShown.attached
    /\ igBusy.detach = NoConnection /\ ~ImportRunning(r)
    /\ IgBegin("detach")
    /\ igBusy' = [igBusy EXCEPT !.detach = r]
    /\ igShown' = [igShown EXCEPT !.error = FALSE]
    /\ igReqs' = igReqs \cup {IgReq("detach", r)}
    /\ UNCHANGED <<igServer, igDialog>>

Disconnect(c) ==
    /\ c \in igShown.conns /\ IgBegin("disconnect")
    /\ igShown' = [igShown EXCEPT !.error = FALSE]
    /\ igReqs' = igReqs \cup {IgWrite("disconnect", c)}
    /\ UNCHANGED <<igServer, igBusy, igDialog>>

\* The three buttons of a conflict; "local" and "remote" keep a side.
ResolveConflict(k, side) ==
    /\ k \in igShown.open /\ ~igShown.noConflicts /\ igBusy.resolve # k
    /\ IgBegin("resolve")
    /\ igBusy' = [igBusy EXCEPT !.resolve = k]
    /\ igReqs' = igReqs \cup {IgReq("resolve", <<k, side>>)}
    /\ UNCHANGED <<igServer, igShown, igDialog>>

SaveMapping(u) ==
    /\ ~igShown.noMappings /\ ~igBusy.saving /\ IgBegin("map")
    /\ igBusy' = [igBusy EXCEPT !.saving = TRUE]
    /\ igReqs' = igReqs \cup {IgReq("map", u)}
    /\ UNCHANGED <<igServer, igShown, igDialog>>

RemoveMapping(u) ==
    /\ ~igShown.noMappings /\ u \in igShown.mapped
    /\ IgReq("unmap", u) \notin igReqs /\ IgBegin("unmap")
    /\ igReqs' = igReqs \cup {IgReq("unmap", u)}
    /\ UNCHANGED <<igServer, igShown, igBusy, igDialog>>

-----------------------------------------------------------------------------
(* The dialog that adds a connection: provider, instructions, credentials *)

OpenConnectionDialog ==
    /\ "connect" \in igLeft.kinds /\ igDialog = 0 /\ igDialog' = 1
    /\ UNCHANGED <<igServer, igShown, igBusy, igReqs, igLeft>>

GoForward ==
    /\ igDialog \in {1, 2} /\ igDialog' = igDialog + 1
    /\ UNCHANGED <<igServer, igShown, igBusy, igReqs, igLeft>>

\* Back from the first step closes the dialog.
GoBack ==
    /\ igDialog > 0 /\ igDialog' = igDialog - 1
    /\ UNCHANGED <<igServer, igShown, igBusy, igReqs, igLeft>>

SubmitConnection(c) ==
    /\ igDialog = 3 /\ c \notin igServer.conns
    /\ IgFlying("connect") = 0 /\ IgBegin("connect")
    /\ igReqs' = igReqs \cup {IgWrite("connect", c)}
    /\ UNCHANGED <<igServer, igShown, igBusy, igDialog>>

-----------------------------------------------------------------------------
(* The server *)

\* q is accepted: the server becomes s and the answer carries got.
Accept(q, s, got) ==
    /\ igServer' = s
    /\ igReqs' = (igReqs \ {q}) \cup {[q EXCEPT !.at = "ok", !.got = got]}
Refuse(q) ==
    /\ igReqs' = (igReqs \ {q}) \cup {[q EXCEPT !.at = "refused"]}
    /\ UNCHANGED igServer
Decide(q, ok, s, got) == IF ok THEN Accept(q, s, got) ELSE Refuse(q)

\* Both requests of loadRepositories: nothing comes of a connection that is gone,
\* neither its repository nor the link to it.
ServeRepositories(q) ==
    /\ q.kind = "repos"
    /\ Accept(q, igServer, {[repos |-> IF q.arg \in igServer.conns THEN q.arg ELSE NoConnection,
                             attached |-> igServer.attached \cap igServer.conns]})
ServeConflicts(q) ==
    q.kind = "conflicts" /\ Decide(q, igServer.allowed, igServer, igServer.open)
ServeMappings(q) ==
    q.kind = "mappings" /\ Decide(q, igServer.allowed, igServer, igServer.mapped)
ServeRuns(q) == q.kind = "runs" /\ Accept(q, igServer, igServer.running)

\* updateProject: only under the version the row still has, and to a connection
\* that is there and has every attached repository.
Choosable(c) == c \in igServer.conns \cup {NoConnection} /\ igServer.attached \subseteq {c}
Chosen(c) == [igServer EXCEPT !.conn = c, !.ver = @ + 1, !.gone = @ \ {c}, !.lent = {}]
ServeProject(q) ==
    /\ q.kind = "project"
    /\ IF Choosable(q.arg) /\ \A w \in q.was : w.ver = igServer.ver
       THEN /\ igServer' = Chosen(q.arg)
            /\ igReqs' = (igReqs \ {q}) \cup {[q EXCEPT !.at = "written"]}
       ELSE Refuse(q)
\* The answer is the row as a second statement reads it.
ReadProject(q) ==
    /\ q.kind = "project"
    /\ Accept(q, igServer, {[conn |-> igServer.conn, ver |-> igServer.ver]})
ServeConnect(q) ==
    q.kind = "connect" /\ Accept(q, [igServer EXCEPT !.conns = @ \cup {q.arg}], {})
\* Deactivating a connection takes it from its projects, their version stays.
Disconnected(c) ==
    [igServer EXCEPT !.conns = @ \ {c}, !.conn = IF @ = c THEN NoConnection ELSE @,
                     !.gone = @ \cup {c}, !.lent = @ \ {c}]
ServeDisconnect(q) ==
    q.kind = "disconnect" /\ Decide(q, q.arg \in igServer.conns, Disconnected(q.arg), {})
\* A project without a connection takes the repository's, its version stays.
Attachable(c) == c \in igServer.conns /\ igServer.conn \in {NoConnection, c}
Attached(c) ==
    [igServer EXCEPT !.attached = @ \cup {c}, !.conn = c, !.gone = @ \ {c},
                     !.lent = IF igServer.conn = c THEN @ ELSE {c}]
ServeAttach(q) == q.kind = "attach" /\ Decide(q, Attachable(q.arg), Attached(q.arg), {})
ServeDetach(q) ==
    /\ q.kind = "detach"
    /\ Decide(q, q.arg \in igServer.attached,
              [igServer EXCEPT !.attached = @ \ {q.arg}], {})
ServeImport(q) ==
    /\ q.kind = "import"
    /\ Decide(q, q.arg \in (igServer.attached \cap igServer.conns) \ igServer.running,
              [igServer EXCEPT !.running = @ \cup {q.arg}], {})
ServeResolve(q) ==
    /\ q.kind = "resolve"
    /\ Decide(q, /\ q.arg[1] \in igServer.open
                 /\ q.arg = <<AssigneeConflict, "local">> => igServer.mapped # {},
              [igServer EXCEPT !.open = @ \ {q.arg[1]}], {})
ServeMapping(q) ==
    \/ q.kind = "map" /\ Accept(q, [igServer EXCEPT !.mapped = @ \cup {q.arg}], {})
    \/ q.kind = "unmap" /\ Decide(q, q.arg \in igServer.mapped,
                                  [igServer EXCEPT !.mapped = @ \ {q.arg}], {})

IgServe(q) ==
    /\ q \in igReqs
    /\ \/ /\ q.at = "sent"
          /\ \/ ServeRepositories(q) \/ ServeConflicts(q) \/ ServeMappings(q) \/ ServeRuns(q)
             \/ ServeProject(q) \/ ServeConnect(q) \/ ServeDisconnect(q) \/ ServeAttach(q)
             \/ ServeDetach(q) \/ ServeImport(q) \/ ServeResolve(q) \/ ServeMapping(q)
       \/ q.at = "written" /\ ReadProject(q)
    /\ UNCHANGED <<igShown, igBusy, igDialog, igLeft>>

\* The request never arrives, or its answer does not.
IgLose(q) ==
    /\ q \in igReqs /\ q.at \in {"sent", "written", "ok"} /\ IgSpend("faults")
    /\ igReqs' = (igReqs \ {q}) \cup {[q EXCEPT !.at = "lost", !.got = {}]}
    /\ UNCHANGED <<igServer, igShown, igBusy, igDialog>>

\* The worker ends an import and meets a conflict.
ImportEnds(r) ==
    /\ r \in igServer.running
    /\ igServer' = [igServer EXCEPT !.running = @ \ {r}]
    /\ UNCHANGED <<igShown, igBusy, igDialog, igReqs, igLeft>>
ConflictOpens(k) ==
    /\ "conflicts" \in igLeft.kinds /\ k \notin igServer.open /\ IgSpend("others")
    /\ igServer' = [igServer EXCEPT !.open = @ \cup {k}]
    /\ UNCHANGED <<igShown, igBusy, igDialog, igReqs>>

\* Another client of the project chooses a connection, takes one away or attaches
\* a repository; nothing tells the view.
AnotherClient(c) ==
    /\ "project" \in igLeft.kinds /\ IgSpend("others")
    /\ \/ Choosable(c) /\ igServer' = [Chosen(c) EXCEPT !.other = igServer.ver + 1]
       \/ c \in igServer.conns /\ igServer' = Disconnected(c)
       \/ Attachable(c) /\ igServer' = Attached(c)
    /\ UNCHANGED <<igShown, igBusy, igDialog, igReqs>>

-----------------------------------------------------------------------------
(* The continuations *)

IgDone(q, shown, busy, more) ==
    /\ igShown' = shown /\ igBusy' = busy
    /\ igReqs' = (igReqs \ {q}) \cup more

\* The answer's list is shown whatever is selected by then.
EndRepositories(q) ==
    /\ q.kind = "repos"
    /\ LET shown == IF q.at # "ok" THEN {[igShown EXCEPT !.error = TRUE]}
                    ELSE {[igShown EXCEPT !.repos = a.repos, !.attached = a.attached] : a \in q.got}
       IN  \E s \in shown : IgDone(q, s, igBusy, {})
EndConflicts(q) ==
    /\ q.kind = "conflicts"
    /\ IgDone(q, IF q.at = "ok" THEN [igShown EXCEPT !.open = q.got]
                 ELSE [igShown EXCEPT !.noConflicts = @ \/ q.at = "refused"], igBusy, {})
EndMappings(q) ==
    /\ q.kind = "mappings"
    /\ IgDone(q, IF q.at = "ok" THEN [igShown EXCEPT !.mapped = q.got]
                 ELSE [igShown EXCEPT !.noMappings = q.at = "refused"], igBusy, {})
EndRuns(q) ==
    /\ q.kind = "runs"
    /\ IgDone(q, IF q.at = "ok" THEN [igShown EXCEPT !.running = q.got] ELSE igShown, igBusy,
              IF q.arg = "refresh" /\ ~igShown.noConflicts THEN {IgReq("conflicts", "all")}
                                                          ELSE {})

Shows(row) == [igShown EXCEPT !.conn = row.conn, !.ver = row.ver]

(* Mutant of EndProject: no notice. *)
EndProjectSilently(q) ==
    /\ q.kind = "project"
    /\ \E w \in q.was :
         IgDone(q, IF q.at = "ok"
                   THEN Shows(CHOOSE row \in q.got : TRUE)
                   ELSE Follow(Shows(w)), igBusy, {})

\* The row of the answer, or the project of the closure and a notice.
EndProject(q) ==
    /\ q.kind = "project"
    /\ \E w \in q.was :
         LET shown == IF q.at = "ok"
                      THEN Shows(CHOOSE row \in q.got : TRUE)
                      ELSE [Shows(w) EXCEPT !.alert = TRUE]
             now == IF shown.conn # igShown.conn THEN Follow(shown) ELSE shown
         IN  IgDone(q, now, igBusy, Reloads(now))

\* handleConnectionCreated: the first connection becomes the project's.
EndConnect(q) ==
    /\ q.kind = "connect" /\ igBusy' = igBusy
    /\ IF q.at # "ok"
       THEN igReqs' = igReqs \ {q} /\ UNCHANGED <<igShown, igDialog>>
       ELSE \E w \in q.was :
              LET with == Follow([igShown EXCEPT !.conns = w.conns \cup {q.arg},
                                                 !.error = FALSE])
                  change == ChangeConnection(q.arg, [with EXCEPT !.repos = NoConnection], w)
                  next == IF w.conn = NoConnection THEN change.show ELSE with
              IN  /\ igShown' = next /\ igDialog' = 0
                  /\ igReqs' = (igReqs \ {q}) \cup Reloads(next) \cup
                       (IF w.conn = NoConnection THEN {change.req} ELSE {})

EndDisconnect(q) ==
    /\ q.kind = "disconnect"
    /\ \E w \in q.was :
         LET without == Follow([igShown EXCEPT !.conns = w.conns \ {q.arg}])
             change == ChangeConnection(NoConnection, without, w)
         IN  IF q.at # "ok" THEN IgDone(q, [igShown EXCEPT !.error = TRUE], igBusy, {})
             ELSE IF w.picked # q.arg THEN IgDone(q, without, igBusy, Reloads(without))
             ELSE IgDone(q, change.show, igBusy, {change.req} \cup Reloads(change.show))

\* The rest of attachAndImport: an attached repository is imported.
EndAttach(q) ==
    /\ q.kind = "attach"
    /\ IF q.at = "ok"
       THEN IgDone(q, [igShown EXCEPT !.attached = @ \cup {q.arg}], igBusy,
                   {IgReq("import", q.arg)})
       ELSE IgDone(q, [igShown EXCEPT !.error = TRUE],
                   [igBusy EXCEPT !.import = NoConnection], {})
EndImport(q) ==
    /\ q.kind = "import"
    /\ IgDone(q, [igShown EXCEPT !.error = q.at # "ok"],
              [igBusy EXCEPT !.import = NoConnection],
              IF q.at = "ok" /\ "runs" \in igLeft.kinds THEN {IgReq("runs", "all")} ELSE {})
EndDetach(q) ==
    /\ q.kind = "detach"
    /\ IgDone(q, IF q.at = "ok" THEN [igShown EXCEPT !.attached = @ \ {q.arg}]
                               ELSE [igShown EXCEPT !.error = TRUE],
              [igBusy EXCEPT !.detach = NoConnection], {})

\* A resolved conflict leaves the list, which is then loaded again (as are the
\* runs and the tasks, which this view's properties do not need).
EndResolve(q) ==
    /\ q.kind = "resolve"
    /\ IgDone(q, IF q.at = "ok" THEN [igShown EXCEPT !.open = @ \ {q.arg[1]}] ELSE igShown,
              [igBusy EXCEPT !.resolve = NoConnection],
              IF q.at = "ok" THEN {IgReq("conflicts", "all")} ELSE {})
EndMapping(q) ==
    \/ /\ q.kind = "map"
       /\ IgDone(q, IF q.at = "ok" THEN [igShown EXCEPT !.mapped = @ \cup {q.arg}] ELSE igShown,
                 [igBusy EXCEPT !.saving = FALSE], {})
    \/ /\ q.kind = "unmap"
       /\ IgDone(q, IF q.at = "ok" THEN [igShown EXCEPT !.mapped = @ \ {q.arg}] ELSE igShown,
                 igBusy, {})

IgContinue(q) ==
    /\ q \in igReqs /\ q.at \notin {"sent", "written"}
    /\ \/ EndConnect(q)
       \/ /\ \/ EndRepositories(q) \/ EndConflicts(q) \/ EndMappings(q) \/ EndRuns(q)
             \/ EndProject(q) \/ EndDisconnect(q) \/ EndAttach(q) \/ EndImport(q)
             \/ EndDetach(q) \/ EndResolve(q) \/ EndMapping(q)
          /\ UNCHANGED igDialog
    /\ UNCHANGED <<igServer, igLeft>>

\* The refresh of the activity list: the runs, and then the conflicts.
RefreshActivity ==
    /\ {"runs", "conflicts"} \subseteq igLeft.kinds /\ IgFlying("runs") = 0
    /\ IgSpend("writes")
    /\ igReqs' = igReqs \cup {IgReq("runs", "refresh")}
    /\ UNCHANGED <<igServer, igShown, igBusy, igDialog>>

\* The two intervals of three seconds; the conflicts' one stops for good when
\* the user may not see them.
PollConflicts ==
    /\ "conflicts" \in igLeft.kinds /\ ~igShown.noConflicts /\ IgFlying("conflicts") < 2
    /\ igReqs' = igReqs \cup {IgReq("conflicts", "all")}
    /\ UNCHANGED <<igServer, igShown, igBusy, igDialog, igLeft>>
PollRuns ==
    /\ "runs" \in igLeft.kinds /\ IgFlying("runs") = 0
    /\ igReqs' = igReqs \cup {IgReq("runs", "all")}
    /\ UNCHANGED <<igServer, igShown, igBusy, igDialog, igLeft>>

-----------------------------------------------------------------------------
IgUser ==
    \/ \E c \in IgConnections \cup {NoConnection} :
         \/ SelectConnection(c) \/ AttachAndImport(c) \/ DetachRepository(c)
         \/ Disconnect(c) \/ SubmitConnection(c)
    \/ RefreshRepositories \/ RefreshActivity \/ OpenConnectionDialog \/ GoForward \/ GoBack
    \/ \E k \in IgConflicts, side \in {"local", "other"} : ResolveConflict(k, side)
    \/ \E u \in IgLogins : SaveMapping(u) \/ RemoveMapping(u)

IgServes(kinds) == \E q \in igReqs : q.kind \in kinds /\ IgServe(q)
IgEnds(kinds) == \E q \in igReqs : q.kind \in kinds /\ IgContinue(q)
IgPolled == {"conflicts", "runs"}
IgOthers == {"repos", "mappings", "project", "connect", "disconnect", "attach", "import",
             "detach", "resolve", "map", "unmap"}

IgNext ==
    \/ IgUser \/ PollConflicts \/ PollRuns
    \/ IgServes(IgPolled \cup IgOthers) \/ IgEnds(IgPolled \cup IgOthers)
    \/ \E q \in igReqs : IgLose(q)
    \/ \E r \in IgConnections : ImportEnds(r)
    \/ \E c \in IgConnections \cup {NoConnection} : AnotherClient(c)
    \/ \E k \in IgConflicts : ConflictOpens(k)

-----------------------------------------------------------------------------
(* Properties *)

\* handleProjectConnectionChange writes under the version of a closure and
\* rolls back to its project.  With no change in flight and no notice on the
\* screen the connection shown is the one the server has, however many changes,
\* disconnections and imports overlapped, here and in other clients, and whichever
\* answers were lost.  Three ways around it are excepted, for the view never reads
\* the project again: another client wrote the project after the version that is
\* shown; a connection shown may have been taken away since it was chosen
\* (connecting the account again brings it back, and not to the project); and
\* importing a repository gives a project without connection one that the view
\* does not learn of.
ConnectionAgrees ==
    \/ \E q \in igReqs : q.kind = "project"
    \/ igShown.alert
    \/ igShown.conn = igServer.conn
    \/ igShown.ver < igServer.other
    \/ igShown.conn \in igServer.gone
    \/ igShown.conn = NoConnection /\ igServer.conn \in igServer.lent

=============================================================================
