------------------------------ MODULE MCClient ------------------------------
(***************************************************************************)
(* The clients of the API, in one instance for TLC: the pages of the       *)
(* frontend and the providers that call the webhooks.  They share nothing  *)
(* but the server, of which each module has the part its client needs, so  *)
(* a behaviour is of one client: part names it, and the others stay as     *)
(* they were mounted.                                                      *)
(***************************************************************************)
EXTENDS Workspace, KanbanBoard, Integrations, Settings, RequestInbox,
        PlatformAdmin, PublicPage, WebhookIntake, TLC

VARIABLE part

Parts == {"workspace", "board", "integrations", "settings", "requests",
          "platform", "public", "webhooks"}

(* The scenes: in each, a few kinds of requests meet. *)

MCOrder == <<"t1", "t2", "m1">>
WsScene(v, stored, loads, writes, others, faults) ==
    [view |-> v, stored |-> stored, loads |-> loads, writes |-> writes,
     others |-> others, faults |-> faults]
MCWsScenes ==
    {WsScene("tasks", {"t1"}, 0, 2, 0, 0),
     WsScene("tasks", {"t1"}, 1, 0, 1, 1),
     WsScene("tasks", {"t1"}, 0, 1, 1, 1),
     WsScene("tasks", {"t1"}, 1, 1, 0, 1),
     WsScene("roadmap", {"t1", "m1"}, 0, 1, 0, 1),
     WsScene("roadmap", {"t1"}, 0, 1, 0, 0)}

MCCardOrder == <<"k1", "k2">>

IgScene(conn, conns, allowed, kinds, writes, others, faults) ==
    [conn |-> conn, conns |-> conns, allowed |-> allowed, kinds |-> kinds,
     writes |-> writes, others |-> others, faults |-> faults]
MCIgScenes ==
    {IgScene("c1", {"c1", "c2"}, TRUE, {"repos", "project", "disconnect"}, 2, 0, 0),
     IgScene("none", {}, TRUE, {"repos", "connect", "project"}, 2, 0, 0),
     IgScene("none", {}, TRUE, {"connect"}, 1, 0, 1),
     IgScene("c1", {"c1"}, TRUE, {"repos", "runs", "attach", "detach"}, 2, 0, 1),
     IgScene("c1", {"c1"}, TRUE, {"conflicts", "mappings", "resolve", "map", "unmap", "runs"}, 3, 1, 0),
     IgScene("c1", {"c1"}, FALSE, {"conflicts", "mappings", "map"}, 1, 0, 1),
     IgScene("c1", {"c1", "c2"}, TRUE, {"project"}, 2, 0, 1),
     IgScene("c1", {"c1", "c2"}, TRUE, {"project", "attach", "repos"}, 1, 2, 0),
     IgScene("none", {"c1"}, TRUE, {"project", "connect"}, 2, 1, 0)}

SeScene(pages, login, kinds, starts, others, faults) ==
    [pages |-> pages, login |-> login, kinds |-> kinds, starts |-> starts,
     others |-> others, faults |-> faults, excused |-> {}]
MCSeScenes ==
    {SeScene({"p1"}, {}, {"pages", "create", "revoke", "link"}, 4, 0, 1),
     SeScene({"p1"}, {}, {"pages", "create", "link"}, 3, 2, 0),
     SeScene({}, {"p2"}, {"pages", "create", "link", "revoke"}, 3, 1, 0),
     SeScene({"p1", "p2"}, {}, {"pages", "viewers", "addViewer", "removeViewer"}, 3, 0, 0),
     SeScene({}, {}, {"position"}, 2, 0, 1),
     SeScene({}, {}, {"roles", "role", "invite"}, 2, 0, 1)}

MCTitleKey == [r \in IbRequests |-> r]
IbScene(starts, others, faults) == [starts |-> starts, others |-> others, faults |-> faults]
MCIbScenes == {IbScene(2, 1, 0), IbScene(1, 2, 0), IbScene(2, 0, 1)}

PaScene(admins, suspended, kinds, starts, others, faults) ==
    [admins |-> admins, suspended |-> suspended, kinds |-> kinds, starts |-> starts,
     others |-> others, faults |-> faults]
MCPaScenes ==
    {PaScene({"a", "b"}, {}, {"suspended", "admin", "revoke"}, 1, 2, 0),
     PaScene({"a"}, {}, {"admin", "suspended"}, 2, 1, 0),
     PaScene({"a", "b"}, {"b"}, {"load", "suspended", "revoke"}, 2, 0, 0),
     PaScene({"a"}, {}, {"project", "suspended", "login", "signup"}, 2, 0, 1),
     PaScene({"a", "b"}, {}, {"load"}, 1, 2, 0)}

PpScene(mode, signed, notes, kinds, starts, others, faults) ==
    [mode |-> mode, signed |-> signed, notes |-> notes, kinds |-> kinds,
     starts |-> starts, others |-> others, faults |-> faults]
MCPpScenes ==
    {PpScene("login", TRUE, {"n1", "n2"}, {"bell", "remove", "clear"}, 3, 1, 0),
     PpScene("login", TRUE, {"n1", "n2"}, {"bell", "mark", "remove"}, 3, 0, 1),
     PpScene("login", FALSE, {"n1"}, {"page", "login"}, 3, 1, 1),
     PpScene("link", FALSE, {}, {"request", "page"}, 4, 1, 1)}

MCDelivery == [r \in WhRequests |-> "d"]
WhScene(provider, git, global, errors, faults, changes) ==
    [provider |-> provider, git |-> git, global |-> global,
     errors |-> errors, faults |-> faults, changes |-> changes]
MCWhScenes ==
    {WhScene("github", "attached", FALSE, 2, 0, 0), WhScene("github", "none", TRUE, 1, 0, 1),
     WhScene("gitlab", "attached", FALSE, 1, 1, 0), WhScene("gitlab", "connected", FALSE, 1, 0, 2)}

-----------------------------------------------------------------------------
(* A client that is not the one looked at keeps one of its initial states. *)
Still(p, choice, scenes) == IF part = p THEN TRUE ELSE choice = CHOOSE s \in scenes : TRUE

Init ==
    /\ part \in Parts
    /\ Still("workspace", left, WsScenes) /\ WsInit
    /\ Still("board", kbTasks, [Cards -> Columns]) /\ KbInit
    /\ Still("integrations", igLeft, IgScenes) /\ IgInit
    /\ Still("settings", seLeft, SeScenes) /\ SeInit
    /\ Still("requests", ibLeft, IbScenes) /\ IbInit
    /\ Still("platform", paLeft, PaScenes) /\ PaInit
    /\ Still("public", ppLeft, PpScenes) /\ PpInit
    /\ Still("webhooks", whLeft, WhScenes) /\ WhInit

Next ==
    \/ /\ part = "workspace" /\ WsNext
       /\ UNCHANGED <<part, kbVars, igVars, seVars, ibVars, paVars, ppVars, whVars>>
    \/ /\ part = "board" /\ KbNext
       /\ UNCHANGED <<part, wsVars, igVars, seVars, ibVars, paVars, ppVars, whVars>>
    \/ /\ part = "integrations" /\ IgNext
       /\ UNCHANGED <<part, wsVars, kbVars, seVars, ibVars, paVars, ppVars, whVars>>
    \/ /\ part = "settings" /\ SeNext
       /\ UNCHANGED <<part, wsVars, kbVars, igVars, ibVars, paVars, ppVars, whVars>>
    \/ /\ part = "requests" /\ IbNext
       /\ UNCHANGED <<part, wsVars, kbVars, igVars, seVars, paVars, ppVars, whVars>>
    \/ /\ part = "platform" /\ PaNext
       /\ UNCHANGED <<part, wsVars, kbVars, igVars, seVars, ibVars, ppVars, whVars>>
    \/ /\ part = "public" /\ PpNext
       /\ UNCHANGED <<part, wsVars, kbVars, igVars, seVars, ibVars, paVars, whVars>>
    \/ /\ part = "webhooks" /\ WhNext
       /\ UNCHANGED <<part, wsVars, kbVars, igVars, seVars, ibVars, paVars, ppVars>>

vars == <<part, wsVars, kbVars, igVars, seVars, ibVars, paVars, ppVars, whVars>>

(* WsFairness and PpFairness, for the page looked at. *)
Fairness ==
    /\ WF_wsVars(part = "workspace" /\ LoadSteps)
    /\ WF_wsVars(part = "workspace" /\ WriteSteps)
    /\ \A l \in Lists :
         /\ WF_wsVars(part = "workspace" /\ Poll(l))
         /\ WF_wsVars(part = "workspace" /\ ListServed(l))
         /\ WF_wsVars(part = "workspace" /\ Refreshes(l))
    /\ WF_ppVars(part = "public" /\ PollBell)
    /\ \A kinds \in {{"list"}, PpOthers} :
         /\ WF_ppVars(part = "public" /\ PpServes(kinds))
         /\ WF_ppVars(part = "public" /\ PpEnds(kinds))

Spec == Init /\ [][Next]_vars /\ Fairness
=============================================================================
