---------------------------- MODULE MCIssueSync ----------------------------
(* Instances of IssueSync small enough for TLC. *)
EXTENDS IssueSync, TLC

CONSTANTS title, body, state, assignee, w1, w2, u1, u2

MCTitle       == {title}
MCThreeKinds  == {body, state, assignee}
MCBody        == {body}
MCAssignee    == {assignee}
MCEmpty       == 1
MCState       == {state}
MCNone        == {}
MCValues      == {0, 1}
MCThree       == {0, 1, 2}
MCOneWorker   == {w1}
MCTwoWorkers  == {w1, w2}
MCOneUser     == {u1}
KeepLocal     == {"local"}
AnyResolution == {"local", "remote", "ignore"}

=============================================================================
