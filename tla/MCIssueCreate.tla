--------------------------- MODULE MCIssueCreate ---------------------------
(* Instances of IssueCreate small enough for TLC. *)
EXTENDS IssueCreate, TLC

CONSTANTS q1, q2, j1, j2, j3, i1, i2, i3, w1, w2

MCRequests   == {q1, q2}
MCJobs       == {j1, j2, j3}
MCIssues     == {i1, i2, i3}
MCOneWorker  == {w1}
MCTwoWorkers == {w1, w2}

(* Nothing orders requests, rows, issues or workers by name. *)
Symmetry ==
  Permutations(MCRequests) \cup Permutations(MCJobs) \cup Permutations(MCIssues)
    \cup Permutations(MCTwoWorkers)

=============================================================================
