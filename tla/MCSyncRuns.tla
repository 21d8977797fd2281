----------------------------- MODULE MCSyncRuns -----------------------------
(* Instances of SyncRuns small enough for TLC. *)
EXTENDS SyncRuns, TLC

CONSTANTS r1, r2, w1, w2, c1

MCRuns       == {r1, r2}
MCOneWorker  == {w1}
MCTwoWorkers == {w1, w2}
MCChange     == {c1}
PollsOnly    == {}
Imports      == {"import"}
Creates      == {"create"}
AllKinds     == {"import", "create", "update"}

(* Nothing orders runs or workers by name. *)
Symmetry == Permutations(MCRuns) \cup Permutations(MCTwoWorkers)

=============================================================================
