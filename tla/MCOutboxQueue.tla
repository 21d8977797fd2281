--------------------------- MODULE MCOutboxQueue ---------------------------
(* Instances of OutboxQueue small enough for TLC. *)
EXTENDS OutboxQueue, TLC

CONSTANTS j1, j2, w1, w2

MCJobs    == {j1, j2}
MCWorkers == {w1, w2}

(* Jobs and workers are interchangeable: no action orders them by name. *)
Symmetry == Permutations(MCJobs) \cup Permutations(MCWorkers)

=============================================================================
