----------------------------- MODULE JobLedger -----------------------------
(***************************************************************************)
(* What the outbox promises whoever enqueues a job, with no clock, no      *)
(* attempt counter and no rows: a job is open until one worker takes it,   *)
(* the worker that took it is the only one that may put it back or close   *)
(* it, a closed job stays closed, and a taken job whose worker is gone is  *)
(* lost: nobody is given it again.                                         *)
(***************************************************************************)
CONSTANTS
  Jobs,
  Workers,
  Nobody    \* no worker: the holder of a job that nobody has taken

VARIABLES
  phase,   \* "absent", "open", "taken" or "closed"
  holder   \* the worker that has taken the job, or Nobody

ledger == <<phase, holder>>

Init ==
  /\ phase = [j \in Jobs |-> "absent"]
  /\ holder = [j \in Jobs |-> Nobody]

Idle(w) == \A j \in Jobs : holder[j] # w

Move(j, from, to, who) ==
  /\ phase[j] = from
  /\ phase' = [phase EXCEPT ![j] = to]
  /\ holder' = [holder EXCEPT ![j] = who]

Add(j)        == Move(j, "absent", "open", Nobody)
Take(j, w)    == Idle(w) /\ Move(j, "open", "taken", w)
PutBack(j, w) == holder[j] = w /\ Move(j, "taken", "open", Nobody)
Close(j, w)   == holder[j] = w /\ Move(j, "taken", "closed", Nobody)
Lose(j)       == phase[j] \in {"open", "taken"} /\ Move(j, phase[j], "taken", Nobody)

Next ==
  \E j \in Jobs :
    \/ Add(j)
    \/ Lose(j)
    \/ \E w \in Workers : Take(j, w) \/ PutBack(j, w) \/ Close(j, w)

Spec == Init /\ [][Next]_ledger

=============================================================================
