------------------------------ MODULE LockCycle ------------------------------
(***************************************************************************)
(* What the lock promises, without queues, sensors or timers: the lock     *)
(* runs round the cycle locked, unlocking, unlocked, locking; it starts a  *)
(* movement only from rest, makes a report when it comes to rest, and      *)
(* answers a query with the state it is in.  That a report made gets to    *)
(* the cloud is not promised.                                              *)
(***************************************************************************)

VARIABLES
  phase,   \* where the lock is in its cycle
  said     \* what the last report made said, or "nothing"

vars == <<phase, said>>

Init ==
  /\ phase = "LOCKED"
  /\ said = "nothing"

Answer(p) == IF p = "LOCKED" THEN "locked" ELSE "unlocked"

Open == phase = "LOCKED" /\ phase' = "UNLOCKING" /\ UNCHANGED said

Close == phase = "UNLOCKED" /\ phase' = "LOCKING" /\ UNCHANGED said

Arrive ==
  /\ \/ phase = "UNLOCKING" /\ phase' = "UNLOCKED"
     \/ phase = "LOCKING" /\ phase' = "LOCKED"
  /\ said' = Answer(phase')

Tell == said' = Answer(phase) /\ UNCHANGED phase

Next == Open \/ Close \/ Arrive \/ Tell

Spec == Init /\ [][Next]_vars

==============================================================================
