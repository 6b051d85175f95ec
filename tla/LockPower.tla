------------------------------ MODULE LockPower ------------------------------
(***************************************************************************)
(* The lock over restarts of the phone.  Nothing of yunba_lock.c survives  *)
(* one: LOCK_STATUS is LOCKED again wherever the bolt is, the mailbox is    *)
(* empty, the interrupts wait for the low level and the motor stands, with *)
(* the cam wherever the last movement had taken it.  A fault of the task   *)
(* restarts the phone, and so does its battery.                            *)
(***************************************************************************)
EXTENDS YunbaLock

CONSTANT MaxRestarts  \* bound on restarts

ASSUME MaxRestartsAssumption == MaxRestarts \in Nat

VARIABLES
  restarts,  \* how many there have been
  agree,     \* history: bolt and status agree at rest, from what has happened
  adjusted   \* history: the cloud has sent the adjust command since the restart

powerVars == <<vars, restarts, agree, adjusted>>

PowerInit ==
  /\ Init
  /\ restarts = 0
  /\ agree = TRUE
  /\ adjusted = FALSE

(* The static initialisers and yblock_init.  The switches and the bolt stay where they are. *)
Restart ==
  /\ restarts < MaxRestarts
  /\ restarts' = restarts + 1
  /\ g_lock_status' = "LOCKED" /\ g_lock_step' = 0
  /\ g_eint_level' = [s \in Sensors |-> FALSE]
  /\ g_buzzing' = TRUE /\ buzzer' = TRUE /\ buzzTimer' = "armed"
  /\ motor' = FALSE
  /\ queue' = <<>> /\ task' = "ready"
  /\ lastReport' = "nothing" /\ stalled' = FALSE
  /\ heard' = [s \in Sensors |-> "off"]
  /\ agree' = bolt
  /\ adjusted' = FALSE
  /\ UNCHANGED <<pin, bolt>>

(* A movement that finds the cam off its switch ends a pass too late: the "on" that completes *)
(* the cut pass has no "off" before it and does not count. *)
Runs ==
  /\ Next
  /\ agree' = IF ~Moving /\ Moving' /\ pin["step"] THEN ~agree ELSE agree
  /\ adjusted' = (adjusted \/ task' = "adjusting")
  /\ UNCHANGED restarts

PowerNext == Runs \/ Restart

(* As in YunbaLock; nothing is assumed of restarts. *)
PowerSpec == PowerInit /\ [][PowerNext]_powerVars /\ Fairness

-------------------------------------------------------------------------------
(* As long as the lock is not adjusted, whether bolt and status agree at rest is settled by  *)
(* where a restart has found the bolt and the cam, and nothing else: a disagreement is not    *)
(* healed by any later movement, and none comes up by itself (LOCK_STATUS_LOCKED at the start, *)
(* yblock_unlock, yblock_step_notify).  Without restarts it is BoltMatchesStatus. *)
AgreementKept == ~adjusted /\ ~Moving => ((bolt <=> g_lock_status = "LOCKED") <=> agree)

===============================================================================
