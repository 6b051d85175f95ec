----------------------------- MODULE MCLockPower -----------------------------
(* Constants of LockPower for TLC. *)
EXTENDS LockPower

AdjustOnly == {"adjust"}
===============================================================================
