----------------------------- MODULE MCYunbaLock -----------------------------
(* Constants of YunbaLock for TLC. *)
EXTENDS YunbaLock

NoUpset == {}
AllUpsets == Upsets
==============================================================================
