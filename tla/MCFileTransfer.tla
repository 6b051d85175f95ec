--------------------------- MODULE MCFileTransfer ---------------------------
(* Constants of FileTransfer for TLC. *)
EXTENDS FileTransfer

AllUpsets == UpsetKinds
StopOnly == {"stop"}
==============================================================================
