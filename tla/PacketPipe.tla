------------------------------ MODULE PacketPipe ------------------------------
(***************************************************************************)
(* What the session expects of its connection: the packets of the broker   *)
(* are taken in the order they were sent, each once and whole.  A packet   *)
(* whose answer cannot be sent is put aside without being acted on.        *)
(***************************************************************************)
EXTENDS Naturals, Sequences

CONSTANTS
  Packets,      \* what the broker may send
  Answered(_),  \* a packet that is answered
  PutAside      \* stands for one that was not acted on

VARIABLES
  sent,  \* by the broker
  got    \* by the lock, in the order they were taken

Init == sent = <<>> /\ got = <<>>

SendPacket(p) == sent' = Append(sent, p) /\ UNCHANGED got

TakePacket ==
  /\ Len(got) < Len(sent)
  /\ LET p == sent[Len(got) + 1]
     IN \/ got' = Append(got, p)
        \/ Answered(p) /\ got' = Append(got, PutAside)
  /\ UNCHANGED sent

Next == TakePacket \/ \E p \in Packets : SendPacket(p)

Spec == Init /\ [][Next]_<<sent, got>>

===============================================================================
