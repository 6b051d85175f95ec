---------------------------- MODULE UploadService ----------------------------
(***************************************************************************)
(* What the rest of the phone may expect of the file transfer: a recording *)
(* is handed over once, waits, and is then reported finished once or given *)
(* up.  One that was given up is never reported, and the phone may forget  *)
(* all that is waiting when it restarts.                                   *)
(***************************************************************************)
CONSTANT Files

VARIABLES
  waiting,     \* handed over, and neither finished nor given up
  finished,    \* reported by MSG_ID_THREEDO_FILE_TRANS_FINISH_IND
  givenUp

Fresh == Files \ (waiting \cup finished \cup givenUp)

Init == waiting = {} /\ finished = {} /\ givenUp = {}

HandOver(f) ==
  /\ f \in Fresh
  /\ waiting' = waiting \cup {f}
  /\ UNCHANGED <<finished, givenUp>>

Finish(f) ==
  /\ f \in waiting
  /\ waiting' = waiting \ {f}
  /\ finished' = finished \cup {f}
  /\ UNCHANGED givenUp

GiveUp(fs) ==
  /\ fs \subseteq waiting
  /\ waiting' = waiting \ fs
  /\ givenUp' = givenUp \cup fs
  /\ UNCHANGED finished

Next ==
  \/ \E f \in Files : HandOver(f) \/ Finish(f)
  \/ \E fs \in SUBSET waiting : GiveUp(fs)

Spec == Init /\ [][Next]_<<waiting, finished, givenUp>>

==============================================================================
