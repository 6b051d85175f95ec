------------------------- MODULE AudioRecorderProofs --------------------------
(***************************************************************************)
(* What holds of AudioRecorder for every set of contexts and every number  *)
(* of recordings.                                                          *)
(***************************************************************************)
EXTENDS AudioRecorder, TLAPS

(* No two contexts serve one recording, and the fate of a recording with a context says *)
(* whether the driver still works for it (sric_context). *)
RecordingsApart ==
  /\ \A c, d \in Contexts : contexts[c] # 0 /\ contexts[c] = contexts[d] => c = d
  /\ \A c \in Contexts : contexts[c] # 0 =>
       fate[contexts[c]] = IF c = current THEN "recording" ELSE "ended"

(* The recorder as a whole: each part needs the ones before it to be inductive. *)
RecorderInv == TypeOK /\ ContextsOwned /\ TimerIsMine /\ RecordingsApart

-------------------------------------------------------------------------------
(* The end of a recording, whoever causes it, keeps every part (threedo_audio_record_stop). *)
LEMMA EndsKeeps ==
  ASSUME RecorderInv, Ends, mdi = "recording", timer' \in 0..MaxRecords,
         runnable' \in BOOLEAN, sim' \in BOOLEAN, pressed' \in BOOLEAN
  PROVE  RecorderInv'
<1> USE ContextsAssumption
<1>1. TypeOK'
  BY DEF RecorderInv, TypeOK, Ends
<1>2. ContextsOwned'
  BY DEF RecorderInv, TypeOK, ContextsOwned, Ends
<1>3. TimerIsMine'
  BY DEF TimerIsMine, Ends
<1>4. RecordingsApart'
  BY DEF RecorderInv, TypeOK, RecordingsApart, Ends, Records
<1> QED
  BY <1>1, <1>2, <1>3, <1>4 DEF RecorderInv

(* A recording begins with a free context, a number not used before and a timer of its own *)
(* (threedo_custom_audio_record_start). *)
LEMMA RecordKeeps ==
  ASSUME RecorderInv, NEW n \in Records, threedo_audio_record(n), timer' = n,
         runnable' \in BOOLEAN, sim' \in BOOLEAN, pressed' \in BOOLEAN
  PROVE  RecorderInv'
<1> USE ContextsAssumption
<1>1. PICK c \in Contexts : /\ contexts[c] = 0
                            /\ current' = c
                            /\ contexts' = [contexts EXCEPT ![c] = n]
  BY DEF threedo_audio_record
<1>2. n \in Nat \ {0} /\ n <= MaxRecords /\ current = Nobody
  BY DEF RecorderInv, TypeOK, threedo_audio_record, Records
<1>3. \A d \in Contexts : contexts[d] # n
  BY <1>2 DEF RecorderInv, RecordingsApart, threedo_audio_record
<1>4. TypeOK'
  BY <1>1, <1>2 DEF RecorderInv, TypeOK, threedo_audio_record
<1>5. ContextsOwned'
  BY <1>1, <1>2 DEF RecorderInv, TypeOK, ContextsOwned, threedo_audio_record
<1>6. TimerIsMine'
  BY <1>1 DEF RecorderInv, TypeOK, TimerIsMine
<1>7. RecordingsApart'
  <2>1. fate' = [fate EXCEPT ![n] = "recording"] /\ fate[n] = "none"
    BY DEF threedo_audio_record
  <2>2. \A d \in Contexts \ {c} : contexts'[d] = contexts[d] /\ d # current
    BY <1>1, <1>2 DEF RecorderInv, TypeOK
  <2>3. contexts'[c] = n
    BY <1>1 DEF RecorderInv, TypeOK
  <2>4. \A d \in Contexts \ {c} : contexts'[d] # 0 => fate'[contexts'[d]] = "ended"
    <3> TAKE d \in Contexts \ {c}
    <3>1. contexts[d] # n /\ contexts'[d] = contexts[d]
      BY <1>3, <2>2
    <3>2. contexts[d] # 0 => contexts[d] \in Records /\ fate[contexts[d]] = "ended"
      BY <2>2 DEF RecorderInv, TypeOK, RecordingsApart, Records
    <3> QED
      BY <2>1, <3>1, <3>2 DEF RecorderInv, TypeOK
  <2>5. fate'[contexts'[c]] = "recording"
    BY <2>1, <2>3 DEF RecorderInv, TypeOK
  <2> QED
    BY <1>1, <1>3, <2>2, <2>3, <2>4, <2>5 DEF RecorderInv, RecordingsApart
<1> QED
  BY <1>4, <1>5, <1>6, <1>7 DEF RecorderInv

(* A stop with nothing to stop leaves the contexts alone. *)
LEMMA StopKeeps ==
  ASSUME RecorderInv, threedo_custom_audio_record_stop,
         runnable' \in BOOLEAN, sim' \in BOOLEAN, pressed' \in BOOLEAN
  PROVE  RecorderInv'
<1> USE ContextsAssumption
<1>1. timer' \in 0..MaxRecords
  BY DEF threedo_custom_audio_record_stop
<1>2. CASE mdi = "recording"
  BY <1>1, <1>2, EndsKeeps DEF threedo_custom_audio_record_stop
<1>3. CASE mdi # "recording"
  <2>1. UNCHANGED media /\ current = Nobody
    BY <1>3 DEF threedo_custom_audio_record_stop, RecorderInv, TypeOK
  <2> QED
    BY <1>1, <2>1 DEF media, RecorderInv, TypeOK, ContextsOwned, TimerIsMine, RecordingsApart
<1> QED
  BY <1>2, <1>3

(* The callback frees the context of a recording that has ended and settles no other one *)
(* (_td_custom_audio_record_callback). *)
LEMMA CallbackKeeps ==
  ASSUME RecorderInv, NEW c \in Contexts, Callback(c)
  PROVE  RecorderInv'
<1> USE ContextsAssumption
<1>1. contexts[c] \in Records /\ c # current /\ c \in results
  BY DEF RecorderInv, TypeOK, ContextsOwned, Callback, Records
<1>2. contexts' = [contexts EXCEPT ![c] = 0] /\ results' = results \ {c}
  BY DEF Callback
<1>3. PICK f \in {"sent", "dropped"} : fate' = [fate EXCEPT ![contexts[c]] = f]
  BY DEF Callback
<1>4. TypeOK'
  BY <1>1, <1>2, <1>3 DEF RecorderInv, TypeOK, Callback
<1>5. ContextsOwned'
  BY <1>1, <1>2 DEF RecorderInv, TypeOK, ContextsOwned, Callback
<1>6. TimerIsMine'
  BY <1>1, <1>2 DEF RecorderInv, TypeOK, TimerIsMine, Callback
<1>7. RecordingsApart'
  <2>1. contexts'[c] = 0 /\ \A d \in Contexts \ {c} : contexts'[d] = contexts[d]
    BY <1>2 DEF RecorderInv, TypeOK
  <2>2. \A d \in Contexts \ {c} : contexts[d] # 0 => contexts[d] # contexts[c]
    BY DEF RecorderInv, RecordingsApart
  <2>3. \A d \in Contexts \ {c} : contexts[d] # 0 => fate'[contexts[d]] = fate[contexts[d]]
    BY <1>3, <2>2 DEF RecorderInv, TypeOK, Records
  <2>4. current' = current
    BY DEF Callback
  <2> QED
    BY <2>1, <2>3, <2>4 DEF RecorderInv, RecordingsApart
<1> QED
  BY <1>4, <1>5, <1>6, <1>7 DEF RecorderInv

LEMMA RecorderStep == RecorderInv /\ [Next]_vars => RecorderInv'
<1> SUFFICES ASSUME RecorderInv, [Next]_vars PROVE RecorderInv'
  OBVIOUS
<1> USE ContextsAssumption
<1>0. {runnable, sim, pressed} \subseteq BOOLEAN
  BY DEF RecorderInv, TypeOK
<1>1. CASE KeyDown
  <2>1. {runnable', sim', pressed'} \subseteq BOOLEAN
    BY <1>0, <1>1 DEF KeyDown
  <2>2. CASE \E n \in Records : threedo_audio_record(n) /\ timer' = n
    BY <2>1, <2>2, RecordKeeps
  <2>3. CASE UNCHANGED <<media, timer>>
    BY <2>1, <2>3 DEF media, RecorderInv, TypeOK, ContextsOwned, TimerIsMine, RecordingsApart
  <2> QED
    BY <1>1, <2>2, <2>3 DEF KeyDown, threedo_custom_audio_record_start
<1>2. CASE KeyUp
  <2>1. {runnable', sim', pressed'} \subseteq BOOLEAN
    BY <1>0, <1>2 DEF KeyUp
  <2>2. CASE Heeded
    BY <1>2, <2>1, <2>2, StopKeeps DEF KeyUp
  <2>3. CASE ~Heeded
    BY <1>2, <2>1, <2>3
       DEF KeyUp, media, RecorderInv, TypeOK, ContextsOwned, TimerIsMine, RecordingsApart
  <2> QED
    BY <2>2, <2>3
<1>3. CASE TimerExpires
  BY <1>0, <1>3, StopKeeps DEF TimerExpires
<1>4. CASE DriverEnds
  <2>1. mdi = "recording" /\ timer' \in 0..MaxRecords
    BY <1>4 DEF DriverEnds, RecorderInv, TypeOK
  <2> QED
    BY <1>0, <1>4, <2>1, EndsKeeps DEF DriverEnds
<1>5. ASSUME NEW c \in Contexts, Callback(c) PROVE RecorderInv'
  BY <1>5, CallbackKeeps
<1>6. CASE OthersUse
  BY <1>6 DEF OthersUse, RecorderInv, TypeOK, ContextsOwned, TimerIsMine, RecordingsApart
<1>7. CASE OthersEnd
  BY <1>7 DEF OthersEnd, RecorderInv, TypeOK, ContextsOwned, TimerIsMine, RecordingsApart
<1>8. CASE threedo_process_secure_code
  BY <1>8 DEF threedo_process_secure_code, media, RecorderInv, TypeOK, ContextsOwned,
              TimerIsMine, RecordingsApart
<1>9. CASE SimChanges
  BY <1>9 DEF SimChanges, media, RecorderInv, TypeOK, ContextsOwned, TimerIsMine,
              RecordingsApart
<1>10. CASE UNCHANGED vars
  BY <1>10 DEF vars, media, RecorderInv, TypeOK, ContextsOwned, TimerIsMine, RecordingsApart
<1> QED
  BY <1>1, <1>2, <1>3, <1>4, <1>5, <1>6, <1>7, <1>8, <1>9, <1>10 DEF Next

LEMMA RecorderInvariant == Spec => []RecorderInv
<1>1. Init => RecorderInv
  <2> SUFFICES ASSUME Init PROVE RecorderInv
    OBVIOUS
  <2> USE ContextsAssumption
  <2>1. TypeOK
    <3>1. {runnable, sim, pressed} \subseteq BOOLEAN
      BY Zenon DEF Init
    <3>2. fate \in [Records -> {"none", "recording", "ended", "sent", "dropped"}]
      BY DEF Init
    <3>3. contexts \in [Contexts -> 0..MaxRecords]
      BY DEF Init
    <3> QED
      BY <3>1, <3>2, <3>3 DEF Init, TypeOK
  <2>2. ContextsOwned /\ TimerIsMine
    BY DEF Init, ContextsOwned, TimerIsMine
  <2>3. \A c \in Contexts : contexts[c] = 0
    BY DEF Init
  <2> QED
    BY <2>1, <2>2, <2>3 DEF RecorderInv, RecordingsApart
<1> QED
  BY <1>1, RecorderStep, PTL DEF Spec

-------------------------------------------------------------------------------
(* Every variable of the recorder keeps its range (threedo_media.c). *)
THEOREM RecorderTyped == Spec => []TypeOK
<1>1. RecorderInv => TypeOK
  BY DEF RecorderInv
<1> QED
  BY <1>1, RecorderInvariant, PTL

(* No context leaks, is freed twice or is freed while the driver works for it
   (_td_audio_record_callback). *)
THEOREM ContextsSafe == Spec => []ContextsOwned
<1>1. RecorderInv => ContextsOwned
  BY DEF RecorderInv
<1> QED
  BY <1>1, RecorderInvariant, PTL

(* A recording under way is stopped by its own timer
   (threedo_custom_audio_record_start). *)
THEOREM TimerSafe == Spec => []TimerIsMine
<1>1. RecorderInv => TimerIsMine
  BY DEF RecorderInv
<1> QED
  BY <1>1, RecorderInvariant, PTL

(* A recording sent or dropped stays so: its context was its own, so no later callback or end
   of a recording can name it again (_td_custom_audio_record_callback). *)
THEOREM RecordingsSettledOnce == Spec => SettledOnce
<1> DEFINE Kept == \A n \in Records : fate[n] \in {"sent", "dropped"} => fate'[n] = fate[n]
<1>1. RecorderInv /\ [Next]_vars => Kept
  <2> SUFFICES ASSUME RecorderInv, [Next]_vars,
                      NEW n \in Records, fate[n] \in {"sent", "dropped"}
               PROVE  fate'[n] = fate[n]
    OBVIOUS
  <2>1. \A c \in Contexts : contexts[c] # n
    BY DEF RecorderInv, RecordingsApart, Records
  <2>2. CASE Ends
    <3>1. ~(current # Nobody /\ contexts[current] = n)
      BY <2>1 DEF RecorderInv, TypeOK
    <3> QED
      BY <2>2, <3>1 DEF Ends
  <2>3. ASSUME NEW k \in Records, threedo_audio_record(k) PROVE fate'[n] = fate[n]
    <3>1. k # n
      BY <2>3 DEF threedo_audio_record
    <3> QED
      BY <2>3, <3>1 DEF threedo_audio_record, RecorderInv, TypeOK
  <2>4. ASSUME NEW c \in Contexts, Callback(c) PROVE fate'[n] = fate[n]
    BY <2>1, <2>4 DEF Callback, RecorderInv, TypeOK
  <2>5. CASE UNCHANGED fate
    BY <2>5
  <2> QED
    BY <2>2, <2>3, <2>4, <2>5
       DEF Next, KeyDown, KeyUp, TimerExpires, DriverEnds, OthersUse, OthersEnd,
           threedo_process_secure_code, SimChanges, vars, media,
           threedo_custom_audio_record_start, threedo_custom_audio_record_stop
<1>2. RecorderInv /\ [Next]_vars => [Kept]_vars
  BY <1>1
<1> QED
  BY <1>2, RecorderInvariant, PTL DEF Spec, SettledOnce

===============================================================================
