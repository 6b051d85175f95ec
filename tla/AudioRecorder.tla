---------------------------- MODULE AudioRecorder ----------------------------
(***************************************************************************)
(* The audio recorder of threedo_media.c with the key that works it        *)
(* (threedo_process_key).  All of it runs in the MMI task, one handler     *)
(* after the other.  The audio driver (MDI) is external and shared with    *)
(* the other applications of the phone; a finished recording goes to the   *)
(* file transfer, which is FileTransfer's.                                 *)
(***************************************************************************)
EXTENDS Naturals, FiniteSets

CONSTANTS
  Contexts,     \* the blocks threedo_malloc hands out for a sric_context
  Nobody,
  MaxRecords    \* bound on recordings

ASSUME ContextsAssumption ==
  IsFiniteSet(Contexts) /\ Nobody \notin Contexts /\ MaxRecords \in Nat

Records == 1..MaxRecords

VARIABLES
  mdi,        \* the driver: "idle", "recording", "playing"
  current,    \* the context it records for; Nobody if it works for another application
  contexts,   \* the recording a context is for, 0 while it is free
  results,    \* contexts whose callback the driver has still to call
  timer,      \* THREEDO_TIMER_PUBLIC_ID: the recording it was started for, 0 if it does not run
  runnable,   \* threedo_runnable
  sim,        \* a SIM card can be used
  pressed,    \* KEY_CSK is held
  fate        \* history: per recording, "none", "recording", "ended", "sent" or "dropped"

media == <<mdi, current, contexts, results, fate>>
vars == <<media, timer, runnable, sim, pressed>>

Init ==
  /\ mdi = "idle" /\ current = Nobody
  /\ contexts = [c \in Contexts |-> 0]
  /\ results = {}
  /\ timer = 0
  /\ runnable = FALSE /\ sim \in BOOLEAN
  /\ pressed = FALSE
  /\ fate = [n \in Records |-> "none"]

-------------------------------------------------------------------------------
(* The recorder. *)

(* The driver stops recording and, if it was for a context, will call back. *)
Ends ==
  /\ mdi' = "idle"
  /\ current' = Nobody
  /\ results' = results \cup ({current} \ {Nobody})
  /\ fate' = [n \in Records |->
                IF current # Nobody /\ contexts[current] = n THEN "ended" ELSE fate[n]]
  /\ UNCHANGED contexts

(* threedo_audio_record: it refuses while the driver is busy. *)
threedo_audio_record(n) ==
  /\ mdi = "idle"
  /\ fate[n] = "none" /\ \A k \in 1 .. n - 1 : fate[k] # "none"
  /\ mdi' = "recording"
  /\ \E c \in Contexts :
       /\ contexts[c] = 0
       /\ current' = c
       /\ contexts' = [contexts EXCEPT ![c] = n]
  /\ fate' = [fate EXCEPT ![n] = "recording"]
  /\ UNCHANGED results

(* Mutant: a timer that runs is not started again. *)
threedo_custom_audio_record_start_KeepsTimer ==
  \/ \E n \in Records : threedo_audio_record(n) /\ timer' = IF timer = 0 THEN n ELSE timer
  \/ UNCHANGED <<media, timer>>

(* Without a usable drive, a path or the driver's consent the context is freed at once. *)
threedo_custom_audio_record_start ==
  \/ \E n \in Records : threedo_audio_record(n) /\ timer' = n
  \/ UNCHANGED <<media, timer>>

(* Mutant: the stop frees the context itself and the callback is not waited for. *)
threedo_custom_audio_record_stop_Frees ==
  /\ timer' = 0
  /\ IF mdi = "recording"
     THEN /\ mdi' = "idle" /\ current' = Nobody
          /\ contexts' = [c \in Contexts |-> IF c = current THEN 0 ELSE contexts[c]]
          /\ UNCHANGED <<results, fate>>
     ELSE UNCHANGED media

(* Mutant: the driver is stopped whatever it does, and its context stays with it. *)
threedo_custom_audio_record_stop_KeepsContext ==
  /\ timer' = 0
  /\ mdi' = "idle"
  /\ UNCHANGED <<current, contexts, results, fate>>

(* A recording is stopped whoever has started it. *)
threedo_custom_audio_record_stop ==
  /\ timer' = 0
  /\ IF mdi = "recording" THEN Ends ELSE UNCHANGED media

-------------------------------------------------------------------------------
(* threedo_process_key, KEY_CSK. *)

Heeded == sim /\ runnable

KeyDown ==
  /\ ~pressed
  /\ pressed' = TRUE
  /\ IF Heeded THEN threedo_custom_audio_record_start ELSE UNCHANGED <<media, timer>>
  /\ UNCHANGED <<runnable, sim>>

KeyUp ==
  /\ pressed
  /\ pressed' = FALSE
  /\ IF Heeded THEN threedo_custom_audio_record_stop ELSE UNCHANGED <<media, timer>>
  /\ UNCHANGED <<runnable, sim>>

(* 18 s after the start. *)
TimerExpires ==
  /\ timer # 0
  /\ threedo_custom_audio_record_stop
  /\ UNCHANGED <<runnable, sim, pressed>>

-------------------------------------------------------------------------------
(* The driver. *)

(* The limit of 20 s or 30 KB, a full disc or a call ends the recording. *)
DriverEnds ==
  /\ current # Nobody
  /\ Ends
  /\ UNCHANGED <<timer, runnable, sim, pressed>>

(* Mutant: the context is freed only if the recording is sent. *)
Callback_Leaks(c) ==
  /\ c \in results
  /\ results' = results \ {c}
  /\ \E large \in BOOLEAN :
       /\ fate' = [fate EXCEPT ![contexts[c]] = IF large /\ sim THEN "sent" ELSE "dropped"]
       /\ contexts' = IF large /\ sim THEN [contexts EXCEPT ![c] = 0] ELSE contexts
  /\ UNCHANGED <<mdi, current, timer, runnable, sim, pressed>>

(* Mutant: a recording that could not be sent is kept for another callback. *)
Callback_Retries(c) ==
  /\ c \in results
  /\ \E large \in BOOLEAN :
       LET goes == large /\ sim IN
       /\ fate' = [fate EXCEPT ![contexts[c]] = IF goes THEN "sent" ELSE "dropped"]
       /\ results' = IF goes THEN results \ {c} ELSE results
       /\ contexts' = IF goes THEN [contexts EXCEPT ![c] = 0] ELSE contexts
  /\ UNCHANGED <<mdi, current, timer, runnable, sim, pressed>>

(* _td_audio_record_callback with _td_custom_audio_record_callback: a recording of at least *)
(* 200 bytes is sent if a SIM card can be used by now; the context is freed. *)
Callback(c) ==
  /\ c \in results
  /\ results' = results \ {c}
  /\ \E large \in BOOLEAN :
       fate' = [fate EXCEPT ![contexts[c]] = IF large /\ sim THEN "sent" ELSE "dropped"]
  /\ contexts' = [contexts EXCEPT ![c] = 0]
  /\ UNCHANGED <<mdi, current, timer, runnable, sim, pressed>>

(* Another application records or plays something. *)
OthersUse ==
  /\ mdi = "idle"
  /\ mdi' \in {"recording", "playing"}
  /\ UNCHANGED <<current, contexts, results, fate, timer, runnable, sim, pressed>>

OthersEnd ==
  /\ mdi # "idle" /\ current = Nobody
  /\ mdi' = "idle"
  /\ UNCHANGED <<current, contexts, results, fate, timer, runnable, sim, pressed>>

-------------------------------------------------------------------------------
(* *83*00# and *83*01#; a recording under way is not stopped. *)
threedo_process_secure_code ==
  /\ runnable' = ~runnable
  /\ UNCHANGED <<media, timer, sim, pressed>>

SimChanges ==
  /\ sim' = ~sim
  /\ UNCHANGED <<media, timer, runnable, pressed>>

Next ==
  \/ KeyDown \/ KeyUp \/ TimerExpires
  \/ DriverEnds \/ (\E c \in Contexts : Callback(c)) \/ OthersUse \/ OthersEnd
  \/ threedo_process_secure_code \/ SimChanges

(* The driver ends a recording, by its limits at the latest, and calls back. *)
Fairness == WF_vars(DriverEnds) /\ \A c \in Contexts : WF_vars(Callback(c))

Spec == Init /\ [][Next]_vars /\ Fairness

-------------------------------------------------------------------------------
(* Every variable keeps its range. *)
TypeOK ==
  /\ mdi \in {"idle", "recording", "playing"}
  /\ current \in Contexts => mdi = "recording"
  /\ current \in Contexts \cup {Nobody}
  /\ contexts \in [Contexts -> 0..MaxRecords]
  /\ results \subseteq Contexts
  /\ timer \in 0..MaxRecords
  /\ {runnable, sim, pressed} \subseteq BOOLEAN
  /\ fate \in [Records -> {"none", "recording", "ended", "sent", "dropped"}]

(* Each context allocated is the driver's or waits for one callback: none leaks, none is freed *)
(* twice or while the driver works for it, whatever stops, limits and new recordings come     *)
(* between the end of a recording and its callback (_td_audio_record_callback). *)
ContextsOwned ==
  /\ {c \in Contexts : contexts[c] # 0} = results \cup ({current} \ {Nobody})
  /\ current \notin results

(* A recording under way has a timer of its own running, which stops it if the release of the *)
(* key is not heeded; it is not cut short by the timer of an earlier one, although that       *)
(* outlives a recording the driver has ended (threedo_custom_audio_record_start). *)
TimerIsMine == current # Nobody => timer = contexts[current]

(* A recording is settled once: one that was sent to the file transfer or dropped is neither   *)
(* recorded, ended nor sent again, although a new one may start before the callback of the    *)
(* last one (_td_custom_audio_record_callback). *)
SettledOnce ==
  [][\A n \in Records : fate[n] \in {"sent", "dropped"} => fate'[n] = fate[n]]_vars

(* Each recording begun is sent to the file transfer or dropped in the end, with stops by key, *)
(* timer and driver and the next recording in any order. *)
EachSettled == \A n \in Records : fate[n] # "none" ~> fate[n] \in {"sent", "dropped"}

===============================================================================
