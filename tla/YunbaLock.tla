------------------------------ MODULE YunbaLock ------------------------------
(***************************************************************************)
(* The lock logic of yunba_lock.c with the part of MqttDemoTask            *)
(* (mqtt_demo.c) that feeds it: two level-triggered interrupt routines     *)
(* post what the switches do to the mailbox of one task, the task moves    *)
(* the lock through its cycle, drives the motor and the buzzer and         *)
(* publishes reports, and the buzzer's timer runs in the MMI task.         *)
(*                                                                         *)
(* The mechanism is external.  The motor has one direction; it turns a cam *)
(* that opens and closes the step switch.  One pass of the cam (off its    *)
(* switch and on it again) takes the bolt from one end to the other, which *)
(* is how the code uses it: unlocking and locking run the same motor and   *)
(* both end at the first "on" after an "off".                              *)
(***************************************************************************)
EXTENDS Naturals, Sequences

CONSTANTS
  QueueLen,      \* bound: messages the mailbox is allowed to hold
  Disturbances   \* what may upset the mechanism, a subset of Upsets

(***************************************************************************)
(* "late"   the cam may travel on before the task has read the last step   *)
(*          message (a task held up by a slow handler)                     *)
(* "adjust" the cloud sends the adjust command                             *)
(* "noise"  the step switch may change with the motor off (a knock)        *)
(***************************************************************************)
Upsets == {"late", "adjust", "noise"}

ASSUME QueueLenAssumption == QueueLen \in Nat \ {0}
ASSUME DisturbancesAssumption == Disturbances \subseteq Upsets

Sensors == {"status", "step"}
Statuses == {"LOCKED", "LOCKING", "UNLOCKED", "UNLOCKING"}
Commands == {"unlock", "report", "buzzer", "adjust", "btn"}

SensorMessage == [src : Sensors, val : {"on", "off"}]
CommandMessage == [src : {"cmd"}, val : Commands]
Message == SensorMessage \cup CommandMessage

VARIABLES
  g_lock_status,   \* LOCK_STATUS
  g_lock_step,     \* 1 once the cam has left its switch during a movement
  g_eint_level,    \* per sensor, the level its interrupt waits for (TRUE: LEVEL_HIGH)
  g_buzzing,       \* the buzzer is taken
  motor,           \* GPIO_MOTOR drives the motor
  buzzer,          \* GPIO_BUZZER sounds
  buzzTimer,       \* YBLOCK_BUZZ_TIMER: "off", "armed", or "firing" between its two writes
  queue,           \* mailbox of MOD_MQTT
  task,            \* "ready", or "adjusting" while yblock_adjust sleeps
  pin,             \* per sensor, the level of the line (TRUE: high, the switch is off)
  bolt,            \* the bolt is extended
  lastReport,      \* history: what the last report made said, sent or not
  stalled,         \* history: an adjust stopped the motor during this movement
  heard            \* history: per sensor, the last message the task took

lockVars == <<g_lock_status, g_lock_step, motor, stalled>>
buzzVars == <<g_buzzing, buzzer, buzzTimer>>
senseVars == <<g_eint_level, pin, bolt>>
vars == <<lockVars, buzzVars, senseVars, queue, task, lastReport, heard>>

Moving == g_lock_status \in {"LOCKING", "UNLOCKING"}

-------------------------------------------------------------------------------
(* The buzzer.  A request while it is taken is dropped.  The tone is taken to last
   longer than the step from StartTimer to the flag. *)

(* Mutant: the request is not dropped, the timer is started again. *)
yblock_buzz_Rearms ==
  /\ g_buzzing' = TRUE
  /\ buzzer' = TRUE
  /\ buzzTimer' = "armed"

yblock_buzz ==
  /\ g_buzzing' = TRUE
  /\ IF g_buzzing THEN UNCHANGED <<buzzer, buzzTimer>>
                  ELSE buzzer' = TRUE /\ buzzTimer' = "armed"

(* Mutant: the two writes of the callback the other way round. *)
BuzzTimerFires_FlagFirst ==
  /\ buzzTimer = "armed"
  /\ buzzTimer' = "firing"
  /\ g_buzzing' = FALSE
  /\ UNCHANGED <<lockVars, senseVars, buzzer, queue, task, lastReport, heard>>

(* The timer's callback, in the MMI task: the pin first, the flag after it,
   with the lock task free to run in between. *)
BuzzTimerFires ==
  /\ buzzTimer = "armed"
  /\ buzzTimer' = "firing"
  /\ buzzer' = FALSE
  /\ UNCHANGED <<lockVars, senseVars, g_buzzing, queue, task, lastReport, heard>>

BuzzTimerReturns ==
  /\ buzzTimer = "firing"
  /\ buzzTimer' = "off"
  /\ g_buzzing' = FALSE
  /\ UNCHANGED <<lockVars, senseVars, buzzer, queue, task, lastReport, heard>>

-------------------------------------------------------------------------------
(* The interrupt routines: post the edge, then wait for the other level. *)

(* Mutant: the routine keeps waiting for the level it has just served. *)
yblock_eint_SameLevel(s) ==
  /\ pin[s] = g_eint_level[s]
  /\ Len(queue) < QueueLen
  /\ queue' = Append(queue, [src |-> s, val |-> IF g_eint_level[s] THEN "off" ELSE "on"])
  /\ UNCHANGED <<lockVars, buzzVars, senseVars, task, lastReport, heard>>

yblock_eint(s) ==
  /\ pin[s] = g_eint_level[s]
  /\ Len(queue) < QueueLen
  /\ queue' = Append(queue, [src |-> s, val |-> IF g_eint_level[s] THEN "off" ELSE "on"])
  /\ g_eint_level' = [g_eint_level EXCEPT ![s] = ~@]
  /\ UNCHANGED <<lockVars, buzzVars, pin, bolt, task, lastReport, heard>>

-------------------------------------------------------------------------------
(* The task.  It takes one message and runs its handler to the end. *)

Take(s, v) ==
  /\ task = "ready"
  /\ queue # <<>>
  /\ Head(queue) = [src |-> s, val |-> v]
  /\ queue' = Tail(queue)

Hear(s, v) == heard' = [heard EXCEPT ![s] = v]

StartMove(goal) ==
  /\ g_lock_status' = goal
  /\ g_lock_step' = 0
  /\ motor' = TRUE
  /\ stalled' = FALSE

(* Mutant: the report is made before the new status is stored. *)
yblock_report_TooEarly == lastReport' = IF g_lock_status = "LOCKED" THEN "locked" ELSE "unlocked"

yblock_report == lastReport' = IF g_lock_status' = "LOCKED" THEN "locked" ELSE "unlocked"

StatusOn ==
  /\ Take("status", "on")
  /\ Hear("status", "on")
  /\ IF g_lock_status = "UNLOCKED" THEN StartMove("LOCKING") /\ yblock_buzz
                                   ELSE UNCHANGED <<lockVars, buzzVars>>
  /\ UNCHANGED <<senseVars, task, lastReport>>

StatusOff ==
  /\ Take("status", "off")
  /\ Hear("status", "off")
  /\ UNCHANGED <<lockVars, buzzVars, senseVars, task, lastReport>>

(* Mutant: the edges are counted, in a movement or not. *)
StepOff_Counts ==
  /\ Take("step", "off")
  /\ Hear("step", "off")
  /\ g_lock_step' = g_lock_step + 1
  /\ UNCHANGED <<g_lock_status, motor, stalled, buzzVars, senseVars, task, lastReport>>

(* Mutant: the "off" of a locking movement is forgotten. *)
StepOff_UnlockingOnly ==
  /\ Take("step", "off")
  /\ Hear("step", "off")
  /\ g_lock_step' = IF g_lock_status = "UNLOCKING" THEN 1 ELSE g_lock_step
  /\ UNCHANGED <<g_lock_status, motor, stalled, buzzVars, senseVars, task, lastReport>>

StepOff ==
  /\ Take("step", "off")
  /\ Hear("step", "off")
  /\ g_lock_step' = IF Moving THEN 1 ELSE g_lock_step
  /\ UNCHANGED <<g_lock_status, motor, stalled, buzzVars, senseVars, task, lastReport>>

(* Mutant: the motor is left running. *)
StepOn_KeepsMotor ==
  /\ Take("step", "on")
  /\ Hear("step", "on")
  /\ IF Moving /\ g_lock_step = 1
       THEN /\ g_lock_status' = IF g_lock_status = "UNLOCKING" THEN "UNLOCKED" ELSE "LOCKED"
            /\ stalled' = FALSE
            /\ yblock_report
            /\ yblock_buzz
            /\ UNCHANGED <<g_lock_step, motor>>
       ELSE UNCHANGED <<lockVars, buzzVars, lastReport>>
  /\ UNCHANGED <<senseVars, task>>

(* Mutant: any "on" ends a movement, even one the cam has not begun. *)
StepOn_AnyStep ==
  /\ Take("step", "on")
  /\ Hear("step", "on")
  /\ IF Moving
       THEN /\ g_lock_status' = IF g_lock_status = "UNLOCKING" THEN "UNLOCKED" ELSE "LOCKED"
            /\ motor' = FALSE
            /\ stalled' = FALSE
            /\ yblock_report
            /\ yblock_buzz
            /\ UNCHANGED g_lock_step
       ELSE UNCHANGED <<lockVars, buzzVars, lastReport>>
  /\ UNCHANGED <<senseVars, task>>

StepOn ==
  /\ Take("step", "on")
  /\ Hear("step", "on")
  /\ IF Moving /\ g_lock_step = 1
       THEN /\ g_lock_status' = IF g_lock_status = "UNLOCKING" THEN "UNLOCKED" ELSE "LOCKED"
            /\ motor' = FALSE
            /\ stalled' = FALSE
            /\ yblock_report
            /\ yblock_buzz
            /\ UNCHANGED g_lock_step
       ELSE UNCHANGED <<lockVars, buzzVars, lastReport>>
  /\ UNCHANGED <<senseVars, task>>

(* Mutant: unlocking starts from any state. *)
Unlock_FromAny ==
  /\ Take("cmd", "unlock")
  /\ StartMove("UNLOCKING")
  /\ UNCHANGED <<buzzVars, senseVars, task, lastReport, heard>>

Unlock ==
  /\ Take("cmd", "unlock")
  /\ IF g_lock_status = "LOCKED" THEN StartMove("UNLOCKING") ELSE UNCHANGED lockVars
  /\ UNCHANGED <<buzzVars, senseVars, task, lastReport, heard>>

Report ==
  /\ Take("cmd", "report")
  /\ UNCHANGED lockVars
  /\ yblock_report
  /\ UNCHANGED <<buzzVars, senseVars, task, heard>>

Buzz ==
  /\ Take("cmd", "buzzer")
  /\ yblock_buzz
  /\ UNCHANGED <<lockVars, senseVars, task, lastReport, heard>>

BtnDown ==
  /\ Take("cmd", "btn")
  /\ UNCHANGED <<lockVars, buzzVars, senseVars, task, lastReport, heard>>

(* yblock_adjust starts the motor, puts the task to sleep and stops the motor,
   whatever the lock is doing. *)
Adjust ==
  /\ Take("cmd", "adjust")
  /\ motor' = TRUE
  /\ task' = "adjusting"
  /\ UNCHANGED <<g_lock_status, g_lock_step, stalled, buzzVars, senseVars, lastReport, heard>>

AdjustEnds ==
  /\ task = "adjusting"
  /\ task' = "ready"
  /\ motor' = FALSE
  /\ stalled' = Moving
  /\ UNCHANGED <<g_lock_status, g_lock_step, buzzVars, senseVars, queue, lastReport, heard>>

Task == \/ StatusOn \/ StatusOff \/ StepOff \/ StepOn
        \/ Unlock \/ Report \/ Buzz \/ BtnDown \/ Adjust \/ AdjustEnds

-------------------------------------------------------------------------------
(* The world outside: cloud, button, rider and mechanism. *)

Ask(c) ==
  /\ Len(queue) < QueueLen
  /\ c = "adjust" => "adjust" \in Disturbances
  /\ queue' = Append(queue, [src |-> "cmd", val |-> c])
  /\ UNCHANGED <<lockVars, buzzVars, senseVars, task, lastReport, heard>>

(* The rider pushes the shackle home or pulls it out. *)
Shackle ==
  /\ pin' = [pin EXCEPT !["status"] = ~@]
  /\ UNCHANGED <<lockVars, buzzVars, g_eint_level, bolt, queue, task, lastReport, heard>>

(* Every message of the step switch has been posted and taken. *)
StepCaughtUp ==
  /\ pin["step"] # g_eint_level["step"]
  /\ \A i \in 1 .. Len(queue) : queue[i].src # "step"

CamTurns ==
  /\ motor
  /\ "late" \in Disturbances \/ StepCaughtUp
  /\ pin' = [pin EXCEPT !["step"] = ~@]
  /\ bolt' = IF pin["step"] THEN ~bolt ELSE bolt
  /\ UNCHANGED <<lockVars, buzzVars, g_eint_level, queue, task, lastReport, heard>>

Knock ==
  /\ "noise" \in Disturbances
  /\ pin' = [pin EXCEPT !["step"] = ~@]
  /\ UNCHANGED <<lockVars, buzzVars, g_eint_level, bolt, queue, task, lastReport, heard>>

World == (\E c \in Commands : Ask(c)) \/ Shackle \/ CamTurns \/ Knock

-------------------------------------------------------------------------------
(* yblock_init has registered the interrupts and started a buzz; the bolt is
   where the initial LOCK_STATUS_LOCKED says and the cam rests on its switch. *)
Init ==
  /\ g_lock_status = "LOCKED"
  /\ g_lock_step = 0
  /\ g_eint_level = [s \in Sensors |-> FALSE]
  /\ g_buzzing = TRUE
  /\ motor = FALSE
  /\ buzzer = TRUE
  /\ buzzTimer = "armed"
  /\ queue = <<>>
  /\ task = "ready"
  /\ pin \in [Sensors -> BOOLEAN]
  /\ pin["step"] => "noise" \in Disturbances
  /\ bolt = TRUE
  /\ lastReport = "nothing"
  /\ stalled = FALSE
  /\ heard = [s \in Sensors |-> "off"]

Next == \/ Task
        \/ \E s \in Sensors : yblock_eint(s)
        \/ BuzzTimerFires \/ BuzzTimerReturns
        \/ World

(* The task, the interrupts and the timer run; a driven motor turns the cam.
   Nothing is assumed of the cloud, the rider or a knock. *)
Fairness ==
  /\ WF_vars(Task)
  /\ \A s \in Sensors : SF_vars(yblock_eint(s))
  /\ WF_vars(BuzzTimerFires) /\ WF_vars(BuzzTimerReturns)
  /\ WF_vars(CamTurns)

Spec == Init /\ [][Next]_vars

FairSpec == Spec /\ Fairness

-------------------------------------------------------------------------------
(* Every variable stays in its range, and the mailbox in its bound. *)
TypeOK ==
  /\ g_lock_status \in Statuses
  /\ g_lock_step \in {0, 1}
  /\ g_eint_level \in [Sensors -> BOOLEAN]
  /\ g_buzzing \in BOOLEAN
  /\ motor \in BOOLEAN
  /\ buzzer \in BOOLEAN
  /\ buzzTimer \in {"off", "armed", "firing"}
  /\ queue \in Seq(Message)
  /\ Len(queue) <= QueueLen
  /\ task \in {"ready", "adjusting"}
  /\ pin \in [Sensors -> BOOLEAN]
  /\ bolt \in BOOLEAN
  /\ lastReport \in {"nothing", "locked", "unlocked"}
  /\ stalled \in BOOLEAN
  /\ heard \in [Sensors -> {"on", "off"}]

(* The motor is driven exactly while the lock is in a movement that no adjust
   has cut short, or an adjust is under way: no order of switch messages,
   commands and adjusts leaves it running at rest, or stops it in a movement in
   any other way (yblock_unlock, yblock_status_notify, yblock_step_notify,
   yblock_adjust). *)
MotorDriven == motor <=> (task = "adjusting" \/ (Moving /\ ~stalled))

(* The messages of one switch reach the task in strict alternation and none is
   missing: whatever the task last heard, the next message of that switch in the
   mailbox says the opposite, and the interrupt waits for the opposite of the
   last one (yblock_eint_status, yblock_eint_step).  Place 0 is what was heard. *)
Places(s) == {0} \cup {i \in 1 .. Len(queue) : queue[i].src = s}
Said(s, i) == IF i = 0 THEN heard[s] ELSE queue[i].val
SwitchesAlternate ==
  \A s \in Sensors : \A i \in Places(s) :
    /\ \A j \in Places(s) :
         i < j /\ (\A k \in Places(s) : ~(i < k /\ k < j)) => Said(s, i) # Said(s, j)
    /\ (\A k \in Places(s) : k <= i) => (g_eint_level[s] <=> Said(s, i) = "on")

(* The buzzer never sounds without an armed timer that will silence it, and while
   it is taken a callback that frees it is still to come: the two tasks that
   share g_buzzing cannot leave it sounding or taken for good (yblock_buzz,
   yblock_stop_buzz). *)
BuzzerReleased ==
  /\ buzzer => buzzTimer = "armed"
  /\ g_buzzing => buzzTimer # "off"

(* At rest, the last report made is not out of date: it says "locked" only if the
   lock has not come to rest unlocked since, and the other way round (yblock_report
   after each completed movement).  Whether it gets to the cloud is the session's
   matter: off line publish_message only keeps it for a timer that sends nothing. *)
LastReportCurrent ==
  /\ g_lock_status = "UNLOCKED" => lastReport = "unlocked"
  /\ g_lock_status = "LOCKED" => lastReport # "unlocked"

(* With a mechanism that is not upset, the software's idea of the lock and the
   position of the bolt agree whenever the lock is at rest: no interleaving of
   interrupts, mailbox and motor makes the lock miss or double-count a pass of
   the cam. *)
BoltMatchesStatus ==
  (Disturbances = {} /\ ~Moving) => (bolt <=> g_lock_status = "LOCKED")

(* The lock implements the cycle of LockCycle. *)
Cycle == INSTANCE LockCycle WITH phase <- g_lock_status, said <- lastReport
ImplementsLockCycle == Cycle!Spec

(* A movement comes to its end, unless an adjust cut it short. *)
MovementEnds == Moving ~> (~Moving \/ stalled)

(* The buzzer always falls silent and can be used again. *)
BuzzerStops == g_buzzing ~> ~g_buzzing

==============================================================================
