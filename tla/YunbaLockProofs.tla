--------------------------- MODULE YunbaLockProofs ---------------------------
(***************************************************************************)
(* What holds of YunbaLock for every bound of the mailbox and every set of *)
(* disturbances.                                                           *)
(***************************************************************************)
EXTENDS YunbaLock, SequenceTheorems, TLAPS

(* A handler that takes a message leaves the rest of the mailbox. *)
LEMMA TakeType ==
  ASSUME TypeOK, NEW s, NEW v, Take(s, v)
  PROVE  queue' \in Seq(Message) /\ Len(queue') <= QueueLen
<1>1. queue \in Seq(Message) /\ queue # <<>>
  BY DEF TypeOK, Take
<1>2. queue' = Tail(queue)
  BY DEF Take
<1>3. Tail(queue) \in Seq(Message) /\ Len(Tail(queue)) = Len(queue) - 1
  BY <1>1, HeadTailProperties
<1>4. Len(queue) \in Nat /\ Len(queue) <= QueueLen
  BY <1>1, LenProperties DEF TypeOK
<1> QED
  BY <1>2, <1>3, <1>4, QueueLenAssumption

(* What is posted below the bound stays a mailbox within the bound. *)
LEMMA PostType ==
  ASSUME TypeOK, NEW m \in Message, Len(queue) < QueueLen
  PROVE  Append(queue, m) \in Seq(Message) /\ Len(Append(queue, m)) <= QueueLen
<1>1. Append(queue, m) \in Seq(Message) /\ Len(Append(queue, m)) = Len(queue) + 1
  BY AppendProperties DEF TypeOK
<1>2. Len(queue) \in Nat
  BY LenProperties DEF TypeOK
<1> QED
  BY <1>1, <1>2, QueueLenAssumption

LEMMA LockTypedInit == Init => TypeOK
<1> SUFFICES ASSUME Init PROVE TypeOK
  OBVIOUS
<1>1. queue \in Seq(Message) /\ Len(queue) = 0
  BY EmptySeq DEF Init
<1>2. Len(queue) <= QueueLen
  BY <1>1, QueueLenAssumption
<1>3. g_eint_level \in [Sensors -> BOOLEAN] /\ heard \in [Sensors -> {"on", "off"}]
  BY DEF Init
<1> QED
  BY <1>1, <1>2, <1>3 DEF Init, TypeOK, Statuses

LEMMA LockTypedStep == TypeOK /\ [Next]_vars => TypeOK'
<1> SUFFICES ASSUME TypeOK, [Next]_vars PROVE TypeOK'
  OBVIOUS
<1> USE DEF TypeOK
<1>1. CASE StatusOn
  <2>1. queue' \in Seq(Message) /\ Len(queue') <= QueueLen
    BY <1>1, TakeType DEF StatusOn
  <2>2. heard' \in [Sensors -> {"on", "off"}]
    BY <1>1 DEF StatusOn, Hear, Sensors
  <2>3. /\ g_lock_status' \in Statuses /\ g_lock_step' \in {0, 1}
        /\ motor' \in BOOLEAN /\ stalled' \in BOOLEAN
    BY <1>1 DEF StatusOn, StartMove, lockVars, Statuses
  <2>4. g_buzzing' \in BOOLEAN /\ buzzer' \in BOOLEAN /\ buzzTimer' \in {"off", "armed", "firing"}
    BY <1>1 DEF StatusOn, yblock_buzz, buzzVars
  <2> QED
    BY <1>1, <2>1, <2>2, <2>3, <2>4 DEF StatusOn, senseVars
<1>2. CASE StatusOff
  <2>1. queue' \in Seq(Message) /\ Len(queue') <= QueueLen
    BY <1>2, TakeType DEF StatusOff
  <2> QED
    BY <1>2, <2>1 DEF StatusOff, Hear, lockVars, buzzVars, senseVars, Sensors
<1>3. CASE StepOff
  <2>1. queue' \in Seq(Message) /\ Len(queue') <= QueueLen
    BY <1>3, TakeType DEF StepOff
  <2> QED
    BY <1>3, <2>1 DEF StepOff, Hear, buzzVars, senseVars, Sensors
<1>4. CASE StepOn
  <2>1. queue' \in Seq(Message) /\ Len(queue') <= QueueLen
    BY <1>4, TakeType DEF StepOn
  <2>2. heard' \in [Sensors -> {"on", "off"}]
    BY <1>4 DEF StepOn, Hear, Sensors
  <2>3. /\ g_lock_status' \in Statuses /\ g_lock_step' \in {0, 1}
        /\ motor' \in BOOLEAN /\ stalled' \in BOOLEAN
        /\ lastReport' \in {"nothing", "locked", "unlocked"}
    BY <1>4 DEF StepOn, yblock_report, lockVars, Statuses
  <2>4. g_buzzing' \in BOOLEAN /\ buzzer' \in BOOLEAN /\ buzzTimer' \in {"off", "armed", "firing"}
    BY <1>4 DEF StepOn, yblock_buzz, buzzVars
  <2> QED
    BY <1>4, <2>1, <2>2, <2>3, <2>4 DEF StepOn, senseVars
<1>5. CASE Unlock
  <2>1. queue' \in Seq(Message) /\ Len(queue') <= QueueLen
    BY <1>5, TakeType DEF Unlock
  <2>2. /\ g_lock_status' \in Statuses /\ g_lock_step' \in {0, 1}
        /\ motor' \in BOOLEAN /\ stalled' \in BOOLEAN
    BY <1>5 DEF Unlock, StartMove, lockVars, Statuses
  <2> QED
    BY <1>5, <2>1, <2>2 DEF Unlock, buzzVars, senseVars
<1>6. CASE Report
  <2>1. queue' \in Seq(Message) /\ Len(queue') <= QueueLen
    BY <1>6, TakeType DEF Report
  <2> QED
    BY <1>6, <2>1 DEF Report, yblock_report, lockVars, buzzVars, senseVars
<1>7. CASE Buzz
  <2>1. queue' \in Seq(Message) /\ Len(queue') <= QueueLen
    BY <1>7, TakeType DEF Buzz
  <2> QED
    BY <1>7, <2>1 DEF Buzz, yblock_buzz, lockVars, senseVars
<1>8. CASE BtnDown
  <2>1. queue' \in Seq(Message) /\ Len(queue') <= QueueLen
    BY <1>8, TakeType DEF BtnDown
  <2> QED
    BY <1>8, <2>1 DEF BtnDown, lockVars, buzzVars, senseVars
<1>9. CASE Adjust
  <2>1. queue' \in Seq(Message) /\ Len(queue') <= QueueLen
    BY <1>9, TakeType DEF Adjust
  <2> QED
    BY <1>9, <2>1 DEF Adjust, buzzVars, senseVars
<1>10. CASE AdjustEnds
  <2>1. Moving \in BOOLEAN
    BY DEF Moving
  <2> QED
    BY <1>10, <2>1 DEF AdjustEnds, buzzVars, senseVars
<1>11. ASSUME NEW s \in Sensors, yblock_eint(s) PROVE TypeOK'
  <2> DEFINE m == [src |-> s, val |-> IF g_eint_level[s] THEN "off" ELSE "on"]
  <2>1. m \in Message
    BY DEF Message, SensorMessage
  <2>2. queue' \in Seq(Message) /\ Len(queue') <= QueueLen
    BY <1>11, <2>1, PostType DEF yblock_eint
  <2> QED
    BY <1>11, <2>2 DEF yblock_eint, lockVars, buzzVars
<1>12. CASE BuzzTimerFires
  BY <1>12 DEF BuzzTimerFires, lockVars, senseVars
<1>13. CASE BuzzTimerReturns
  BY <1>13 DEF BuzzTimerReturns, lockVars, senseVars
<1>14. ASSUME NEW c \in Commands, Ask(c) PROVE TypeOK'
  <2> DEFINE m == [src |-> "cmd", val |-> c]
  <2>1. m \in Message
    BY DEF Message, CommandMessage
  <2>2. queue' \in Seq(Message) /\ Len(queue') <= QueueLen
    BY <1>14, <2>1, PostType DEF Ask
  <2> QED
    BY <1>14, <2>2 DEF Ask, lockVars, buzzVars, senseVars
<1>15. CASE Shackle
  BY <1>15 DEF Shackle, lockVars, buzzVars, Sensors
<1>16. CASE CamTurns
  BY <1>16 DEF CamTurns, lockVars, buzzVars, Sensors
<1>17. CASE Knock
  BY <1>17 DEF Knock, lockVars, buzzVars, Sensors
<1>18. CASE UNCHANGED vars
  BY <1>18 DEF vars, lockVars, buzzVars, senseVars
<1> QED
  BY <1>1, <1>2, <1>3, <1>4, <1>5, <1>6, <1>7, <1>8, <1>9, <1>10, <1>11, <1>12, <1>13,
     <1>14, <1>15, <1>16, <1>17, <1>18 DEF Next, Task, World

(* Every variable keeps its range and the mailbox its bound, whatever the
   handlers, the interrupts, the timer and the world do (yunba_lock.c). *)
THEOREM LockTyped == Spec => []TypeOK
<1>1. Init => TypeOK
  BY LockTypedInit
<1>2. TypeOK /\ [Next]_vars => TypeOK'
  BY LockTypedStep
<1> QED
  BY <1>1, <1>2, PTL DEF Spec

(* Only these five handlers write the lock's own variables. *)
LEMMA LockVarsKept ==
  [Next]_vars =>
    \/ StatusOn \/ StepOff \/ StepOn \/ Unlock \/ Adjust \/ AdjustEnds
    \/ UNCHANGED <<lockVars, task>>
BY DEF Next, Task, World, vars, StatusOff, Report, Buzz, BtnDown, yblock_eint, BuzzTimerFires,
       BuzzTimerReturns, Ask, Shackle, CamTurns, Knock

LEMMA MotorStep == TypeOK /\ MotorDriven /\ [Next]_vars => MotorDriven'
<1> SUFFICES ASSUME TypeOK, MotorDriven, [Next]_vars PROVE MotorDriven'
  OBVIOUS
<1> USE DEF MotorDriven, Moving, TypeOK
<1>1. CASE StatusOn
  BY <1>1 DEF StatusOn, Take, StartMove, lockVars
<1>2. CASE StepOff
  BY <1>2 DEF StepOff
<1>3. CASE StepOn
  BY <1>3 DEF StepOn, Take, lockVars
<1>4. CASE Unlock
  BY <1>4 DEF Unlock, Take, StartMove, lockVars
<1>5. CASE Adjust
  BY <1>5 DEF Adjust
<1>6. CASE AdjustEnds
  BY <1>6 DEF AdjustEnds
<1>7. CASE UNCHANGED <<lockVars, task>>
  BY <1>7 DEF lockVars
<1> QED
  BY <1>1, <1>2, <1>3, <1>4, <1>5, <1>6, <1>7, LockVarsKept

(* The motor is driven exactly during an adjust or a movement that no adjust has
   cut short (yblock_unlock, yblock_status_notify, yblock_step_notify,
   yblock_adjust). *)
THEOREM MotorSafe == Spec => []MotorDriven
<1>1. Init => MotorDriven
  BY DEF Init, MotorDriven, Moving
<1>2. TypeOK /\ MotorDriven /\ [Next]_vars => MotorDriven'
  BY MotorStep
<1> QED
  BY <1>1, <1>2, LockTyped, PTL DEF Spec

(* Only these steps touch the buzzer, its timer or g_buzzing. *)
LEMMA BuzzVarsKept ==
  [Next]_vars => \/ yblock_buzz \/ BuzzTimerFires \/ BuzzTimerReturns \/ UNCHANGED buzzVars
BY DEF Next, Task, World, vars, StatusOn, StatusOff, StepOff, StepOn, Unlock, Report, Buzz,
       BtnDown, Adjust, AdjustEnds, yblock_eint, Ask, Shackle, CamTurns, Knock

(* The buzzer never sounds without an armed timer and is never taken with no
   callback to come, for every interleaving of the lock task and the MMI task
   (yblock_buzz, yblock_stop_buzz). *)
THEOREM BuzzerSafe == Spec => []BuzzerReleased
<1>1. Init => BuzzerReleased
  BY DEF Init, BuzzerReleased
<1>2. TypeOK /\ BuzzerReleased /\ [Next]_vars => BuzzerReleased'
  <2> SUFFICES ASSUME TypeOK, BuzzerReleased, [Next]_vars PROVE BuzzerReleased'
    OBVIOUS
  <2> USE DEF BuzzerReleased, TypeOK
  <2>1. CASE yblock_buzz
    BY <2>1 DEF yblock_buzz
  <2>2. CASE BuzzTimerFires
    BY <2>2 DEF BuzzTimerFires
  <2>3. CASE BuzzTimerReturns
    BY <2>3 DEF BuzzTimerReturns
  <2>4. CASE UNCHANGED buzzVars
    BY <2>4 DEF buzzVars
  <2> QED
    BY <2>1, <2>2, <2>3, <2>4, BuzzVarsKept
<1> QED
  BY <1>1, <1>2, LockTyped, PTL DEF Spec

(* How one step moves the lock through its cycle and what it reports. *)
LEMMA CycleStep ==
  TypeOK /\ [Next]_vars =>
    \/ g_lock_status = "LOCKED" /\ g_lock_status' = "UNLOCKING" /\ lastReport' = lastReport
    \/ g_lock_status = "UNLOCKED" /\ g_lock_status' = "LOCKING" /\ lastReport' = lastReport
    \/ /\ g_lock_status = "UNLOCKING" /\ g_lock_status' = "UNLOCKED" /\ lastReport' = "unlocked"
    \/ /\ g_lock_status = "LOCKING" /\ g_lock_status' = "LOCKED" /\ lastReport' = "locked"
    \/ /\ g_lock_status' = g_lock_status
       /\ lastReport' = IF g_lock_status = "LOCKED" THEN "locked" ELSE "unlocked"
    \/ g_lock_status' = g_lock_status /\ lastReport' = lastReport
<1> SUFFICES ASSUME TypeOK, [Next]_vars
             PROVE  \/ g_lock_status = "LOCKED" /\ g_lock_status' = "UNLOCKING" /\ lastReport' = lastReport
                    \/ g_lock_status = "UNLOCKED" /\ g_lock_status' = "LOCKING" /\ lastReport' = lastReport
                    \/ /\ g_lock_status = "UNLOCKING" /\ g_lock_status' = "UNLOCKED" /\ lastReport' = "unlocked"
                    \/ /\ g_lock_status = "LOCKING" /\ g_lock_status' = "LOCKED" /\ lastReport' = "locked"
                    \/ /\ g_lock_status' = g_lock_status
                       /\ lastReport' = IF g_lock_status = "LOCKED" THEN "locked" ELSE "unlocked"
                    \/ g_lock_status' = g_lock_status /\ lastReport' = lastReport
  OBVIOUS
<1>1. CASE StatusOn
  BY <1>1 DEF StatusOn, StartMove, lockVars
<1>2. CASE StepOn
  BY <1>2 DEF StepOn, Moving, yblock_report, lockVars
<1>3. CASE Unlock
  BY <1>3 DEF Unlock, StartMove, lockVars
<1>4. CASE Report
  BY <1>4 DEF Report, yblock_report, lockVars
<1>5. CASE UNCHANGED <<g_lock_status, lastReport>>
  BY <1>5
<1>6. \/ StatusOn \/ StepOn \/ Unlock \/ Report \/ UNCHANGED <<g_lock_status, lastReport>>
  BY DEF Next, Task, World, vars, lockVars, StatusOff, StepOff, Buzz, BtnDown, Adjust, AdjustEnds,
         yblock_eint, BuzzTimerFires, BuzzTimerReturns, Ask, Shackle, CamTurns, Knock
<1> QED
  BY <1>1, <1>2, <1>3, <1>4, <1>5, <1>6

(* At rest the last report made, whether or not it is sent, is not out of date
   (yblock_report in yblock_step_notify and on the report command). *)
THEOREM ReportsCurrent == Spec => []LastReportCurrent
<1>1. Init => LastReportCurrent
  BY DEF Init, LastReportCurrent
<1>2. TypeOK /\ LastReportCurrent /\ [Next]_vars => LastReportCurrent'
  BY CycleStep DEF LastReportCurrent
<1> QED
  BY <1>1, <1>2, LockTyped, PTL DEF Spec

(* The lock of yunba_lock.c implements the cycle of LockCycle: every step of every
   task, interrupt and timer is a step of the cycle or leaves it as it is. *)
THEOREM LockRefinesCycle == Spec => ImplementsLockCycle
<1>1. Init => Cycle!Init
  BY DEF Init, Cycle!Init
<1>2. TypeOK /\ [Next]_vars => [Cycle!Next]_(Cycle!vars)
  BY CycleStep DEF Cycle!Next, Cycle!vars, Cycle!Open, Cycle!Close, Cycle!Arrive, Cycle!Tell,
                   Cycle!Answer
<1> QED
  BY <1>1, <1>2, LockTyped, PTL DEF Spec, ImplementsLockCycle, Cycle!Spec

-------------------------------------------------------------------------------
(* The undisturbed mechanism.  What remains of the mailbox after a message was
   taken from its head, or one posted at its end. *)

LEMMA TakeShifts ==
  ASSUME TypeOK, NEW s, NEW v, Take(s, v)
  PROVE  /\ Len(queue) \in Nat /\ Len(queue) >= 1
         /\ queue[1] = [src |-> s, val |-> v]
         /\ Len(queue') = Len(queue) - 1
         /\ \A i \in 1 .. Len(queue') : i + 1 \in 1 .. Len(queue) /\ queue'[i] = queue[i + 1]
<1>1. queue \in Seq(Message) /\ queue # <<>>
  BY DEF TypeOK, Take
<1>2. queue' = Tail(queue) /\ Head(queue) = [src |-> s, val |-> v]
  BY DEF Take
<1>3. Len(queue) \in Nat /\ Len(queue) >= 1
  BY <1>1, EmptySeq
<1> QED
  BY <1>1, <1>2, <1>3

LEMMA PostExtends ==
  ASSUME TypeOK, NEW m \in Message, queue' = Append(queue, m)
  PROVE  /\ Len(queue) \in Nat
         /\ Len(queue') = Len(queue) + 1
         /\ queue'[Len(queue')] = m
         /\ \A i \in 1 .. Len(queue') : i = Len(queue') \/ (i \in 1 .. Len(queue) /\ queue'[i] = queue[i])
<1>1. queue \in Seq(Message)
  BY DEF TypeOK
<1> QED
  BY <1>1

(* Why BoltMatchesStatus holds, as an inductive invariant: at most one step
   message is under way and it says where the cam is; before the task has taken
   the "off" the bolt is where the movement began, and it reaches the other end
   together with an edge the task has still to hear of. *)
BoltTracked ==
  Disturbances = {} =>
    /\ task = "ready"
    /\ \A i \in 1 .. Len(queue) :
         /\ queue[i].val # "adjust"
         /\ queue[i].src = "step" =>
              /\ pin["step"] # g_eint_level["step"]
              /\ queue[i].val = IF pin["step"] THEN "off" ELSE "on"
              /\ \A j \in 1 .. Len(queue) : queue[j].src = "step" => i = j
    /\ ~Moving => ~pin["step"] /\ (bolt <=> g_lock_status = "LOCKED")
    /\ Moving /\ g_lock_step = 0 =>
         /\ bolt <=> g_lock_status = "UNLOCKING"
         /\ pin["step"] => ~StepCaughtUp
    /\ Moving /\ g_lock_step = 1 =>
         /\ bolt <=> (pin["step"] <=> g_lock_status = "UNLOCKING")
         /\ pin["step"] <=> StepCaughtUp

(* The mailbox part of BoltTracked. *)
OneStepUnderWay ==
  \A i \in 1 .. Len(queue) :
    queue[i].src = "step" =>
      /\ pin["step"] # g_eint_level["step"]
      /\ queue[i].val = IF pin["step"] THEN "off" ELSE "on"
      /\ \A j \in 1 .. Len(queue) : queue[j].src = "step" => i = j

NoAdjust == \A i \in 1 .. Len(queue) : queue[i].val # "adjust"

(* Taking a message keeps it; if the message was the step message, none is left. *)
LEMMA TakeKeepsOneStep ==
  ASSUME TypeOK, OneStepUnderWay, NEW s, NEW v, Take(s, v), UNCHANGED senseVars
  PROVE  /\ OneStepUnderWay'
         /\ s # "step" => StepCaughtUp' = StepCaughtUp
         /\ s = "step" => /\ StepCaughtUp' /\ ~StepCaughtUp
                          /\ v = IF pin["step"] THEN "off" ELSE "on"
<1> USE DEF OneStepUnderWay, StepCaughtUp, senseVars
<1>1. /\ Len(queue) \in Nat /\ Len(queue) >= 1
      /\ queue[1] = [src |-> s, val |-> v]
      /\ Len(queue') = Len(queue) - 1
      /\ \A i \in 1 .. Len(queue') : i + 1 \in 1 .. Len(queue) /\ queue'[i] = queue[i + 1]
  BY TakeShifts
<1>2. 1 \in 1 .. Len(queue)
  BY <1>1
<1>3. OneStepUnderWay'
  <2>1. ASSUME NEW i \in 1 .. Len(queue'), queue'[i].src = "step",
               NEW j \in 1 .. Len(queue'), queue'[j].src = "step"
        PROVE  i = j
    <3>1. i + 1 = j + 1
      BY <1>1, <2>1
    <3> QED
      BY <3>1
  <2>2. ASSUME NEW i \in 1 .. Len(queue')
        PROVE  queue'[i].src = "step" =>
                 /\ pin["step"] # g_eint_level["step"]
                 /\ queue'[i].val = IF pin["step"] THEN "off" ELSE "on"
    BY <1>1
  <2> QED
    BY <2>1, <2>2
<1>4. ASSUME s # "step" PROVE StepCaughtUp' = StepCaughtUp
  <2>1. ASSUME NEW i \in 1 .. Len(queue), queue[i].src = "step"
        PROVE  \E k \in 1 .. Len(queue') : queue'[k].src = "step"
    <3>1. i # 1
      BY <1>1, <1>4, <2>1
    <3>2. i - 1 \in 1 .. Len(queue') /\ queue'[i - 1] = queue[i]
      BY <1>1, <3>1
    <3> QED
      BY <2>1, <3>2
  <2>2. ASSUME NEW k \in 1 .. Len(queue'), queue'[k].src = "step"
        PROVE  \E i \in 1 .. Len(queue) : queue[i].src = "step"
    BY <1>1, <2>2
  <2> QED
    BY <2>1, <2>2
<1>5. ASSUME s = "step" PROVE /\ StepCaughtUp' /\ ~StepCaughtUp
                              /\ v = IF pin["step"] THEN "off" ELSE "on"
  <2>1. queue[1].src = "step" /\ queue[1].val = v
    BY <1>1, <1>5
  <2>2. ASSUME NEW k \in 1 .. Len(queue'), queue'[k].src = "step" PROVE FALSE
    <3>1. k + 1 \in 1 .. Len(queue) /\ queue[k + 1].src = "step"
      BY <1>1, <2>2
    <3>2. k + 1 = 1
      BY <2>1, <1>2, <3>1
    <3> QED
      BY <3>2
  <2> QED
    BY <1>2, <2>1, <2>2
<1> QED
  BY <1>3, <1>4, <1>5

(* Posting a command keeps it and the cam's freedom to turn. *)
LEMMA AskKeepsOneStep ==
  ASSUME TypeOK, OneStepUnderWay, NEW c \in Commands, Ask(c)
  PROVE  OneStepUnderWay' /\ StepCaughtUp' = StepCaughtUp
<1> DEFINE m == [src |-> "cmd", val |-> c]
<1>1. m \in Message /\ m.src # "step"
  BY DEF Message, CommandMessage
<1>2. queue' = Append(queue, m) /\ UNCHANGED senseVars
  BY DEF Ask
<1> HIDE DEF m
<1>3. /\ Len(queue) \in Nat
      /\ Len(queue') = Len(queue) + 1
      /\ queue'[Len(queue')] = m
      /\ \A i \in 1 .. Len(queue') : i = Len(queue') \/ (i \in 1 .. Len(queue) /\ queue'[i] = queue[i])
  BY <1>1, <1>2, PostExtends
<1>4. \A i \in 1 .. Len(queue') :
        queue'[i].src = "step" => i \in 1 .. Len(queue) /\ queue'[i] = queue[i]
  BY <1>1, <1>3
<1>5. OneStepUnderWay'
  BY <1>1, <1>2, <1>3, <1>4 DEF OneStepUnderWay, senseVars
<1>6. \A i \in 1 .. Len(queue) : i \in 1 .. Len(queue') /\ queue'[i] = queue[i]
  BY <1>3
<1>7. StepCaughtUp' = StepCaughtUp
  BY <1>2, <1>4, <1>6 DEF StepCaughtUp, senseVars
<1> QED
  BY <1>5, <1>7

(* An interrupt keeps it: the edge it posts is the only step message. *)
LEMMA EdgeKeepsOneStep ==
  ASSUME TypeOK, OneStepUnderWay, NEW s \in Sensors, yblock_eint(s)
  PROVE  OneStepUnderWay' /\ StepCaughtUp' = StepCaughtUp
<1> DEFINE m == [src |-> s, val |-> IF g_eint_level[s] THEN "off" ELSE "on"]
<1>1. m \in Message /\ m.src = s
  BY DEF Message, SensorMessage
<1>2. /\ queue' = Append(queue, m) /\ pin' = pin
      /\ pin[s] = g_eint_level[s]
      /\ g_eint_level' = [g_eint_level EXCEPT ![s] = ~@]
      /\ m.val = IF pin[s] THEN "off" ELSE "on"
  BY DEF yblock_eint
<1>3. /\ pin \in [Sensors -> BOOLEAN] /\ g_eint_level \in [Sensors -> BOOLEAN]
      /\ pin[s] \in BOOLEAN /\ "step" \in Sensors
  BY DEF TypeOK, Sensors
<1> HIDE DEF m
<1>4. /\ Len(queue) \in Nat
      /\ Len(queue') = Len(queue) + 1
      /\ queue'[Len(queue')] = m
      /\ \A i \in 1 .. Len(queue') : i = Len(queue') \/ (i \in 1 .. Len(queue) /\ queue'[i] = queue[i])
  BY <1>1, <1>2, PostExtends
<1>5. \A i \in 1 .. Len(queue) : i \in 1 .. Len(queue') /\ queue'[i] = queue[i]
  BY <1>4
<1>6. CASE s = "step"
  <2>1. pin'["step"] # g_eint_level'["step"]
    BY <1>2, <1>3, <1>6
  <2>2. \A i \in 1 .. Len(queue) : queue[i].src # "step"
    BY <1>2, <1>6 DEF OneStepUnderWay
  <2>3. OneStepUnderWay'
    BY <1>1, <1>2, <1>4, <1>6, <2>1, <2>2 DEF OneStepUnderWay
  <2>4. ~StepCaughtUp /\ ~StepCaughtUp'
    <3>1. Len(queue') \in 1 .. Len(queue')
      BY <1>4
    <3> QED
      BY <1>1, <1>2, <1>4, <1>6, <3>1 DEF StepCaughtUp
  <2> QED
    BY <2>3, <2>4 DEF StepCaughtUp
<1>7. CASE s # "step"
  <2>1. g_eint_level'["step"] = g_eint_level["step"]
    BY <1>2, <1>3, <1>7
  <2>2. \A i \in 1 .. Len(queue') :
          queue'[i].src = "step" => i \in 1 .. Len(queue) /\ queue'[i] = queue[i]
    BY <1>1, <1>4, <1>7
  <2>3. OneStepUnderWay'
    BY <1>1, <1>2, <1>4, <2>1, <2>2 DEF OneStepUnderWay
  <2>4. StepCaughtUp' = StepCaughtUp
    BY <1>2, <1>5, <2>1, <2>2 DEF StepCaughtUp
  <2> QED
    BY <2>3, <2>4
<1> QED
  BY <1>6, <1>7

(* What a step does to the mailbox. *)
LEMMA QueueStep ==
  [Next]_vars =>
    \/ \E s, v : Take(s, v)
    \/ \E s \in Sensors : yblock_eint(s)
    \/ \E c \in Commands : Ask(c)
    \/ UNCHANGED queue
BY DEF Next, Task, World, vars, StatusOn, StatusOff, StepOff, StepOn, Unlock, Report, Buzz, BtnDown,
       Adjust, AdjustEnds, BuzzTimerFires, BuzzTimerReturns, Shackle, CamTurns, Knock

LEMMA NoAdjustStep ==
  ASSUME "adjust" \notin Disturbances, TypeOK, NoAdjust, [Next]_vars
  PROVE  NoAdjust'
<1>1. ASSUME NEW s, NEW v, Take(s, v) PROVE NoAdjust'
  BY <1>1, TakeShifts DEF NoAdjust
<1>2. ASSUME NEW m \in Message, queue' = Append(queue, m), m.val # "adjust" PROVE NoAdjust'
  BY <1>2, PostExtends DEF NoAdjust
<1>3. ASSUME NEW s \in Sensors, yblock_eint(s) PROVE NoAdjust'
  <2> DEFINE m == [src |-> s, val |-> IF g_eint_level[s] THEN "off" ELSE "on"]
  <2>1. m \in Message /\ m.val # "adjust" /\ queue' = Append(queue, m)
    BY <1>3 DEF Message, SensorMessage, yblock_eint
  <2> QED
    BY <1>2, <2>1
<1>4. ASSUME NEW c \in Commands, Ask(c) PROVE NoAdjust'
  <2> DEFINE m == [src |-> "cmd", val |-> c]
  <2>1. m \in Message /\ m.val # "adjust" /\ queue' = Append(queue, m)
    BY <1>4 DEF Message, CommandMessage, Ask
  <2> QED
    BY <1>2, <2>1
<1> QED
  BY <1>1, <1>3, <1>4, QueueStep DEF NoAdjust

(* With nothing to upset the mechanism, BoltTracked is inductive: one step message
   at most is under way, and it tells where cam and bolt are. *)
THEOREM BoltFollowed == Spec => []BoltTracked
<1> USE DEF BoltTracked
<1>1. Init => BoltTracked
  BY DEF Init, Moving
<1>2. TypeOK /\ BoltTracked /\ MotorDriven /\ [Next]_vars => BoltTracked'
  <2> SUFFICES ASSUME TypeOK, BoltTracked, MotorDriven, [Next]_vars, Disturbances = {}
               PROVE  BoltTracked'
    OBVIOUS
  <2>0. OneStepUnderWay /\ NoAdjust /\ task = "ready"
    BY DEF OneStepUnderWay, NoAdjust
  <2>n. NoAdjust'
    BY <2>0, NoAdjustStep
  <2> DEFINE Place(st, n, p, b, caught) ==
               /\ st \notin {"LOCKING", "UNLOCKING"} => ~p /\ (b <=> st = "LOCKED")
               /\ st \in {"LOCKING", "UNLOCKING"} /\ n = 0 => (b <=> st = "UNLOCKING") /\ (p => ~caught)
               /\ st \in {"LOCKING", "UNLOCKING"} /\ n = 1 =>
                    (b <=> (p <=> st = "UNLOCKING")) /\ (p <=> caught)
  <2> DEFINE Here == Place(g_lock_status, g_lock_step, pin["step"], bolt, StepCaughtUp)
  <2>a. Here
    BY DEF Moving
  <2>b. OneStepUnderWay' /\ task' = "ready" /\ Here' => BoltTracked'
    BY <2>n DEF OneStepUnderWay, NoAdjust, Moving
  <2>c. /\ bolt \in BOOLEAN /\ pin["step"] \in BOOLEAN /\ g_eint_level["step"] \in BOOLEAN
        /\ StepCaughtUp \in BOOLEAN /\ g_lock_step \in {0, 1} /\ g_lock_status \in Statuses
    BY DEF TypeOK, Sensors, StepCaughtUp
  <2>d. motor => Moving
    BY <2>0 DEF MotorDriven
  <2>1. CASE StatusOn
    <3>1. OneStepUnderWay' /\ StepCaughtUp' = StepCaughtUp
      BY <2>0, <2>1, TakeKeepsOneStep DEF StatusOn
    <3>2. Here'
      BY <2>1, <2>a, <2>c, <3>1 DEF StatusOn, StartMove, lockVars, senseVars
    <3> QED
      BY <2>0, <2>1, <2>b, <3>1, <3>2 DEF StatusOn
  <2>2. CASE StatusOff
    <3>1. OneStepUnderWay' /\ StepCaughtUp' = StepCaughtUp
      BY <2>0, <2>2, TakeKeepsOneStep DEF StatusOff
    <3> QED
      BY <2>0, <2>2, <2>a, <2>b, <3>1 DEF StatusOff, lockVars, senseVars
  <2>3. CASE StepOff
    <3>1. OneStepUnderWay' /\ StepCaughtUp' /\ ~StepCaughtUp /\ pin["step"]
      BY <2>0, <2>3, <2>c, TakeKeepsOneStep DEF StepOff
    <3>2. Here'
      BY <2>3, <2>a, <2>c, <3>1 DEF StepOff, Moving, senseVars
    <3> QED
      BY <2>0, <2>3, <2>b, <3>1, <3>2 DEF StepOff
  <2>4. CASE StepOn
    <3>1. OneStepUnderWay' /\ StepCaughtUp' /\ ~StepCaughtUp /\ ~pin["step"]
      BY <2>0, <2>4, <2>c, TakeKeepsOneStep DEF StepOn
    <3>2. Here'
      BY <2>4, <2>a, <2>c, <3>1 DEF StepOn, Moving, lockVars, senseVars, Statuses
    <3> QED
      BY <2>0, <2>4, <2>b, <3>1, <3>2 DEF StepOn
  <2>5. CASE Unlock
    <3>1. OneStepUnderWay' /\ StepCaughtUp' = StepCaughtUp
      BY <2>0, <2>5, TakeKeepsOneStep DEF Unlock
    <3>2. Here'
      BY <2>5, <2>a, <2>c, <3>1 DEF Unlock, StartMove, lockVars, senseVars
    <3> QED
      BY <2>0, <2>5, <2>b, <3>1, <3>2 DEF Unlock
  <2>6. CASE Report
    <3>1. OneStepUnderWay' /\ StepCaughtUp' = StepCaughtUp
      BY <2>0, <2>6, TakeKeepsOneStep DEF Report
    <3> QED
      BY <2>0, <2>6, <2>a, <2>b, <3>1 DEF Report, lockVars, senseVars
  <2>7. CASE Buzz
    <3>1. OneStepUnderWay' /\ StepCaughtUp' = StepCaughtUp
      BY <2>0, <2>7, TakeKeepsOneStep DEF Buzz
    <3> QED
      BY <2>0, <2>7, <2>a, <2>b, <3>1 DEF Buzz, lockVars, senseVars
  <2>8. CASE BtnDown
    <3>1. OneStepUnderWay' /\ StepCaughtUp' = StepCaughtUp
      BY <2>0, <2>8, TakeKeepsOneStep DEF BtnDown
    <3> QED
      BY <2>0, <2>8, <2>a, <2>b, <3>1 DEF BtnDown, lockVars, senseVars
  <2>9. CASE Adjust
    <3>0. Take("cmd", "adjust")
      BY <2>9 DEF Adjust
    <3>1. Len(queue) \in Nat /\ Len(queue) >= 1 /\ queue[1] = [src |-> "cmd", val |-> "adjust"]
      BY <3>0, TakeShifts
    <3> QED
      BY <2>0, <3>1 DEF NoAdjust
  <2>10. CASE AdjustEnds
    BY <2>0, <2>10 DEF AdjustEnds
  <2>11. ASSUME NEW s \in Sensors, yblock_eint(s) PROVE BoltTracked'
    <3>1. OneStepUnderWay' /\ StepCaughtUp' = StepCaughtUp
      BY <2>0, <2>11, EdgeKeepsOneStep
    <3> QED
      BY <2>0, <2>11, <2>a, <2>b, <3>1 DEF yblock_eint, lockVars
  <2>12. CASE BuzzTimerFires \/ BuzzTimerReturns \/ UNCHANGED vars
    <3>1. UNCHANGED <<lockVars, senseVars, queue, task>>
      BY <2>12 DEF BuzzTimerFires, BuzzTimerReturns, vars
    <3> QED
      BY <3>1 DEF lockVars, senseVars, Moving, StepCaughtUp
  <2>13. ASSUME NEW c \in Commands, Ask(c) PROVE BoltTracked'
    <3>1. OneStepUnderWay' /\ StepCaughtUp' = StepCaughtUp
      BY <2>0, <2>13, AskKeepsOneStep DEF Ask
    <3> QED
      BY <2>0, <2>13, <2>a, <2>b, <3>1 DEF Ask, lockVars, senseVars
  <2>14. CASE Shackle
    <3>1. pin'["step"] = pin["step"]
      BY <2>14 DEF Shackle, TypeOK, Sensors
    <3>2. OneStepUnderWay' /\ StepCaughtUp' = StepCaughtUp
      BY <2>0, <2>14, <3>1 DEF Shackle, OneStepUnderWay, StepCaughtUp
    <3> QED
      BY <2>0, <2>14, <2>a, <2>b, <3>1, <3>2 DEF Shackle, lockVars
  <2>15. CASE CamTurns
    <3>1. Moving /\ StepCaughtUp /\ pin'["step"] = ~pin["step"]
      BY <2>15, <2>d DEF CamTurns, TypeOK, Sensors
    <3>2. OneStepUnderWay'
      BY <2>0, <2>15, <3>1 DEF CamTurns, OneStepUnderWay, StepCaughtUp
    <3>3. ~StepCaughtUp'
      BY <2>15, <2>c, <3>1 DEF CamTurns, StepCaughtUp
    <3>4. Here'
      BY <2>15, <2>a, <2>c, <3>1, <3>3 DEF CamTurns, Moving, lockVars
    <3> QED
      BY <2>0, <2>15, <2>b, <3>2, <3>4 DEF CamTurns
  <2>16. CASE Knock
    BY <2>16 DEF Knock
  <2> QED
    BY <2>1, <2>2, <2>3, <2>4, <2>5, <2>6, <2>7, <2>8, <2>9, <2>10, <2>11, <2>12, <2>13,
       <2>14, <2>15, <2>16 DEF Next, Task, World
<1> HIDE DEF BoltTracked
<1> QED
  BY <1>1, <1>2, LockTyped, MotorSafe, PTL DEF Spec

(* With nothing to upset the mechanism the software and the bolt agree at rest,
   however long the mailbox and in every interleaving (yblock_step_notify). *)
THEOREM BoltSafe == Spec => []BoltMatchesStatus
<1>1. BoltTracked => BoltMatchesStatus
  BY DEF BoltTracked, BoltMatchesStatus
<1> QED
  BY <1>1, BoltFollowed, PTL

-------------------------------------------------------------------------------
(* The messages of one switch, for any mailbox q, last message h that the task
   took and level l that the interrupt waits for. *)
PlacesIn(s, q) == {0} \cup {i \in 1 .. Len(q) : q[i].src = s}
SaidIn(q, h, i) == IF i = 0 THEN h ELSE q[i].val
Alternates(s, q, h, l) ==
  \A i \in PlacesIn(s, q) :
    /\ \A j \in PlacesIn(s, q) :
         i < j /\ (\A k \in PlacesIn(s, q) : ~(i < k /\ k < j)) => SaidIn(q, h, i) # SaidIn(q, h, j)
    /\ (\A k \in PlacesIn(s, q) : k <= i) => (l <=> SaidIn(q, h, i) = "on")

LEMMA AlternatesIs ==
  SwitchesAlternate <=> \A s \in Sensors : Alternates(s, queue, heard[s], g_eint_level[s])
BY DEF SwitchesAlternate, Alternates, Places, PlacesIn, Said, SaidIn

LEMMA AlternatesNext ==
  (\A s \in Sensors : Alternates(s, queue', heard'[s], g_eint_level'[s])) => SwitchesAlternate'
BY DEF SwitchesAlternate, Alternates, Places, PlacesIn, Said, SaidIn

LEMMA AppendForm ==
  ASSUME NEW q \in Seq(Message), NEW m \in Message
  PROVE  /\ Len(q) \in Nat
         /\ Len(Append(q, m)) = Len(q) + 1
         /\ Append(q, m)[Len(q) + 1] = m
         /\ \A i \in 1 .. Len(q) : Append(q, m)[i] = q[i]
OBVIOUS

LEMMA TailForm ==
  ASSUME NEW q \in Seq(Message), q # <<>>
  PROVE  /\ Len(q) \in Nat /\ Len(q) >= 1
         /\ Len(Tail(q)) = Len(q) - 1
         /\ Head(q) = q[1]
         /\ \A i \in 1 .. Len(q) - 1 : Tail(q)[i] = q[i + 1]
<1>1. Len(q) \in Nat /\ Len(q) >= 1
  BY EmptySeq
<1> QED
  BY <1>1

(* A message of another source changes no place. *)
LEMMA OtherPosted ==
  ASSUME NEW s, NEW h, NEW l, NEW q \in Seq(Message), NEW m \in Message, m.src # s,
         Alternates(s, q, h, l)
  PROVE  Alternates(s, Append(q, m), h, l)
<1>1. PlacesIn(s, Append(q, m)) = PlacesIn(s, q)
  BY AppendForm DEF PlacesIn
<1>2. \A i \in PlacesIn(s, q) : SaidIn(Append(q, m), h, i) = SaidIn(q, h, i)
  BY AppendForm DEF PlacesIn, SaidIn
<1> QED
  BY <1>1, <1>2 DEF Alternates

(* The edge an interrupt posts is the opposite of the last message before it. *)
LEMMA OwnPosted ==
  ASSUME NEW s, NEW h, NEW l \in BOOLEAN, NEW q \in Seq(Message), NEW m \in Message, m.src = s,
         m.val = (IF l THEN "off" ELSE "on"), Alternates(s, q, h, l)
  PROVE  Alternates(s, Append(q, m), h, ~l)
<1> DEFINE r == Append(q, m)
           n == Len(q) + 1
<1>0. Len(q) \in Nat /\ \A i \in PlacesIn(s, q) : i \in Nat /\ i < n
  BY AppendForm DEF PlacesIn
<1>1. PlacesIn(s, r) = PlacesIn(s, q) \cup {n}
  BY AppendForm DEF PlacesIn
<1>2. \A i \in PlacesIn(s, q) : SaidIn(r, h, i) = SaidIn(q, h, i)
  BY AppendForm DEF PlacesIn, SaidIn
<1>3. SaidIn(r, h, n) = m.val
  BY AppendForm DEF SaidIn
<1> HIDE DEF r, n
<1>4. ASSUME NEW i \in PlacesIn(s, r), NEW j \in PlacesIn(s, r),
             i < j, \A k \in PlacesIn(s, r) : ~(i < k /\ k < j)
      PROVE  SaidIn(r, h, i) # SaidIn(r, h, j)
  <2>1. i \in PlacesIn(s, q)
    <3>1. n \in Nat
      BY <1>0 DEF n
    <3> QED
      BY <1>0, <1>1, <1>4, <3>1
  <2>2. CASE j \in PlacesIn(s, q)
    BY <1>1, <1>2, <1>4, <2>1, <2>2 DEF Alternates
  <2>3. CASE j = n
    <3>1. \A k \in PlacesIn(s, q) : k <= i
      BY <1>0, <1>1, <1>4, <2>1, <2>3
    <3>2. l <=> SaidIn(q, h, i) = "on"
      BY <2>1, <3>1 DEF Alternates
    <3> QED
      BY <1>2, <1>3, <2>1, <2>3, <3>2
  <2> QED
    BY <1>1, <2>2, <2>3
<1>5. ASSUME NEW i \in PlacesIn(s, r), \A k \in PlacesIn(s, r) : k <= i
      PROVE  ~l <=> SaidIn(r, h, i) = "on"
  <2>1. n \in Nat
    BY <1>0 DEF n
  <2>2. n \in PlacesIn(s, r) /\ n <= i
    BY <1>1, <1>5
  <2>3. i = n
    BY <1>0, <1>1, <2>1, <2>2
  <2> QED
    BY <1>3, <2>3
<1> QED
  BY <1>4, <1>5 DEF Alternates, r

(* The task takes the next message of the switch: it is now what was heard. *)
LEMMA OwnTaken ==
  ASSUME NEW s, NEW h, NEW l, NEW q \in Seq(Message), q # <<>>, Head(q).src = s,
         Alternates(s, q, h, l)
  PROVE  Alternates(s, Tail(q), Head(q).val, l)
<1> DEFINE r == Tail(q)
           v == Head(q).val
<1>1. \A i \in PlacesIn(s, r) :
        i \in Nat /\ i + 1 \in PlacesIn(s, q) /\ SaidIn(r, v, i) = SaidIn(q, h, i + 1)
  BY TailForm DEF PlacesIn, SaidIn
<1>2. \A k \in PlacesIn(s, q) : k = 0 \/ (k \in Nat /\ k - 1 \in PlacesIn(s, r) /\ k >= 1)
  BY TailForm DEF PlacesIn
<1> HIDE DEF r, v
<1>3. ASSUME NEW i \in PlacesIn(s, r), NEW j \in PlacesIn(s, r),
             i < j, \A k \in PlacesIn(s, r) : ~(i < k /\ k < j)
      PROVE  SaidIn(r, v, i) # SaidIn(r, v, j)
  <2>1. i \in Nat /\ j \in Nat /\ i + 1 < j + 1
    BY <1>1, <1>3
  <2>2. \A k \in PlacesIn(s, q) : ~(i + 1 < k /\ k < j + 1)
    BY <1>2, <1>3, <2>1
  <2> QED
    BY <1>1, <2>1, <2>2 DEF Alternates
<1>4. ASSUME NEW i \in PlacesIn(s, r), \A k \in PlacesIn(s, r) : k <= i
      PROVE  l <=> SaidIn(r, v, i) = "on"
  <2>1. \A k \in PlacesIn(s, q) : k <= i + 1
    BY <1>1, <1>2, <1>4
  <2> QED
    BY <1>1, <2>1 DEF Alternates
<1> QED
  BY <1>3, <1>4 DEF Alternates, r, v

(* A message of another source is taken. *)
LEMMA OtherTaken ==
  ASSUME NEW s, NEW h, NEW l, NEW q \in Seq(Message), q # <<>>, Head(q).src # s,
         Alternates(s, q, h, l)
  PROVE  Alternates(s, Tail(q), h, l)
<1> DEFINE r == Tail(q)
           was(i) == IF i = 0 THEN 0 ELSE i + 1
<1>1. \A i \in PlacesIn(s, r) :
        i \in Nat /\ was(i) \in PlacesIn(s, q) /\ SaidIn(r, h, i) = SaidIn(q, h, was(i))
  BY TailForm DEF PlacesIn, SaidIn
<1>2. \A k \in PlacesIn(s, q) : k \in Nat /\ (k = 0 \/ (k - 1 \in PlacesIn(s, r) /\ k >= 2))
  BY TailForm DEF PlacesIn
<1> HIDE DEF r
<1>3. ASSUME NEW i \in PlacesIn(s, r), NEW j \in PlacesIn(s, r),
             i < j, \A k \in PlacesIn(s, r) : ~(i < k /\ k < j)
      PROVE  SaidIn(r, h, i) # SaidIn(r, h, j)
  <2>1. i \in Nat /\ j \in Nat /\ was(i) < was(j)
    BY <1>1, <1>3
  <2>2. \A k \in PlacesIn(s, q) : ~(was(i) < k /\ k < was(j))
    BY <1>2, <1>3, <2>1
  <2> HIDE DEF was
  <2>3. was(i) \in PlacesIn(s, q) /\ was(j) \in PlacesIn(s, q)
    BY <1>1, Zenon
  <2>4. SaidIn(q, h, was(i)) # SaidIn(q, h, was(j))
    BY <2>1, <2>2, <2>3, Zenon DEF Alternates
  <2> QED
    BY <1>1, <2>4, Zenon
<1>4. ASSUME NEW i \in PlacesIn(s, r), \A k \in PlacesIn(s, r) : k <= i
      PROVE  l <=> SaidIn(r, h, i) = "on"
  <2>1. \A k \in PlacesIn(s, q) : k <= was(i)
    <3>1. i \in Nat
      BY <1>1
    <3> QED
      BY <1>2, <1>4, <3>1
  <2> HIDE DEF was
  <2> QED
    BY <1>1, <2>1 DEF Alternates
<1> QED
  BY <1>3, <1>4 DEF Alternates, r

(* One message of a switch leaves the mailbox and is heard. *)
LEMMA HearKeeps ==
  ASSUME TypeOK, SwitchesAlternate, NEW t \in Sensors, NEW v, Take(t, v), Hear(t, v),
         UNCHANGED g_eint_level
  PROVE  SwitchesAlternate'
<1>1. /\ queue \in Seq(Message) /\ queue # <<>> /\ queue' = Tail(queue)
      /\ Head(queue).src = t /\ Head(queue).val = v
      /\ heard' = [heard EXCEPT ![t] = v] /\ DOMAIN heard = Sensors
  BY DEF TypeOK, Take, Hear
<1>2. ASSUME NEW s \in Sensors PROVE Alternates(s, queue', heard'[s], g_eint_level'[s])
  <2>0. Alternates(s, queue, heard[s], g_eint_level[s])
    BY AlternatesIs
  <2>1. CASE s = t
    <3>1. heard'[s] = Head(queue).val
      BY <1>1, <2>1
    <3> QED
      BY <1>1, <2>0, <2>1, <3>1, OwnTaken
  <2>2. CASE s # t
    <3>1. heard'[s] = heard[s]
      BY <1>1, <2>2
    <3> QED
      BY <1>1, <2>0, <2>2, <3>1, OtherTaken
  <2> QED
    BY <2>1, <2>2
<1> QED
  BY <1>2, AlternatesNext

(* A command leaves the mailbox. *)
LEMMA CommandTaken ==
  ASSUME TypeOK, SwitchesAlternate, NEW v, Take("cmd", v), UNCHANGED <<g_eint_level, heard>>
  PROVE  SwitchesAlternate'
<1>1. /\ queue \in Seq(Message) /\ queue # <<>> /\ queue' = Tail(queue)
      /\ Head(queue).src = "cmd"
  BY DEF TypeOK, Take
<1>2. \A s \in Sensors : Head(queue).src # s
  BY <1>1 DEF Sensors
<1>3. \A s \in Sensors : Alternates(s, queue', heard'[s], g_eint_level'[s])
  BY <1>1, <1>2, AlternatesIs, OtherTaken
<1> QED
  BY <1>3, AlternatesNext

(* The messages of a switch reach the task in strict alternation and none is missing, however
   edges, handlers and commands meet in the mailbox: an interrupt inverts the level it waits
   for with each message it posts (yblock_eint_status, yblock_eint_step). *)
THEOREM SwitchesHeard == Spec => []SwitchesAlternate
<1>1. Init => SwitchesAlternate
  BY DEF Init, SwitchesAlternate, Places, Said
<1>2. TypeOK /\ SwitchesAlternate /\ [Next]_vars => SwitchesAlternate'
  <2> SUFFICES ASSUME TypeOK, SwitchesAlternate, [Next]_vars PROVE SwitchesAlternate'
    OBVIOUS
  <2>1. CASE StatusOn \/ StatusOff
    BY <2>1, HearKeeps DEF StatusOn, StatusOff, senseVars, Sensors
  <2>2. CASE StepOff \/ StepOn
    BY <2>2, HearKeeps DEF StepOff, StepOn, senseVars, Sensors
  <2>3. CASE Unlock \/ Report \/ Buzz \/ BtnDown \/ Adjust
    BY <2>3, CommandTaken DEF Unlock, Report, Buzz, BtnDown, Adjust, senseVars
  <2>4. ASSUME NEW t \in Sensors, yblock_eint(t) PROVE SwitchesAlternate'
    <3> DEFINE m == [src |-> t, val |-> IF g_eint_level[t] THEN "off" ELSE "on"]
    <3>1. m \in Message /\ m.src = t /\ m.val = (IF g_eint_level[t] THEN "off" ELSE "on")
      BY DEF Message, SensorMessage
    <3>2. /\ queue' = Append(queue, m) /\ heard' = heard /\ queue \in Seq(Message)
          /\ g_eint_level' = [g_eint_level EXCEPT ![t] = ~@]
          /\ g_eint_level \in [Sensors -> BOOLEAN]
      BY <2>4 DEF yblock_eint, TypeOK
    <3> HIDE DEF m
    <3>3. ASSUME NEW s \in Sensors PROVE Alternates(s, queue', heard'[s], g_eint_level'[s])
      <4>0. Alternates(s, queue, heard[s], g_eint_level[s])
        BY AlternatesIs
      <4>1. CASE s = t
        <5>1. g_eint_level'[s] = ~g_eint_level[s] /\ g_eint_level[s] \in BOOLEAN
          BY <3>2, <4>1
        <5> QED
          BY <3>1, <3>2, <4>0, <4>1, <5>1, OwnPosted
      <4>2. CASE s # t
        <5>1. g_eint_level'[s] = g_eint_level[s]
          BY <3>2, <4>2
        <5> QED
          BY <3>1, <3>2, <4>0, <4>2, <5>1, OtherPosted
      <4> QED
        BY <4>1, <4>2
    <3> QED
      BY <3>3, AlternatesNext
  <2>5. ASSUME NEW c \in Commands, Ask(c) PROVE SwitchesAlternate'
    <3> DEFINE m == [src |-> "cmd", val |-> c]
    <3>1. m \in Message /\ \A s \in Sensors : m.src # s
      BY DEF Message, CommandMessage, Sensors
    <3>2. /\ queue' = Append(queue, m) /\ queue \in Seq(Message)
          /\ heard' = heard /\ g_eint_level' = g_eint_level
      BY <2>5 DEF Ask, TypeOK, senseVars
    <3> HIDE DEF m
    <3>3. \A s \in Sensors : Alternates(s, queue', heard'[s], g_eint_level'[s])
      BY <3>1, <3>2, AlternatesIs, OtherPosted
    <3> QED
      BY <3>3, AlternatesNext
  <2>6. CASE AdjustEnds \/ BuzzTimerFires \/ BuzzTimerReturns \/ Shackle \/ CamTurns \/ Knock
             \/ UNCHANGED vars
    <3>1. UNCHANGED <<queue, heard, g_eint_level>>
      BY <2>6 DEF AdjustEnds, BuzzTimerFires, BuzzTimerReturns, Shackle, CamTurns, Knock,
                 vars, senseVars
    <3>2. \A s \in Sensors : Alternates(s, queue', heard'[s], g_eint_level'[s])
      BY <3>1, AlternatesIs
    <3> QED
      BY <3>2, AlternatesNext
  <2> QED
    BY <2>1, <2>2, <2>3, <2>4, <2>5, <2>6 DEF Next, Task, World
<1> QED
  BY <1>1, <1>2, LockTyped, PTL DEF Spec

==============================================================================
