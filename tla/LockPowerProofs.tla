--------------------------- MODULE LockPowerProofs ----------------------------
(***************************************************************************)
(* What holds of the lock over any number of restarts of the phone, with   *)
(* adjusts but a mechanism that is not upset otherwise.                    *)
(***************************************************************************)
EXTENDS LockPower, YunbaLockProofs

(* Bolt b and cam p (TRUE: off its switch), for a lock of status st and step counter n whose
   agreement is a; caught says that no step message is under way.  A movement that begins
   with the cam off its switch has one pass more to make, until the cam is on it. *)
AsAgreed(st, n, p, b, caught, a) ==
  /\ st \notin {"LOCKING", "UNLOCKING"} => ((b <=> st = "LOCKED") <=> a) /\ (p => caught)
  /\ st \in {"LOCKING", "UNLOCKING"} /\ n = 0 =>
       (b <=> (st = "UNLOCKING" <=> IF p /\ caught THEN ~a ELSE a))
  /\ st \in {"LOCKING", "UNLOCKING"} /\ n = 1 =>
       (b <=> (p <=> (st = "UNLOCKING" <=> a))) /\ (p <=> caught)

AgreedNow == AsAgreed(g_lock_status, g_lock_step, pin["step"], bolt, StepCaughtUp, agree)

PowerTyped == TypeOK /\ restarts \in Nat /\ agree \in BOOLEAN /\ adjusted \in BOOLEAN

PowerInv ==
  /\ PowerTyped
  /\ MotorDriven
  /\ OneStepUnderWay
  /\ ~adjusted => task = "ready" /\ AgreedNow

-------------------------------------------------------------------------------
LEMMA PowerTypedStep == PowerTyped /\ [PowerNext]_powerVars => PowerTyped'
<1> SUFFICES ASSUME PowerTyped, [PowerNext]_powerVars PROVE PowerTyped'
  OBVIOUS
<1>1. CASE Runs
  <2>1. TypeOK'
    BY <1>1, LockTypedStep DEF Runs, PowerTyped
  <2> QED
    BY <1>1, <2>1, Zenon DEF Runs, PowerTyped
<1>2. CASE Restart
  <2>1. queue' \in Seq(Message) /\ Len(queue') <= QueueLen
    BY <1>2, QueueLenAssumption DEF Restart
  <2>2. g_eint_level' \in [Sensors -> BOOLEAN] /\ heard' \in [Sensors -> {"on", "off"}]
    BY <1>2 DEF Restart
  <2>3. TypeOK'
    BY <1>2, <2>1, <2>2 DEF Restart, PowerTyped, TypeOK, Statuses
  <2>4. restarts' \in Nat
    BY <1>2 DEF Restart, PowerTyped
  <2>5. agree' \in BOOLEAN /\ adjusted' \in BOOLEAN
    BY <1>2, Zenon DEF Restart, PowerTyped, TypeOK
  <2> QED
    BY <2>3, <2>4, <2>5 DEF PowerTyped
<1>3. CASE UNCHANGED powerVars
  BY <1>3 DEF powerVars, vars, lockVars, buzzVars, senseVars, PowerTyped, TypeOK
<1> QED
  BY <1>1, <1>2, <1>3 DEF PowerNext

(* A restart finds bolt and cam where they are, and no message under way. *)
LEMMA RestartKeeps == PowerTyped /\ Restart => PowerInv'
<1> SUFFICES ASSUME PowerTyped, Restart PROVE PowerInv'
  OBVIOUS
<1>1. PowerTyped'
  BY PowerTypedStep DEF PowerNext
<1>2. MotorDriven'
  BY DEF Restart, MotorDriven, Moving
<1>3. Len(queue') = 0
  BY DEF Restart
<1>4. OneStepUnderWay'
  BY <1>3 DEF OneStepUnderWay
<1>5. pin'["step"] => StepCaughtUp'
  <2>1. g_eint_level'["step"] = FALSE /\ pin' = pin /\ pin["step"] \in BOOLEAN
    BY DEF Restart, Sensors, PowerTyped, TypeOK
  <2>2. \A i \in 1 .. Len(queue') : queue'[i].src # "step"
    BY <1>3
  <2>3. pin'["step"] => pin'["step"] # g_eint_level'["step"]
    BY <2>1
  <2> QED
    BY <2>2, <2>3 DEF StepCaughtUp
<1>6. AgreedNow'
  BY <1>5 DEF AgreedNow, AsAgreed, Restart, PowerTyped, TypeOK
<1> QED
  BY <1>1, <1>2, <1>4, <1>6 DEF PowerInv, Restart

(* A step of the lock keeps at most one step message under way.  What it does to the
   lock's idea of a movement is in the cases of AgreedStep. *)
LEMMA OneStepStep ==
  ASSUME Disturbances \subseteq {"adjust"}, TypeOK, OneStepUnderWay, [Next]_vars
  PROVE  OneStepUnderWay'
<1>1. ASSUME NEW s, NEW v, Take(s, v), UNCHANGED senseVars PROVE OneStepUnderWay'
  BY <1>1, TakeKeepsOneStep
<1>2. ASSUME NEW s \in Sensors, yblock_eint(s) PROVE OneStepUnderWay'
  BY <1>2, EdgeKeepsOneStep
<1>3. ASSUME NEW c \in Commands, Ask(c) PROVE OneStepUnderWay'
  BY <1>3, AskKeepsOneStep
<1>4. CASE StatusOn \/ StatusOff \/ StepOff \/ StepOn \/ Unlock \/ Report \/ Buzz \/ BtnDown \/ Adjust
  BY <1>1, <1>4 DEF StatusOn, StatusOff, StepOff, StepOn, Unlock, Report, Buzz, BtnDown, Adjust
<1>5. CASE AdjustEnds \/ BuzzTimerFires \/ BuzzTimerReturns \/ UNCHANGED vars
  <2>1. UNCHANGED <<queue, senseVars>>
    BY <1>5 DEF AdjustEnds, BuzzTimerFires, BuzzTimerReturns, vars
  <2> QED
    BY <2>1 DEF senseVars, OneStepUnderWay
<1>6. CASE Shackle
  <2>1. pin'["step"] = pin["step"]
    BY <1>6 DEF Shackle, TypeOK, Sensors
  <2> QED
    BY <1>6, <2>1 DEF Shackle, OneStepUnderWay
<1>7. CASE CamTurns
  <2>1. StepCaughtUp /\ UNCHANGED queue
    BY <1>7 DEF CamTurns
  <2> QED
    BY <2>1 DEF OneStepUnderWay, StepCaughtUp
<1>8. CASE Knock
  BY <1>8 DEF Knock
<1> QED
  BY <1>2, <1>3, <1>4, <1>5, <1>6, <1>7, <1>8 DEF Next, Task, World

(* The bolt stays where the status and the agreement imply, through every movement. *)
LEMMA AgreedStep ==
  ASSUME Disturbances \subseteq {"adjust"}, PowerInv, ~adjusted, Runs, ~adjusted'
  PROVE  task' = "ready" /\ AgreedNow'
<1>1. /\ Next /\ task' # "adjusting"
      /\ agree' = IF ~Moving /\ Moving' /\ pin["step"] THEN ~agree ELSE agree
  BY DEF Runs, PowerInv, PowerTyped
<1>2. TypeOK /\ MotorDriven /\ OneStepUnderWay /\ task = "ready" /\ AgreedNow
  BY DEF PowerInv, PowerTyped
<1>3. /\ bolt \in BOOLEAN /\ pin["step"] \in BOOLEAN /\ g_eint_level["step"] \in BOOLEAN
      /\ StepCaughtUp \in BOOLEAN /\ g_lock_step \in {0, 1} /\ g_lock_status \in Statuses
      /\ agree \in BOOLEAN
  BY DEF PowerInv, PowerTyped, TypeOK, Sensors, StepCaughtUp
<1>4. motor => Moving
  BY <1>2 DEF MotorDriven
<1>5. /\ AsAgreed(g_lock_status, g_lock_step, pin["step"], bolt, StepCaughtUp, agree)
      /\ AsAgreed(g_lock_status', g_lock_step', pin'["step"], bolt', StepCaughtUp', agree') => AgreedNow'
  BY <1>2 DEF AgreedNow
<1>t. ASSUME NEW s, NEW v, Take(s, v), s # "step", UNCHANGED senseVars
      PROVE  StepCaughtUp' = StepCaughtUp
  BY <1>2, <1>t, TakeKeepsOneStep
<1>s. ASSUME NEW v, Take("step", v), UNCHANGED senseVars
      PROVE  StepCaughtUp' /\ ~StepCaughtUp /\ v = IF pin["step"] THEN "off" ELSE "on"
  BY <1>2, <1>s, TakeKeepsOneStep
<1>k. ASSUME UNCHANGED <<g_lock_status, g_lock_step, bolt, task>>, pin'["step"] = pin["step"],
             StepCaughtUp' = StepCaughtUp
      PROVE  task' = "ready" /\ AgreedNow'
  <2>1. agree' = agree
    BY <1>1, <1>k DEF Moving
  <2> QED
    BY <1>2, <1>5, <1>k, <2>1
<1>6. CASE StatusOn
  <2>1. StepCaughtUp' = StepCaughtUp /\ pin' = pin /\ bolt' = bolt /\ task' = task
    BY <1>6, <1>t DEF StatusOn, senseVars
  <2>2. CASE g_lock_status = "UNLOCKED"
    <3>1. g_lock_status' = "LOCKING" /\ g_lock_step' = 0
      BY <1>6, <2>2 DEF StatusOn, StartMove
    <3>2. agree' = IF pin["step"] THEN ~agree ELSE agree
      BY <1>1, <2>2, <3>1 DEF Moving
    <3>3. (~bolt <=> agree) /\ (pin["step"] => StepCaughtUp)
      BY <1>3, <1>5, <2>2 DEF AsAgreed
    <3>4. agree <=> IF pin'["step"] /\ StepCaughtUp' THEN ~agree' ELSE agree'
      BY <2>1, <3>2, <3>3
    <3>5. bolt' <=> (g_lock_status' = "UNLOCKING" <=> agree)
      BY <1>3, <2>1, <3>1, <3>3
    <3>6. AsAgreed(g_lock_status', g_lock_step', pin'["step"], bolt', StepCaughtUp', agree')
      <4>1. g_lock_status' \in {"LOCKING", "UNLOCKING"} /\ g_lock_step' # 1
        BY <3>1
      <4>2. bolt' <=> (g_lock_status' = "UNLOCKING"
                         <=> IF pin'["step"] /\ StepCaughtUp' THEN ~agree' ELSE agree')
        BY <3>4, <3>5
      <4> QED
        BY <4>1, <4>2, Zenon DEF AsAgreed
    <3> QED
      BY <1>2, <1>5, <2>1, <3>6, Zenon
  <2>3. CASE g_lock_status # "UNLOCKED"
    BY <1>6, <1>k, <2>1, <2>3 DEF StatusOn, lockVars
  <2> QED
    BY <2>2, <2>3
<1>7. CASE StatusOff \/ Report \/ Buzz \/ BtnDown
  <2>1. StepCaughtUp' = StepCaughtUp /\ UNCHANGED <<senseVars, lockVars, task>>
    BY <1>7, <1>t DEF StatusOff, Report, Buzz, BtnDown
  <2> QED
    BY <1>k, <2>1 DEF senseVars, lockVars
<1>8. CASE StepOff
  <2>1. /\ StepCaughtUp' /\ ~StepCaughtUp /\ pin["step"] /\ pin' = pin /\ bolt' = bolt
        /\ task' = task
    BY <1>3, <1>8, <1>s DEF StepOff, senseVars
  <2>2. agree' = agree
    BY <1>1, <1>8 DEF StepOff, Moving
  <2> QED
    BY <1>2, <1>3, <1>5, <1>8, <2>1, <2>2 DEF StepOff, Moving, AsAgreed
<1>9. CASE StepOn
  <2>1. /\ StepCaughtUp' /\ ~StepCaughtUp /\ ~pin["step"] /\ pin' = pin /\ bolt' = bolt
        /\ task' = task
    BY <1>3, <1>9, <1>s DEF StepOn, senseVars
  <2>2. CASE Moving /\ g_lock_step = 1
    BY <1>1, <1>2, <1>3, <1>5, <1>9, <2>1, <2>2 DEF StepOn, Moving, AsAgreed, Statuses
  <2>3. CASE ~(Moving /\ g_lock_step = 1)
    <3>1. UNCHANGED lockVars /\ agree' = agree
      BY <1>1, <1>9, <2>3 DEF StepOn, Moving, lockVars
    <3>2. UNCHANGED <<g_lock_status, g_lock_step>>
      BY <3>1 DEF lockVars
    <3>3. CASE ~Moving
      BY <1>2, <1>5, <2>1, <3>1, <3>2, <3>3 DEF Moving, AsAgreed
    <3>4. CASE Moving /\ g_lock_step = 0
      <4>1. ~(pin["step"] /\ StepCaughtUp) /\ ~(pin'["step"] /\ StepCaughtUp')
        BY <2>1
      <4>2. /\ g_lock_status \in {"LOCKING", "UNLOCKING"} /\ g_lock_step = 0
            /\ bolt <=> (g_lock_status = "UNLOCKING" <=> agree)
        BY <1>5, <3>4, <4>1 DEF Moving, AsAgreed
      <4>3. g_lock_status' \in {"LOCKING", "UNLOCKING"} /\ g_lock_step' # 1
        BY <3>2, <4>2
      <4>4. bolt' <=> (g_lock_status' = "UNLOCKING" <=> agree')
        BY <2>1, <3>1, <3>2, <4>2
      <4>5. AsAgreed(g_lock_status', g_lock_step', pin'["step"], bolt', StepCaughtUp', agree')
        BY <4>1, <4>3, <4>4, Zenon DEF AsAgreed
      <4> QED
        BY <1>2, <1>5, <2>1, <4>5, Zenon
    <3> QED
      BY <1>3, <2>3, <3>3, <3>4
  <2> QED
    BY <2>2, <2>3
<1>10. CASE Unlock
  <2>1. StepCaughtUp' = StepCaughtUp /\ pin' = pin /\ bolt' = bolt /\ task' = task
    BY <1>10, <1>t DEF Unlock, senseVars
  <2>2. CASE g_lock_status = "LOCKED"
    <3>1. g_lock_status' = "UNLOCKING" /\ g_lock_step' = 0
      BY <1>10, <2>2 DEF Unlock, StartMove
    <3>2. agree' = IF pin["step"] THEN ~agree ELSE agree
      BY <1>1, <2>2, <3>1 DEF Moving
    <3>3. (bolt <=> agree) /\ (pin["step"] => StepCaughtUp)
      BY <1>3, <1>5, <2>2 DEF AsAgreed
    <3>4. agree <=> IF pin'["step"] /\ StepCaughtUp' THEN ~agree' ELSE agree'
      BY <2>1, <3>2, <3>3
    <3>5. bolt' <=> (g_lock_status' = "UNLOCKING" <=> agree)
      BY <1>3, <2>1, <3>1, <3>3
    <3>6. AsAgreed(g_lock_status', g_lock_step', pin'["step"], bolt', StepCaughtUp', agree')
      <4>1. g_lock_status' \in {"LOCKING", "UNLOCKING"} /\ g_lock_step' # 1
        BY <3>1
      <4>2. bolt' <=> (g_lock_status' = "UNLOCKING"
                         <=> IF pin'["step"] /\ StepCaughtUp' THEN ~agree' ELSE agree')
        BY <3>4, <3>5
      <4> QED
        BY <4>1, <4>2, Zenon DEF AsAgreed
    <3> QED
      BY <1>2, <1>5, <2>1, <3>6, Zenon
  <2>3. CASE g_lock_status # "LOCKED"
    BY <1>10, <1>k, <2>1, <2>3 DEF Unlock, lockVars
  <2> QED
    BY <2>2, <2>3
<1>11. CASE Adjust \/ AdjustEnds
  BY <1>1, <1>2, <1>11 DEF Adjust, AdjustEnds
<1>12. ASSUME NEW s \in Sensors, yblock_eint(s) PROVE task' = "ready" /\ AgreedNow'
  <2>1. StepCaughtUp' = StepCaughtUp
    BY <1>2, <1>12, EdgeKeepsOneStep
  <2> QED
    BY <1>12, <1>k, <2>1 DEF yblock_eint, lockVars
<1>13. CASE BuzzTimerFires \/ BuzzTimerReturns
  <2>1. UNCHANGED <<lockVars, senseVars, queue, task>>
    BY <1>13 DEF BuzzTimerFires, BuzzTimerReturns
  <2> QED
    BY <1>k, <2>1 DEF lockVars, senseVars, StepCaughtUp
<1>14. ASSUME NEW c \in Commands, Ask(c) PROVE task' = "ready" /\ AgreedNow'
  <2>1. StepCaughtUp' = StepCaughtUp
    BY <1>2, <1>14, AskKeepsOneStep
  <2> QED
    BY <1>14, <1>k, <2>1 DEF Ask, lockVars, senseVars
<1>15. CASE Shackle
  <2>1. pin'["step"] = pin["step"]
    BY <1>2, <1>15 DEF Shackle, TypeOK, Sensors
  <2>2. StepCaughtUp' = StepCaughtUp
    BY <1>15, <2>1 DEF Shackle, StepCaughtUp
  <2> QED
    BY <1>15, <1>k, <2>1, <2>2 DEF Shackle, lockVars
<1>16. CASE CamTurns
  <2>1. /\ Moving /\ StepCaughtUp /\ pin'["step"] = ~pin["step"]
        /\ bolt' = IF pin["step"] THEN ~bolt ELSE bolt
        /\ UNCHANGED <<g_lock_status, g_lock_step, task>>
    BY <1>2, <1>4, <1>16 DEF CamTurns, TypeOK, Sensors, lockVars
  <2>2. ~StepCaughtUp'
    BY <1>3, <1>16, <2>1 DEF CamTurns, StepCaughtUp
  <2>3. agree' = agree
    BY <1>1, <2>1
  <2> QED
    BY <1>2, <1>3, <1>5, <2>1, <2>2, <2>3 DEF Moving, AsAgreed
<1>17. CASE Knock
  BY <1>17 DEF Knock
<1> QED
  BY <1>1, <1>6, <1>7, <1>8, <1>9, <1>10, <1>11, <1>12, <1>13, <1>14, <1>15, <1>16, <1>17
     DEF Next, Task, World

-------------------------------------------------------------------------------
(* As long as nobody adjusts the lock, whether bolt and status agree at rest is settled by
   where the last restart has found bolt and cam, for any number of restarts at any moment,
   every interleaving of interrupts, mailbox and motor and a mailbox of any length: a
   disagreement is never healed and none comes up by itself (yblock_step_notify, the
   initialisers of yunba_lock.c).  A cam that runs ahead of the task or a knock breaks this. *)
THEOREM AgreementSafe ==
  ASSUME Disturbances \subseteq {"adjust"}
  PROVE  PowerSpec => []AgreementKept
<1>1. PowerInit => PowerInv
  <2> SUFFICES ASSUME PowerInit PROVE PowerInv
    OBVIOUS
  <2>1. Init /\ restarts = 0 /\ agree = TRUE /\ adjusted = FALSE
    BY DEF PowerInit
  <2>2. TypeOK
    BY <2>1, LockTypedInit
  <2>3. Len(queue) = 0 /\ g_lock_status = "LOCKED" /\ bolt = TRUE /\ task = "ready" /\ motor = FALSE
        /\ ~pin["step"]
    BY <2>1 DEF Init
  <2>4. OneStepUnderWay /\ MotorDriven /\ AgreedNow
    BY <2>1, <2>3 DEF OneStepUnderWay, MotorDriven, AgreedNow, AsAgreed, Moving
  <2> QED
    BY <2>1, <2>2, <2>3, <2>4 DEF PowerInv, PowerTyped
<1>2. PowerInv /\ [PowerNext]_powerVars => PowerInv'
  <2> SUFFICES ASSUME PowerInv, [PowerNext]_powerVars PROVE PowerInv'
    OBVIOUS
  <2>1. CASE Restart
    BY <2>1, RestartKeeps DEF PowerInv
  <2>2. CASE Runs
    <3>1. [Next]_vars /\ PowerTyped /\ TypeOK /\ MotorDriven /\ OneStepUnderWay
      BY <2>2 DEF Runs, PowerInv, PowerTyped
    <3>2. PowerTyped' /\ MotorDriven' /\ OneStepUnderWay'
      BY <2>2, <3>1, PowerTypedStep, MotorStep, OneStepStep DEF PowerNext
    <3>3. ~adjusted' => ~adjusted
      BY <2>2 DEF Runs, PowerInv, PowerTyped
    <3>4. ~adjusted' => task' = "ready" /\ AgreedNow'
      BY <2>2, <3>3, AgreedStep
    <3> QED
      BY <3>2, <3>4 DEF PowerInv
  <2>3. CASE UNCHANGED powerVars
    BY <2>3 DEF powerVars, vars, lockVars, buzzVars, senseVars, PowerInv, PowerTyped, TypeOK,
                MotorDriven, Moving, OneStepUnderWay, AgreedNow, AsAgreed, StepCaughtUp
  <2> QED
    BY <2>1, <2>2, <2>3 DEF PowerNext
<1>3. PowerInv => AgreementKept
  BY DEF PowerInv, AgreementKept, AgreedNow, AsAgreed, Moving
<1> QED
  BY <1>1, <1>2, <1>3, PTL DEF PowerSpec

===============================================================================
