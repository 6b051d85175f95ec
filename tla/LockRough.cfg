SPECIFICATION Spec
CONSTANTS
  QueueLen = 3
  Disturbances <- AllUpsets
INVARIANTS
  TypeOK
  MotorDriven
  SwitchesAlternate
  BuzzerReleased
  LastReportCurrent
PROPERTY ImplementsLockCycle
