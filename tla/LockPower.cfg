SPECIFICATION PowerSpec
CONSTANTS
  QueueLen = 2
  Disturbances <- AdjustOnly
  MaxRestarts = 1
INVARIANT AgreementKept
PROPERTIES
  MovementEnds
  BuzzerStops
