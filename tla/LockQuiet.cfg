SPECIFICATION Spec
CONSTANTS
  QueueLen = 4
  Disturbances <- NoUpset
INVARIANTS
  BoltMatchesStatus
