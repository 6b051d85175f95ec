SPECIFICATION FairSpec
CONSTANTS
  Sockets = {s1, s2}
  NoSocket = none
  Files = {f1, f2}
  ByName = TRUE
  Chunks = 2
  DueMax = 1
  QueueLen = 2
  Upsets <- AllUpsets
  MaxUpsets = 1
  Beat = beat
  TaskMax = 2
  RetryMax = 2
INVARIANTS
  NeverStranded
  HeartbeatKept
PROPERTY Settles
CHECK_DEADLOCK FALSE
