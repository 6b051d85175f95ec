SPECIFICATION Spec
CONSTANTS
  Sockets = {s1}
  NoSocket = none
  Files = {f1, f2}
  ByName = FALSE
  Chunks = 2
  DueMax = 1
  QueueLen = 2
  Upsets <- StopOnly
  MaxUpsets = 1
  Beat = beat
  TaskMax = 2
  RetryMax = 2
INVARIANT StopEnds
CHECK_DEADLOCK FALSE
