SPECIFICATION Spec
CONSTANTS
  Sockets = {s1}
  NoSocket = none
  Files = {f1, f2}
  ByName = FALSE
  Chunks = 2
  DueMax = 1
  QueueLen = 2
  Upsets <- AllUpsets
  MaxUpsets = 2
  Beat = beat
  TaskMax = 2
  RetryMax = 2
INVARIANTS
  TypeOK
  OneAtATime
  FinishedOnceAndTaken
  ErrorCloses
PROPERTY ImplementsUploadService
CHECK_DEADLOCK FALSE
