SPECIFICATION Spec
CONSTANTS
  Contexts = {c1, c2, c3}
  Nobody = nobody
  MaxRecords = 3
INVARIANTS
  TypeOK
  ContextsOwned
  TimerIsMine
PROPERTIES
  SettledOnce
  EachSettled
