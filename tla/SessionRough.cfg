SPECIFICATION Spec
CONSTANTS
  Sockets = {s1, s2}
  NoSocket = none
  QueueLen = 5
  Upsets <- AllUpsets
  MaxUpsets = 2
  BrokerByName = FALSE
  Patient = FALSE
INVARIANTS
  TypeOK
  NeverStranded
  RunningHasAnswer
  KeepaliveCovered
  PublishedAfterConnack
PROPERTY ConnectComesFirst
CHECK_DEADLOCK FALSE
