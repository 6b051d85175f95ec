SPECIFICATION FairSpec
CONSTANTS
  Sockets = {s1, s2, s3}
  NoSocket = none
  QueueLen = 3
  Upsets <- AllUpsets
  MaxUpsets = 2
  BrokerByName = TRUE
  Patient = TRUE
PROPERTIES
  LeaksBounded
  Recovers
CHECK_DEADLOCK FALSE
