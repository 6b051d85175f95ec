SPECIFICATION Spec
CONSTANTS
  Sockets = {s1, s2}
  NoSocket = none
  QueueLen = 3
  Upsets <- DnsOnly
  MaxUpsets = 1
  BrokerByName = TRUE
  Patient = TRUE
PROPERTY DnsFailureRetried
CHECK_DEADLOCK FALSE
