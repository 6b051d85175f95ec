SPECIFICATION FairSpec
CONSTANTS
  BrokerPackets <- Kinds
  MaxPackets = 2
  MaxCutPackets = 1
  CutsAt = {1, 2, 5}
  BufSize = 28
  Topic <- DeviceId
  ReportCmd <- Command
  ReportLengths <- ReportsAround
  MaxReports = 1
  MaxUpsets = 1
  StrayIds <- Strays
INVARIANTS
  TypeOK
  NothingForgotten
  BuffersHold
  OutWhole
  AnswersMatch
  CodecExact
  TopicsExact
PROPERTIES
  ImplementsPacketPipe
  EachTaken
CHECK_DEADLOCK FALSE
