SPECIFICATION Spec
CONSTANTS
  BrokerPackets <- Kinds
  MaxPackets = 2
  MaxCutPackets = 2
  CutsAt = {1, 2, 5}
  BufSize = 28
  Topic <- DeviceId
  ReportCmd <- Command
  ReportLengths <- ReportsAround
  MaxReports = 0
  MaxUpsets = 1
  StrayIds <- Strays
INVARIANT TakenAsSent
CHECK_DEADLOCK FALSE
