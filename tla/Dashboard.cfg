CONSTANTS
  Conns <- TwoConns
  Drives <- TwoDrives
  Protected <- Loop0
  StdinIsTty = TRUE
  MaxConnections = 2
  ChannelBound = 1
  MaxJobs = 2
  MaxRequests = 3
  MaxFaults = 1
SPECIFICATION LiveSpec
INVARIANTS TypeOK TableTellsTruth EnginesAccountedFor
PROPERTIES RequestsAnswered EndIsReported
CHECK_DEADLOCK FALSE
