CONSTANTS
  Buses <- AllBuses
  MaxPolls = 2
SPECIFICATION LiveSpec
INVARIANTS TypeOK EvidenceIsReal ErasureHasAuthority
PROPERTIES LadderWalksDown EraseRefusalIsRecoverable PurgeEnds
CHECK_DEADLOCK FALSE
