CONSTANTS
  p1 = p1
  p2 = p2
  Nobody = Nobody
  Process <- TwoProcesses
  Sealed = FALSE
  Overlap = TRUE
  MaxRecords = 4
  MaxEvents <- Stale
SPECIFICATION Spec
INVARIANTS ResumeKeepsChain
CHECK_DEADLOCK FALSE
