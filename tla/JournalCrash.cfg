CONSTANTS
  p1 = p1
  p2 = p2
  Nobody = Nobody
  Process <- OneProcess
  Sealed = TRUE
  Overlap = FALSE
  MaxRecords = 3
  MaxEvents <- Crashes
SPECIFICATION Spec
INVARIANTS TypeOK TornTailRecoverable
PROPERTIES CutIsSaved ImplementsLog
CHECK_DEADLOCK FALSE
