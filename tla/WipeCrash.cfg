CONSTANTS
  NumPasses = 2
  NumWindows = 3
  Pattern <- TwoPatterns
  ZeroOut = {1}
  ChunkWindows = 2
  Stride = 2
  SkipVerify = FALSE
  MaxEvents <- Outage
SPECIFICATION Spec
INVARIANTS TypeOK WriteAhead PassesInOrder FlushedIsDurable
PROPERTIES ImplementsSanitization
CHECK_DEADLOCK FALSE
