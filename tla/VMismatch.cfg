CONSTANTS
  NumPasses = 1
  NumWindows = 2
  Pattern <- OnePattern
  ZeroOut = {}
  ChunkWindows = 1
  Stride = 1
  SkipVerify = FALSE
  MaxEvents <- OutageOnly
SPECIFICATION Spec
INVARIANTS NoCertificateWithMismatch
CHECK_DEADLOCK FALSE
