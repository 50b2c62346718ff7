CONSTANTS
  NumPasses = 1
  NumWindows = 3
  Pattern <- OnePattern
  ZeroOut = {0}
  ChunkWindows = 2
  Stride = 2
  SkipVerify = FALSE
  MaxEvents <- Retried
SPECIFICATION RetrySpec
INVARIANTS CertificateTruthful ClaimsAreBacked
PROPERTIES VictoryLap RetryReachesFlush
CHECK_DEADLOCK FALSE
