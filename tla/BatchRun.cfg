CONSTANTS
  Procs <- TwoProcs
  Devices <- TwoDrives
  Batches <- Lists
  Parts <- Partitions
  Serialless <- Sdb
  Verified <- Sda
  Flaky <- Sda
  Windows = 2
  MaxFaults <- Faults
SPECIFICATION LiveSpec
INVARIANTS TypeOK WorkerOwnsItsDrive ReportsAreTrue
PROPERTIES CertifiedWhole BatchSettles
CHECK_DEADLOCK FALSE
