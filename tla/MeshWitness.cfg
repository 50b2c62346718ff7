CONSTANTS
  Nodes <- FourNodes
  Expected = 4
  MinCluster = 4
  Serials <- Two
  Fleets <- All
SPECIFICATION LiveSpec
INVARIANTS TypeOK VerdictsAreTrue
CHECK_DEADLOCK FALSE
PROPERTIES EventuallyReady
