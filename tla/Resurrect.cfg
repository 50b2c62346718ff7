CONSTANTS
  Boards <- OnTheBench
  Modes <- AllModes
  NumDies = 2
  NumBlocks = 2
  NumPages = 4
  NumChunks = 2
  NakLimit = 3
  MaxQuiet = 1
  MaxGlitches = 3
SPECIFICATION LiveSpec
INVARIANTS TypeOK OnlyWholeImagesRun ProofIsTruthful
PROPERTIES MissionSettles
CHECK_DEADLOCK FALSE
