CONSTANTS
  Nodes <- FourNodes
  Byzantine <- One
  Crashed <- None
  Bodies <- TwoBodies
  Forged <- Plain
  Evidence <- Same
  Late <- None
  Digest <- OneThenFour
  Threshold = 3
  MaxView = 1
SPECIFICATION Spec
INVARIANTS Agreement
CHECK_DEADLOCK FALSE
