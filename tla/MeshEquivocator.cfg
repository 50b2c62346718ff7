CONSTANTS
  Nodes <- FourNodes
  Byzantine <- One
  Crashed <- None
  Bodies <- TwoBodies
  Forged <- Loose
  Evidence <- Mixed
  Late <- None
  Digest <- OneThenFour
  Threshold = 3
  MaxView = 1
SPECIFICATION Spec
INVARIANTS TypeOK AgreementAcrossLiveSets CertificateAgreement ConvictedByHonest
CHECK_DEADLOCK FALSE
