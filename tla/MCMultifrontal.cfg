SPECIFICATION MfSpec
CONSTANTS
  Lanes = {0, 1}
  MaxRoom = 1
  Aborted = Aborted
  WeakRatio <- MCWeakRatio
  BlockedMinFront = 4
  AptpNb = 2
  AptpIb = 1
  SmallFrontMax = 3
  RootBlockMin = 3
  ChunkSize = 5
  Problems <- MCProblems
INVARIANTS
  HoldersOnly
  FactorIsExact
  DealtAsSerial
  LayoutSolves
