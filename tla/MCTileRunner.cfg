SPECIFICATION FairSpec
CONSTANTS
  K = 4
  NR = 6
  Caller = caller
  Helpers = {h1, h2}
  NoThread = NoThread
INVARIANTS
  HelpersSound
  SerialEquivalent
PROPERTY
  FrontEnds
