SPECIFICATION MCSpec
CONSTANTS NonFinite = 3 EpsFactor = 2 EpsStart = 8 EpsFinal = 2 BidCap = 3
  FreeZeros = 1 ZeroShareTenths = 1 MinBlock = 1 WordFlops = 2
  MetisFlopsPerRow = 5 PairTolLog = 0
  MinSplit = 3 Levels = 2 SplitSepDepth = 1 SepRuns = 2 SepFloor = 3 AmdLeafMax = 2
  AutoMatchingMinN = 3 MetisMinN = 4 BandMax = 1 IdentityMaxN = 3 MaxFreePercent = 50
INVARIANTS TrialAsSerial ScaleIsOptimal FrontsHoldFactor
PROPERTY AnalysisEnds
CHECK_DEADLOCK FALSE
