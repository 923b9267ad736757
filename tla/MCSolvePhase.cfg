CONSTANTS
  Workers = {1}
  NoOne = NoOne
  NoFront = 0
  SubFronts <- MCSub
  TopFronts <- MCTop
  TopParent <- MCParent
  Ext <- MCExt
  Callers = {P, Q}
  Parallel = P
  Programs <- MCPrograms
  Columns = 2
  SlackRefineSteps = 1
  None = None
  Metrics <- MCMetrics
  RefineColumns = 2
  Settings <- MCSettings
SPECIFICATION Spec
INVARIANTS SolvesTree FullSolveIsHonest RefineSound
PROPERTIES ReturnsLast BuiltOnce SolvesEnd
CHECK_DEADLOCK FALSE
