SPECIFICATION FairSpec
CONSTANTS
  N = 5
  Threads = {0, 1}
  At = 5
  Proj <- MCProj
  MinWork = 6
  PartsPerThread = 1
  GrainsPerThread = 1
  BudgetThreads = 2
  Scenarios <- MCScenarios
  WorkCap = 10
  NegLimit = 1
INVARIANTS
  PlanSound
  GateDecidesInPostorder
  SameAsSerial
PROPERTY
  ReportsACause
