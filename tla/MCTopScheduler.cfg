SPECIFICATION FairSpec
CONSTANTS
  Nodes <- MCNodes
  Parent <- MCParent
  Workers = {w1, w2, w3}
  NoWorker = NoWorker
  Threads = 3
  TileJobs = 1
  Spurious = 1
INVARIANTS
  DispatchSound
  BudgetConserved
  AtMostOneLate
PROPERTY
  AllReturn
