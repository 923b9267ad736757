SPECIFICATION Spec
CONSTANTS
  Banded = FALSE
  MinGap = 2
  DelayThreshold = 0
  MaxNeg = 1
  MaxDelays = 2
  MaxCalls = 5
  ScaledCalls = 2
INVARIANTS
  FactorAlive
  OneAnalysisInReserve
  SolvesLastFactor
  LearnsAccepted
  RefinesFactored
PROPERTY
  ReanalysesSpaced
