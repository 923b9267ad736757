SPECIFICATION Spec
CONSTANTS
  Banded = TRUE
  MinGap = 2
  DelayThreshold = 0
  MaxNeg = 1
  MaxDelays = 2
  MaxCalls = 5
  ScaledCalls = 2
INVARIANT
  SolvesLastFactor
