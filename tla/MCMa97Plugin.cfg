SPECIFICATION PluginSpec
CONSTANTS
  Banded = FALSE
  MinGap = 1
  DelayThreshold = 0
  MaxNeg = 1
  MaxDelays = 0
  MaxCalls = 4
  ScaledCalls = 4
  Handles = {F, G}
  F = F
  G = G
INVARIANTS
  HandleAnswersItsFactor
  ScaleIsTheFactors
SYMMETRY Pointers
CHECK_DEADLOCK FALSE
