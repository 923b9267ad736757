SPECIFICATION Spec
CONSTANTS
  v1 = v1
  v2 = v2
  v3 = v3
  dense = dense
  holes = holes
  gaps = gaps
  full = full
  reduced = reduced
  None = None
  Values <- MCValues
  Full <- full
  Reduced <- reduced
  MatchingOrdered <- MCReduced
  TrialSkipped <- MCFull
  Eligible <- MCFull
  Analysed <- v1
  ZeroPattern <- MCZeroPattern
  Matchable <- MCMatchable
  Fits <- MCFits
  OmegaCap = 2
  Controls <- MCControls
  SlackMaxFallbacks = 2
INVARIANTS
  OutcomeConsistent
  ReuseNeverDrifts
  VerdictsStand
PROPERTIES
  FactorEnds
