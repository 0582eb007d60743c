SPECIFICATION Spec
CONSTANTS
  a1 = a1
  a2 = a2
  i1 = i1
  i2 = i2
  None = None
  Default = Default
  Actions <- MCActions
  Identities <- MCIdentities
  OwnEvaluator <- MCOwn
  RefRuns = 1
  MaxTests = 1
  MaxTrials = 2
  Pairs = 1
  MaxStarts = 3
  MaxFaults = 2
SYMMETRY Symmetry
INVARIANTS MeasuredOnce EvidenceFirst Truthful
CHECK_DEADLOCK FALSE
