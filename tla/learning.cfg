SPECIFICATION Spec
CONSTANTS
  p = p
  q = q
  None = None
  Policies = {p}
  Pairs = 2
  MaxTrials = 1
  Windows = 1
  FailedWindows = 1
  Actions = 1
  Arms = 2
  Holdout = 1
  MaxControls = 2
  MaxSaves = 1
  MaxRestarts = 1
INVARIANTS TripletsWhole RollbackKept LearnsUndisturbed
CHECK_DEADLOCK FALSE
