SPECIFICATION GroupSpec
CONSTANTS
  r1 = r1
  r2 = r2
  Runs <- MCRuns
INVARIANT Alone
PROPERTY Released
CHECK_DEADLOCK FALSE
