SPECIFICATION Spec
CONSTANTS
  c1 = c1
  c2 = c2
  p1 = p1
  s1 = s1
  s2 = s2
  None = None
  Procs <- MCProcs
  Cloud <- MCCloud
  Slugs <- MCSlugs
  SlugOf <- MCSlugOf
  Amount <- MCAmount
  Totals = {5, 6}
  CapOf <- MCCapOf
  Spare = 1
  Half = 0
  Second = 1
  MaxTotal = 6
  MaxUsed = 6
  MaxWindows = 2
SYMMETRY Symmetry
INVARIANTS OneJob SubmittedOnce CapKept
CHECK_DEADLOCK FALSE
