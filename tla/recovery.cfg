SPECIFICATION Spec
CONSTANTS
  b1 = b1
  b2 = b2
  b3 = b3
  p1 = p1
  p2 = p2
  None = None
  Backends <- MCBackends
  Profiles <- MCProfiles
  MaxRestarts = 1
  MaxFailures = 1
  Tunes = TRUE
  MaxStuck = 1
VIEW MCView
INVARIANTS OneServing IdentityServed ClosedClean
PROPERTIES Resolved CloseEnds
