SPECIFICATION Spec
CONSTANTS
  r1 = r1
  probe = probe
  b1 = b1
  b2 = b2
  None = None
  Probe = probe
  Unnamed = unnamed
  Profile = TRUE
  Dispatches <- MCDispatches
  MinSessions = 2
  BaselineMin = 1
  Window = 1
  Runtimes <- OneRuntime
  Classes <- OneClass
  Builds <- MCBuilds
  MaxDispatches = 2
  MaxFaults = 2
  MaxRequalifications = 1
  MaxBuilds = 1
  MaxOffers = 1
CHECK_DEADLOCK FALSE
INVARIANTS TypeOK GateFollowsDecision KilledStaysOff DoubtRecorded EpochsKept
