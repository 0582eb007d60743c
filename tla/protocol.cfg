SPECIFICATION Spec
CONSTANTS
  a = a
  b = b
  c = c
  NoLimit = NoLimit
  Requests <- MCRequests
  Prompt <- MCPrompt
  Output <- MCOutput
  Engines <- MCEngines
  ContextLimit = 4
  Capacity = 2
  GroupWidth = 2
  PendingCap = 1
  MaxBatches = 2
  Cancelling <- MCCancelling
  MayFault = TRUE
INVARIANTS TypeOK NeverCondemned
PROPERTIES CancelKept Implements BatchEnds
CHECK_DEADLOCK FALSE
