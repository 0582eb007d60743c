SPECIFICATION Spec
CONSTANTS
  a = a
  b = b
  c = c
  NoLimit = NoLimit
  Requests <- MCRequests
  Prompt <- MCPrompt
  Output <- MCOutput
  Engines <- MCEngines
  ContextLimit = 4
  Capacity = 2
  GroupWidth = 2
  PendingCap = 3
  MaxBatches = 1
  Cancelling = {}
  MayFault = FALSE
INVARIANT RejectedTooLong
CHECK_DEADLOCK FALSE
