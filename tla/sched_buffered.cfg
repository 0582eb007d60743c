SPECIFICATION Spec
CONSTANTS
  a = a
  b = b
  c = c
  d = d
  e = e
  Requests = {a, b}
  MaxPending = 2
  Capacity = 2
  Widths = {2}
  MaxMembers = 3
  EventCap = 1
  MaxTokens = 2
  MaxFaults = 2
  Streams = FALSE
  JoinPolicy = FALSE
  ReusesSlots = FALSE
  Gather = TRUE
  Order = "learned"
  HasDeadline = TRUE
  Recovers = TRUE
  Eligible = {a, b}
  TooLong = {b}
  Stopping = {a}
  Limit <- MCLimit
INVARIANTS CountedOnce CallerAgrees
