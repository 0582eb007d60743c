SPECIFICATION Spec
CONSTANTS
  a = a
  b = b
  c = c
  d = d
  e = e
  Requests = {a, b, c, d}
  MaxPending = 1
  Capacity = 2
  Widths = {2}
  MaxMembers = 3
  EventCap = 1
  MaxTokens = 0
  MaxFaults = 1
  Streams = TRUE
  JoinPolicy = FALSE
  ReusesSlots = TRUE
  Gather = FALSE
  Order = "fifo"
  HasDeadline = FALSE
  Recovers = TRUE
  Eligible = {a, b, c}
  TooLong = {}
  Stopping = {}
  Limit <- SameLimit
INVARIANTS TypeOK TaskAccounting OnePlaceEach ArrivalOrder SlotsRespected BoundedWaiting
SYMMETRY Symmetry
