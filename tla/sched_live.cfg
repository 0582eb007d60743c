SPECIFICATION Spec
CONSTANTS
  a = a
  b = b
  c = c
  d = d
  e = e
  Requests = {a, b}
  MaxPending = 2
  Capacity = 2
  Widths = {1}
  MaxMembers = 3
  EventCap = 1
  MaxTokens = 1
  MaxFaults = 1
  Streams = TRUE
  JoinPolicy = TRUE
  ReusesSlots = FALSE
  Gather = FALSE
  Order = "sjf"
  HasDeadline = TRUE
  Recovers = FALSE
  Eligible = {a, b}
  TooLong = {b}
  Stopping = {a}
  Limit <- MCLimit
PROPERTIES CallersAnswered SessionsRetired
