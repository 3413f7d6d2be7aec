SPECIFICATION Spec
CONSTANTS
  c1 = c1
  c2 = c2
  e1 = e1
  e2 = e2
  e3 = e3
  e4 = e4
  NoEvent = NoEvent
  Conns <- OneConn
  Events <- AllEvents
  Ephemeral <- OnlyE3
  Denied <- OnlyE4
  Blocked = {}
  Ignorable <- OnlyE2
  Subs <- SameId
  MaxSubs = 1
  EventCap = 1
  BcastCap = 1
  NoticeCap = 1
  CheckEvery = 2
  Failures = TRUE
  MaxQueries = 2
  MaxSubmits = 2
CHECK_DEADLOCK FALSE
INVARIANTS NoGap EoseComplete SavedIsStored
