SPECIFICATION FairSpec
CONSTANTS
  c1 = c1
  c2 = c2
  e1 = e1
  e2 = e2
  e3 = e3
  e4 = e4
  NoEvent = NoEvent
  Conns <- TwoConns
  Events <- TwoEvents
  Ephemeral = {}
  Denied = {}
  Blocked <- OnlyE2
  Ignorable <- TwoEvents
  Subs <- OneSub
  MaxSubs = 2
  EventCap = 1
  BcastCap = 2
  NoticeCap = 2
  CheckEvery = 2
  Failures = FALSE
  MaxQueries = 1
  MaxSubmits = 2
CHECK_DEADLOCK FALSE
PROPERTIES Answered Delivered
