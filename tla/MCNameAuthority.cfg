SPECIFICATION Spec
CONSTANTS
  w1 = w1
  w2 = w2
  n1 = n1
  n2 = n2
  p = p
  q = q
  ip1 = ip1
  NoKey = NoKey
  NoEvent = NoEvent
  NoTime = NoTime
  Workers <- TwoWorkers
  Names <- TwoNames
  Reserved = {}
  Pubkeys <- Keys
  Ips <- Clients
  AuthEvents <- ClaimEvents
  PaidMode = TRUE
  ReadMax = 0
  ReadWindow = 1
  WriteMax = 1
  WriteWindow = 1
  Cooldown = 2
  MapLimit = 50
  MaxTime = 2
  TicksPerSecond = 2
  MaxAge = 0
  Skew = 1
  MaxRestarts = 1
SYMMETRY WorkerSymmetry
INVARIANTS OneNamePerKey OneUseWhileFresh
PROPERTIES RefinesRegistry CooldownHonoured
