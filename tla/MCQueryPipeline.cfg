SPECIFICATION FairSpec
CONSTANTS
  c1 = c1
  c2 = c2
  q1 = q1
  q2 = q2
  q3 = q3
  Nobody = Nobody
  Conns <- OneConn
  Queries <- Three
  ConnOf <- SameConn
  Rows <- Rows210
  Permits = 1
  QueryCap = 1
  CheckEvery = 2
  Checkpoints = 1
INVARIANTS PermitsConserved
PROPERTY QueriesEnd
CHECK_DEADLOCK FALSE
