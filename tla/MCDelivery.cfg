SPECIFICATION Spec
CONSTANTS
  c1 = c1
  c2 = c2
  Conns = {c1, c2}
  Publishers = {c1}
  Readers = {c2}
  Configs <- AllConfigs
  Messages <- AllMessages
  AuthEvents <- AllAuthEvents
  Requests <- AllRequests
  Keys <- AllKeys
  TwoTo63 = 1000000
  ChronoLimit = 1000
  PgLimit = 1
  AuthWindow = 0
  MaxTime = 1
  MaxSubmits = 2
  MaxReqs = 2
INVARIANTS PrivateToParties GiftWrapsReadable FiltersAgree DelegationHonoured
