SPECIFICATION FairSpec
CONSTANTS
  n1 = n1
  n2 = n2
  NoName = NoName
  NoEvent = NoEvent
  Metadata <- TwoAuthors
  Notes = {}
  DeniedNames = {}
  Expiration = 1
  Frequency = 1
  MaxFailures = 1
  Jitter = 1
  RingCap = 1
  Replies <- AllReplies
  Grpc = TRUE
  Failures = FALSE
INVARIANTS RecordsUnique
PROPERTIES FreshlyConfirmed StoredForVerified RowsRenewedOrDropped
