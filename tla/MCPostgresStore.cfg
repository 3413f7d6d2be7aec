SPECIFICATION FairSpec
CONSTANTS
  db_writer = db_writer
  verifier = verifier
  NoEvent = NoEvent
  Cleanup = cleanup
  Events <- AllEvents
  MaxTime = 1
  Writers <- BothWriters
  Offers <- MetadataForBoth
INVARIANTS VersionsBounded NothingLost DeletionHides
PROPERTY WritesEnd
