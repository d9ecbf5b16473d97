CONSTANTS
  Instances = {i1, i2}
SPECIFICATION FairSpec
INVARIANTS
  TypeOK
  OwnEntries
  RegisteredAlive
  UmountOkReleases
  JournalKnown
  IInv
PROPERTIES
  ImplementsRegistry
  CallsSettle
CHECK_DEADLOCK FALSE
