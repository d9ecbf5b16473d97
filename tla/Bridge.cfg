CONSTANTS
  Threads = {t1, t2}
  Kinds = {"file", "readonly", "memory"}
  Shared = {"file", "readonly"}
  BlockSize = 2
  Size = 5
  MaxBlock = 2
  MaxCount = 2
  MaxCalls = 3
  None = None
SPECIFICATION FairSpec
INVARIANTS
  TypeOK
  CursorOwned
PROPERTIES
  ImplementsStore
  CallbacksReturn
CHECK_DEADLOCK FALSE
