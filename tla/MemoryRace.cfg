CONSTANTS
  Threads = {t1, t2}
  Kinds = {"memory"}
  Shared = {"memory"}
  BlockSize = 2
  Size = 4
  MaxBlock = 1
  MaxCount = 2
  MaxCalls = 2
  None = None
SPECIFICATION Spec
INVARIANT NoConcurrentAccess
CHECK_DEADLOCK FALSE
