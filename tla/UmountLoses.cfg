CONSTANTS
  Instances = {i1}
  Blocks = {b1}
  MaxWrites = 1
SPECIFICATION DSpec
INVARIANT UmountFlushes
CHECK_DEADLOCK FALSE
