CONSTANTS
  Instances = {i1}
SPECIFICATION Spec
INVARIANT MountedAlive
CHECK_DEADLOCK FALSE
