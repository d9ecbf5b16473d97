CONSTANTS
  Threads = {t1}
  Names = {a, b}
  Inodes = {i1, i2}
  Modes = {448, 511}
  DefaultMode = 511
  Owners = {0, 1}
  MaxCalls = 4
  MayFail = FALSE
SPECIFICATION Spec
SYMMETRY Symmetry
INVARIANT FileMetadataOfFile
CHECK_DEADLOCK FALSE
