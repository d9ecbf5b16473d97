CONSTANTS
  Threads = {t1, t2}
  Names = {a, b}
  Inodes = {i1, i2}
  Modes = {448, 511}
  DefaultMode = 511
  Owners = {0, 1}
  MaxCalls = 4
  MayFail = TRUE
SPECIFICATION Spec
SYMMETRY Symmetry
INVARIANTS
  FilesInv
  MkdirMade
  MetadataTrue
  AnswersTrue
PROPERTY ReadOnlyUntouched
CHECK_DEADLOCK FALSE
