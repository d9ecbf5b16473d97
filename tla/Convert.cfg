CONSTANTS
  Width = 5
  MaxDevice = 31
  BlockSizes = {0, 1, 2, 3, 4, 8}
  ErrnoOf <- Errnos
  MaxId = 3
  MaxPath = 3
  NameLen = 2
  Labels <- SomeLabels
  Uuids = {u1, u2}
  FsBlockSizes = {1, 2, 4}
  Length = 30
  DefaultSize = 4
  None = None
  Torn = Torn
  MaxOptions = 2
  MaxFormats = 2
SPECIFICATION MSpec
INVARIANTS
  FlagsKept
  SeekExact
  TypesAgree
  ErrorsAgree
  BlocksInside
  PathsOwn
  FormatAsAsked
  LabelComesBack
  SizesAddUp
CHECK_DEADLOCK FALSE
