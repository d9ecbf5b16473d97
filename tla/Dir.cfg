CONSTANTS
  Dot = Dot
  Names = {Dot, a, b, raw}
  Utf8 = {Dot, a, b}
  Lossy = Lossy
  Places = 4
  MaxChanges = 4
SPECIFICATION FairSpec
INVARIANT DirInv
PROPERTIES
  ImplementsListing
  LoopEnds
CHECK_DEADLOCK FALSE
