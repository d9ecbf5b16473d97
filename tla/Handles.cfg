CONSTANTS
  Handles = {h1, h2}
  Binary = {h2}
  WriteLen = 2
  ChunkLen = 2
  MaxSize = 3
  MaxCalls = 4
SPECIFICATION FairSpec
INVARIANTS
  TypeOK
  WriteAllWhole
  AcceptedStays
  ReadToEndWhole
PROPERTY LoopsEnd
CHECK_DEADLOCK FALSE
