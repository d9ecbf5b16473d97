CONSTANTS
  Instances = {i1, i2}
  Blocks = {b1, b2}
  MaxWrites = 2
SPECIFICATION DSpec
INVARIANTS
  SyncSurvivesCrash
  TeardownInv
  LifeInv
PROPERTY TeardownKeepsData
SYMMETRY Symmetry
CHECK_DEADLOCK FALSE
