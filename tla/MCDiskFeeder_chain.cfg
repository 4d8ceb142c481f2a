SPECIFICATION Spec
CONSTANTS
  SlotCount = 2
  BlockCount = 3
  WriteBound = 2
  FlushPasses = 2
  Worlds <- MCChained
INVARIANT
  NothingLost
