SPECIFICATION Spec
CONSTANTS
  SlotCount = 2
  BlockCount = 3
  WriteBound = 2
  FlushPasses = 2
  Worlds <- MCWorlds
INVARIANTS
  NothingLostSingly
  WalkSeesLatest
  OneSlotEach
PROPERTIES
  RequestAnswered
  WritesReachPack
