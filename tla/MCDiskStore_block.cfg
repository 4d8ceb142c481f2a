SPECIFICATION Spec
CONSTANTS
  SlotCount = 2
  BlockCount = 2
  FillTicks = 8
  Commands = {"block"}
  Stops = {"channel"}
VIEW Seen
INVARIANTS
  TypeOK
  BlockInterlock
  WalkHasItsBlock
  NoFalseHeaderError
