SPECIFICATION Spec
CONSTANTS
  SlotCount = 1
  BlockCount = 2
  FillTicks = 0
  Commands = {"readall", "writeall"}
  Stops = {"channel", "fabric"}
VIEW Seen
INVARIANT
  ValidIsWhole
PROPERTY
  TrackOwnsItsSlot
