SPECIFICATION Spec
CONSTANTS
  Kinds <- MCKinds
  FrameBound = 3
  QueueLength = 1
  Offers = 2
  Events = {"clear_tx", "clear_rx", "reset", "mode", "short"}
INVARIANTS
  DoneMeansGone
  LandsWhole
  LandsOnceInOrder
PROPERTIES
  TakenWasRead
VIEW Seen
