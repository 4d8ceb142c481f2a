SPECIFICATION Spec
CONSTANTS
  Kinds <- MCShortKinds
  FrameBound = 3
  QueueLength = 2
  Offers = 2
  Events = {"clear_tx", "reset", "mode"}
PROPERTIES
  TransmitEnds
  QueueDrains
