SPECIFICATION Spec
CONSTANTS
  MemAnswers = TRUE
  ResetBound = 0
  Events = {"init"}
PROPERTY
  CycleEnds
