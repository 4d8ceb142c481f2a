SPECIFICATION Spec
CONSTANTS
  MemAnswers = TRUE
  ResetBound = 1
  Events = {"reset", "port", "drop", "init"}
INVARIANTS
  OwnAnswer
  EveryAnswerAwaited
  UnansweredIsZero
PROPERTIES
  CycleEndsUnlessStranded
  ServesMemory
