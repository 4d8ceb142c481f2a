SPECIFICATION Spec
CONSTANTS
    BEATS = 2
    BEAT_T = 1
    GAP_T = 1
    GAP_MIN = 0
    LOSS_T = 12
    EventBound = 2
    Worlds <- MCWorlds
INVARIANTS
    
    FoundIsRight
PROPERTIES
    ComesUp
    GoesQuiet
