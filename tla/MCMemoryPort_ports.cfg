SPECIFICATION Spec
CONSTANTS
    CAP = 2
    Worlds <- MCWorlds
INVARIANTS
    EveryAnswerAwaited
    GrantStands
    QuietWhenAcknowledged
    NoOldAnswer
    WithinCap
PROPERTIES
    MachineFirst
    Drains
    
