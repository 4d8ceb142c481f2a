SPECIFICATION Spec
CONSTANTS
    Worlds <- MCWorlds
    CmdBound = 3
    EpochBound = 2
    KillBound = 1
    MaxHandles = 1
INVARIANTS
    MemoryHeld
    
    OnceInOrder
    HandlesTogether
PROPERTIES
    
    Served
