SPECIFICATION Spec
CONSTANTS
    MaxTurns = 2
    MaxSpawns = 2
    MaxRunners = 2
    MaxOut = 1
    MaxAsks = 2
INVARIANTS
    TurnEndsWithItsOwnResult
    NoStrayProcess
PROPERTIES
    EveryTurnEnds
CHECK_DEADLOCK FALSE
