SPECIFICATION Spec
CONSTANTS
    MaxTurns = 2
    MaxSpawns = 2
    MaxRunners = 2
    MaxOut = 1
    MaxAsks = 2
INVARIANT LiveProcessIsRecorded
CHECK_DEADLOCK FALSE
