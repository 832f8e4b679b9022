CONSTANTS
    Kinds = {"codex", "opencode", "kimi", "pi"}
    MaxConns = 3
    MaxAttempts = 3
SPECIFICATION TurnFairSpec
INVARIANTS
    EndIsTrue
    StrayOnlyIfGivenUp
PROPERTIES
    EveryTurnEnds
CHECK_DEADLOCK FALSE
