CONSTANTS
    MaxEvent = 4
    MaxFlush = 2
    MaxPush = 3
    MaxStart = 3
    MaxPid = 3
    MaxStarters = 2
    OldMayLinger = FALSE
    Agents = {"codex", "dsh"}
    Dirs = {"A", "B"}
    MaxSessions = 2
    MaxMessages = 2
    MaxCommands = 3
    MaxForks = 3
    MaxRuns = 3
    MaxWaiting = 1
SPECIFICATION Spec
INVARIANTS
    TurnsAreWhole
    RunningOwnsLock
    InFlightRunYields
    SwitchBackRestores
    OverflowIsLeft
    HandoffPublishedOnce
PROPERTIES
    OutcomeIsShown
    EveryEventIsAnswered
CHECK_DEADLOCK FALSE
