CONSTANTS
    w1 = w1
    w2 = w2
    m1 = m1
    m2 = m2
    m3 = m3
    claude = claude
    codex = codex
    Workspace <- MCTwoLanes
    Message <- MCMessages
    RepeatedKey = {}
    MaxWaitingQueue = 2
    MaxSlot = 3
    MaxEdit = 0
    Kind <- MCKinds
    WorkspaceLifetime <- MCConnections
    MaxCached = 1
    CompactTask <- MCSecond
    UsersMove = TRUE
    MaxRunner = 6
    MaxConfig = 1
    MaxWindow = 1
SPECIFICATION Spec
INVARIANTS
    LiveRunnerIsKept
    OneLiveRunPerWorkspace
    RunsOnCurrentConfig
PROPERTIES
    QueuedTaskIsServed
CHECK_DEADLOCK FALSE
