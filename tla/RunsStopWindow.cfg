CONSTANTS
    w1 = w1
    w2 = w2
    m1 = m1
    m2 = m2
    m3 = m3
    claude = claude
    codex = codex
    Workspace <- MCTwoLanes
    Message <- MCMessages
    RepeatedKey = {}
    MaxWaitingQueue = 2
    MaxSlot = 2
    MaxEdit = 0
    Kind <- MCConnections
    WorkspaceLifetime <- MCConnections
    MaxCached = 1
    CompactTask = {}
    UsersMove = FALSE
    MaxRunner = 4
    MaxConfig = 0
    MaxWindow = 1
SPECIFICATION Spec
INVARIANTS
    RunnerOfLiveRunIsKept
CHECK_DEADLOCK FALSE
