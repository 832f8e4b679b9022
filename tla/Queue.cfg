CONSTANTS
    w1 = w1
    w2 = w2
    m1 = m1
    m2 = m2
    m3 = m3
    m4 = m4
    k = k
    Workspace <- MCTwoLanes
    Message <- MCThreeMessages
    RepeatedKey = {}
    MaxWaitingQueue = 1
    MaxSlot = 3
    MaxEdit = 2
SPECIFICATION FairQueueSpec
INVARIANTS
    VisibleWhileExecuting
    CancelledNeverRuns
    LatestEditRuns
PROPERTIES
    ImplementsSerialQueue
    LanesMoveOn
CHECK_DEADLOCK FALSE
