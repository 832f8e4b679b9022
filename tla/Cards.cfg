CONSTANTS
    w1 = w1
    m1 = m1
    m2 = m2
    m3 = m3
    Workspace <- MCOneLane
    Message <- MCMessages
    RepeatedKey = {}
    MaxWaitingQueue = 3
    MaxSlot = 3
    MaxEdit = 2
    MaxHandler = 2
    MayFail = TRUE
    Overlap = TRUE
SPECIFICATION Spec
SYMMETRY MCSymmetry
INVARIANTS
    CardTellsFate
    PromisedTaskIsNext
    NoCardForgotten
CHECK_DEADLOCK FALSE
