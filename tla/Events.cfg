SPECIFICATION Spec
CONSTANTS
    MaxBlocks = 2
    MaxText = 3
    MaxSaid <- MCMaxSaid
    Stream = {m1, m2}
    Tool = {"c", "x"}
    Command = {"c"}
    Request = {"q"}
    AcpRequest = {"q"}
    ControlRequest = {"q"}
SYMMETRY MessageItems
INVARIANTS
    CardTellsTheAgent
    EndIsTold
    ApprovalNamesItsFiles
CHECK_DEADLOCK FALSE
