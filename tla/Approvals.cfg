CONSTANTS
    Request = {ask, exec}
    Asking = {ask}
    Questions = 2
    MaxNonce = 2
    MaxAsk = 3
SPECIFICATION FairSpec
INVARIANTS
    OneAnswerEach
    RequestsAreTended
PROPERTIES
    ServerIsReleased
CHECK_DEADLOCK FALSE
