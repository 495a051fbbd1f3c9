SPECIFICATION FairSpec
CONSTANTS
    MaxTransfers = 1
    Blocks = {1}
    MaxEntered = 2
    MaxRequests = 2
INVARIANTS
    TypeOK
    AuthAgrees
    LoggedInAsEntered
PROPERTIES
    OwnAnswers
    BufferDrains
CHECK_DEADLOCK FALSE
