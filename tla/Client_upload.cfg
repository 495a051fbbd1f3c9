SPECIFICATION Spec
CONSTANTS
    MaxTransfers = 1
    Blocks = {1}
    MaxEntered = 1
    MaxRequests = 2
INVARIANTS
    UploadStored
CHECK_DEADLOCK FALSE
