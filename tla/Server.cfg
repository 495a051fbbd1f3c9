SPECIFICATION FairSpec
CONSTANTS
    Tasks = {1, 2, 3}
    Slots = {w1, w2}
    NoTask = NoTask
    Backlog = 1
INVARIANTS
    TypeOK
    SessionsAccounted
    OneOwner
    RegistryOrdered
PROPERTIES
    WaitingServed
    CleanupTerminates
