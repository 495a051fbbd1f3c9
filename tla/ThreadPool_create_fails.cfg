SPECIFICATION FairSpec
CONSTANTS
    Requested = 2
    Tasks = {t1}
    NoTask = NoTask
PROPERTIES
    CreateReturns
