SPECIFICATION FairSpec
CONSTANTS
    Names = {n1}
    Passwords = {p1}
    Keys = {"log_level", "root_dir"}
    MaxUsers = 2
    MaxLines = 4
    MaxQueued = 1
    Main = main
    Workers = {w1}
    Threads = {main, w1}
    NoThread = NoThread
INVARIANTS
    TypeOK
    LoadedAsWritten
    ReleasedInOrder
    HandlerLinesKept
PROPERTIES
    LogInOrder
    SignalEndsProcess
CHECK_DEADLOCK FALSE
