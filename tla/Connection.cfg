SPECIFICATION FairSpec
CONSTANTS
    Commands = {"login", "badlogin", "logout", "heartbeat", "request"}
    Bodies = {x, y}
    Lengths = {0, 2}
    WholeHeaders = TRUE
    MaxFrames = 3
INVARIANTS
    TypeOK
    DispatchedAsSent
    LoggedInToStay
    EveryRequestAnswered
PROPERTIES
    AnsweredOrClosed
