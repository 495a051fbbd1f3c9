SPECIFICATION FairSpec
CONSTANTS
    Requested = 2
    Tasks = {t1, t2, t3, t4}
    NoTask = NoTask
INVARIANTS
    TypeOK
    QueueIntegrity
    ActiveAccurate
    FifoExactlyOnce
    NoSleeperWhileWorkWaits
    FreedAfterLastWorker
    IInv
PROPERTIES
    WaitMeansIdle
    ImplementsFairTaskQueue
    DestroyTerminates
