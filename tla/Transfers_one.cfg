SPECIFICATION Spec
CONSTANTS
    Sessions = {s1}
    Paths = {p1, p2}
    Inodes = {i1}
    Handles = {h1, h2}
    Data = {d1, d2}
    None = None
    Perms = {"ro", "rw"}
    MaxTransfers = 2
    DiskCanFill = FALSE
    MaxBlocks = 2
    MaxTaskId = 2
    MaxSent = 3
SYMMETRY NamesSymmetry
INVARIANTS
    TypeOK
    TransferLimit
    TransfersNeedLogin
    DownloadPrefix
    AckedStored
PROPERTIES
    ImplementsStreams
