SPECIFICATION Spec
CONSTANTS
    Sessions = {s1, s2}
    Paths = {p1}
    Inodes = {i1, i2}
    Handles = {h1, h2}
    Data = {d1, d2}
    None = None
    Perms = {"rw"}
    MaxTransfers = 1
    DiskCanFill = TRUE
    MaxBlocks = 1
    MaxTaskId = 2
    MaxSent = 1
SYMMETRY NamesSymmetry
INVARIANTS
    HandlesAccounted
PROPERTIES
    ClosedMeansStored
