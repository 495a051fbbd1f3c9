SPECIFICATION Spec
CONSTANTS
    Sessions = {s1, s2}
    Paths = {p1}
    Inodes = {i1, i2}
    Handles = {h1, h2, h3}
    Data = {d1}
    None = None
    Perms = {"ro", "rw"}
    MaxTransfers = 2
    DiskCanFill = FALSE
    MaxBlocks = 1
    MaxTaskId = 2
    MaxSent = 0
SYMMETRY NamesSymmetry
INVARIANTS
    TaskIdsUnique
