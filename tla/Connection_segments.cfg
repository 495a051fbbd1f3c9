SPECIFICATION Spec
CONSTANTS
    Commands = {"heartbeat", "login"}
    Bodies = {x, y}
    Lengths = {3}
    WholeHeaders = TRUE
    MaxFrames = 2
INVARIANTS
    CorrectFramesAccepted
