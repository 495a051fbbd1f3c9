SPECIFICATION FairSpec
CONSTANTS
    Tasks = {1}
    Slots = {w1}
    NoTask = NoTask
    Backlog = 1
PROPERTIES
    SignalStops
