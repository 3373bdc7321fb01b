CONSTANTS
    Output = {o1, o2}
    Still = {s}
    Moving = {m}
    NoWall = NoWall
    Slots = 2
    MaxRequests = 3
    MaxFaults = 3
SPECIFICATION Spec
INVARIANTS
    RecordIsVisible
CHECK_DEADLOCK FALSE
