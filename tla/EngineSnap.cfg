SPECIFICATION UniformSpec
CONSTANTS
    Output = {o1, o2}
    Still = {w1, w2}
    Moving = {m}
    NoWall = none
    MaxRequests = 2
PROPERTIES NoSnap
CHECK_DEADLOCK FALSE
