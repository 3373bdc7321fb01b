SPECIFICATION FairUniformSpec
CONSTANTS
    Output = {o1, o2}
    Still = {w1, w2}
    Moving = {m}
    NoWall = none
    MaxRequests = 2
INVARIANTS RecordedWasShown FactAtRest
PROPERTIES EveryRequestEnds
CHECK_DEADLOCK FALSE
