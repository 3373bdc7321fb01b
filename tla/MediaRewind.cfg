SPECIFICATION MediaSpec
CONSTANTS
    Lengths = {1, 2, 3}
    Caps = {0, 1, 2, 3}
    MaxRewinds = 2
INVARIANT FramesInOrder
CHECK_DEADLOCK FALSE
