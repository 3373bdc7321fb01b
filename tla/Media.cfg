SPECIFICATION FairMediaSpec
CONSTANTS
    Lengths = {1, 2, 3}
    Caps = {0, 1, 2, 3}
    MaxRewinds = 2
INVARIANTS PassIsExact NoOrphans
PROPERTIES CallsEnd
CHECK_DEADLOCK FALSE
