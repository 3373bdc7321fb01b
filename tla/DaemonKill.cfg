SPECIFICATION Spec
CONSTANTS
    Process = {d1, d2}
    Wallpaper = {a, b}
    EventSocket = TRUE
    MaxStarts = 2
    MaxSets = 2
    MaxCrashes = 1

PROPERTY KillIsAnswered
CHECK_DEADLOCK FALSE
