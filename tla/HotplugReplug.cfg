SPECIFICATION HotplugSpec
CONSTANTS
    Output = {o1, o2}
    Size = {s1, s2}
    NoSize = none
    MaxRestarts = 3
    Window = 60
    Client = {c1}
    Sectioned = {o1}
    MaxChanges = 2
    MaxRequests = 0
    MaxTogether = 2
INVARIANT ReplugRestores
CHECK_DEADLOCK FALSE
