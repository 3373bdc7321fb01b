SPECIFICATION FairHotplugSpec
CONSTANTS
    Output = {o1, o2}
    Size = {s1, s2}
    NoSize = none
    MaxRestarts = 3
    Window = 60
    Client = {c1}
    Sectioned = {o1}
    MaxChanges = 2
    MaxRequests = 1
    MaxTogether = 2
INVARIANTS SnapshotSettles DrawnAtSize WallpaperReturns
PROPERTY Settles
CHECK_DEADLOCK FALSE
