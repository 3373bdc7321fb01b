SPECIFICATION Spec
CONSTANTS
    a = a
    b = b
    walls = walls
    more = more
    Client = {c1, c2}
    Path = {a, b}
    Dir = {walls, more}
    DirOf <- MCDirOf
    Parent <- MCParent
    NoDir = none
    Roots = {walls, more}
    MaxEdits = 2
    MaxRequests = 3
    MaxCrashes = 1
SYMMETRY Clients

PROPERTY RowsSurvive
CHECK_DEADLOCK FALSE
