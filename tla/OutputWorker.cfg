SPECIFICATION FairSpec
CONSTANTS
    Size = {s1, s2}
    NoSize = none
    MaxGeneration = 2
    MaxCopies = 1
    MaxWire = 2
INVARIANTS PresentedIsOnScreen BusyHasWork
PROPERTIES NewestWins WorkEnds
