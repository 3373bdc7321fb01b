\* Not a run: every listed kind of wallpaper can be set.  Violated (README, disagreements).
SPECIFICATION Spec
CONSTANTS
    U32 = 1000
    ENV <- Env
CHECK_DEADLOCK FALSE
INVARIANT ListedCanBeSet
