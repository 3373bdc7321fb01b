SPECIFICATION FairSpec
CONSTANTS
    Milli = 2
    Delays <- MCDelays
    Duration = 4
    SeekBudget = 2
    Targets = {1, 3}
    Loops <- MCLoops
    MaxRequests = 2
INVARIANTS AnswersAreTrue NoLeakedClock FreezesAtOnce
PROPERTIES EveryRequestEnds
CHECK_DEADLOCK FALSE
