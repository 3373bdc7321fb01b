SPECIFICATION FairSpec
CONSTANTS
    Output = {o1}
    Size = {s1, s2}
    NoSize = none
    MaxBuffers = 2
    MaxCalls = 3
    MaxChanges = 1
INVARIANTS AnswersAreTrue AnsweredOnce
PROPERTIES InOrder ReadIsNotWritten
CHECK_DEADLOCK FALSE
