SPECIFICATION Spec
CONSTANTS
    Output = {o1, o2}
    Size = {s1, s2}
    NoSize = none
    MaxRestarts = 2
    Window = 2
    MaxTime = 3
    MaxFailures = 3
INVARIANTS HealthMatchesHistory NoGhostOutputs
PROPERTIES BudgetIsExact FailuresAreIsolated
