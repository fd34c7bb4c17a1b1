SPECIFICATION Spec
CONSTANTS
    i1 = i1
    w3 = w3
    w1 = w1
    w2 = w2
    Items = {i1}
    Workers = {w1, w2, w3}
    MaxAttempts = 2
    MaxCrashes = 1
INVARIANTS
    ToldOnce
    AttemptsOverrunIsBounded
PROPERTY
    SettledUnlessOrphaned
CHECK_DEADLOCK FALSE
