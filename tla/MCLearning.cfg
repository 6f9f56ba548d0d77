SPECIFICATION Spec
CONSTANTS
    w1 = w1
    w2 = w2
    s1 = s1
    Workers <- MCWorkers
    Shapes <- MCShapes
    Results <- MCResults
    MinSuccesses = 2
    MinObservations = 2
    MaxIterations = 1
    Limit = 1
    MaxRuns = 3
INVARIANTS
    OvershootIsBounded
    ServedIsEarned
CHECK_DEADLOCK FALSE
