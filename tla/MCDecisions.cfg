SPECIFICATION MCSpec
CONSTANTS
    p1 = p1
    p2 = p2
    k1 = k1
    c1 = c1
    s1 = s1
    s2 = s2
    o1 = o1
    o2 = o2
    t1 = t1
    t2 = t2
    Items <- MCItems
    Kind <- MCKind
    Key <- MCKey
    HardKeys = {"hard"}
    Operators = {o1, o2}
    Threads = {t1, t2}
    MaxRequests = 2
    MaxRestarts = 1
    MaxTears = 1
    MaxEdits = 1
INVARIANTS
    EffectsWereApproved
    OnePendingSopWhileUp
    ReturnedDecisionsSurvive
SYMMETRY MCSymmetry
CHECK_DEADLOCK FALSE
