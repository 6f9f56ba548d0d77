SPECIFICATION StoresSpec
CONSTANTS
    w1 = w1
    w2 = w2
    plain = plain
    other = other
    secret = secret
    person = person
    Workers = {w1, w2}
    MaxSkills = 2
    Shape <- MCShape
    Notes = {plain, other, secret, person}
    Forbidden = {secret}
    CaseFacts = {person}
    NoteLimit = 1
    DeltaCap = 1
    Updates <- MCUpdates
    MaxUpdates = 2
    MaxRuns = 2
INVARIANTS
    CountersNeverOvercount
    OutOfRetrievalWasAsked
SYMMETRY MCSymmetry
CHECK_DEADLOCK FALSE
