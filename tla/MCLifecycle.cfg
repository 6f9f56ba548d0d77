CONSTANTS
    Tasks = {t1, t2}
    Confirms = {c1, c2}
    MaxRestarts = 1
SPECIFICATION Spec
CHECK_DEADLOCK FALSE
INVARIANTS
    HardStoppedCaseNeverContinues
    StoreHoldsNoGhost
    OneConfirmationWhileUp
PROPERTIES
    EveryTaskSettles
