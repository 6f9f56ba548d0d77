CONSTANTS
    Approvals <- MCApprovals
    Tasks <- MCTasks
    TaskOf <- MCTaskOf
    Calls = {c1, c2, c3}
SPECIFICATION Spec
CHECK_DEADLOCK FALSE
PROPERTIES
    ImplementsHumanApproval
    EveryReviewEnds
