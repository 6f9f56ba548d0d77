CONSTANTS
    Tasks <- MCTasks
    Actions <- MCActions
    Calls = {c1, c2}
    Plan <- MCPlan
    Proposals <- MCProposals
SPECIFICATION Spec
CHECK_DEADLOCK FALSE
INVARIANTS
    ReleaseOnlyAfterArtifact
PROPERTIES
    ImplementsGovernedExecution
    EveryPlanFinishes
