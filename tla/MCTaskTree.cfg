SPECIFICATION Spec
CONSTANTS
    l1 = l1
    l2 = l2
    l3 = l3
    l4 = l4
    ghost = ghost
    Leaves <- MCLeaves
    Emitted <- MCEmitted
    Proposals <- MCProposals
    LeafRuns <- MCLeafRuns
INVARIANTS
    NoLeafAfterAFailedDependency
    ParentCarriesTheWorstLeaf
CHECK_DEADLOCK FALSE
