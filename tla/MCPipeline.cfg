SPECIFICATION PipeSpec
CONSTANTS
    draft = draft
    release = release
    Requests <- MCRequests
    LeafRequests <- MCLeafRequests
    Plans <- MCPlans
    Files = {draft}
    Gates = {release}
    MaxIterations = 1
    MaxLeaves = 2
INVARIANTS
    
    PassMeansPackMade
    SchoolGoalStaysLocal
    GovernedCaseActsOnce
PROPERTIES
    TaskReturns
CHECK_DEADLOCK FALSE
