SPECIFICATION Spec
CONSTANTS
    a1 = a1
    a2 = a2
    a3 = a3
    aInt = aInt
    b1 = b1
    NoBatch = NoBatch
    Tasks <- PlanTasks
    TaskOrder <- PlanOrder
    Kind <- PlanKind
    Subtrees <- PlanSubtrees
    Subtree <- PlanSubtree
    File <- PlanFile
    Units <- PlanUnits
    MaxUnits = 3
    MaxPrepares = 1
CHECK_DEADLOCK FALSE
INVARIANTS
    LoopsComputeOperators
    IntegrationRunsLast
    GroupIsWithinLimit
