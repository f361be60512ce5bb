SPECIFICATION FairSpec
CONSTANTS
    a1 = a1
    a2 = a2
    aInt = aInt
    b1 = b1
    fin = fin
    stray = stray
    NoBatch = NoBatch
    Main = main
    Scrap = scrap
    TaskOrder <- PairOrder
    Tasks <- PairTasks
    Kind <- PairKind
    Subtree <- PairSubtree
    File <- PairFile
    Units <- PairUnits
    Branches <- PairBranches
    Subtrees <- PairSubtrees
    Reviewable <- PairReviewable
    ReviewOf <- PairReviewOf
    BranchOf <- PairBranchOf
    Stray = stray
    MaxUnits = 0
    MaxPrepares = 3
    MaxAttempts = 2
    MergeFile = FALSE
    Commands <- Unattended
    AgentModes <- AnyAgent
    ReviewModes <- OnBranchOrMain
    Faults <- CrashOrConflict
    Truncations <- NoCuts
PROPERTIES
    LoopRoundSettles
    LoopEnds
    EveryTaskSettles
