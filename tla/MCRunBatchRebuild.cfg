SPECIFICATION Spec
CONSTANTS
    a1 = a1
    a2 = a2
    aInt = aInt
    b1 = b1
    fin = fin
    stray = stray
    NoBatch = NoBatch
    Main = main
    Scrap = scrap
    TaskOrder <- TrioOrder
    Tasks <- TrioTasks
    Kind <- TrioKind
    Subtree <- TrioSubtree
    File <- TrioFile
    Units <- TrioUnits
    Branches <- TrioBranches
    Subtrees <- TrioSubtrees
    Reviewable <- TrioReviewable
    ReviewOf <- TrioReviewOf
    BranchOf <- TrioBranchOf
    Stray = stray
    MaxUnits = 0
    MaxPrepares = 2
    MaxAttempts = 1
    MergeFile = FALSE
    Commands <- Unattended
    AgentModes <- OnBranchOrMain
    ReviewModes <- OnBranchOrMain
    Faults <- CrashOrConflict
    Truncations <- AllCuts
INVARIANTS
    CompletedIsOnMain
    RunsEndClean
    OneOutcome
    MergedIsNotFailed
PROPERTIES
    IntegrationSkipIsJustified
