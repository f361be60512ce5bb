SPECIFICATION Spec
CONSTANTS
    a1 = a1
    a2 = a2
    aInt = aInt
    b1 = b1
    fin = fin
    stray = stray
    NoBatch = NoBatch
    Main = main
    Scrap = scrap
    TaskOrder <- FileOrder
    Tasks <- FileTasks
    Kind <- FileKind
    Subtree <- FileSubtree
    File <- FileFile
    Units <- FileUnits
    Branches <- FileBranches
    Subtrees <- FileSubtrees
    Reviewable <- FileReviewable
    ReviewOf <- FileReviewOf
    BranchOf <- FileBranchOf
    Stray = stray
    MaxUnits = 0
    MaxPrepares = 2
    MaxAttempts = 1
    MergeFile = TRUE
    Commands <- Attended
    AgentModes <- OnBranchOrMain
    ReviewModes <- Committing
    Faults <- AllFaults
    Truncations <- NoCuts
INVARIANTS
    TypeOK
    CompletedIsOnMain
    ResumeIsPossible
PROPERTIES
    ImplementsLedger
    WorkIsKept
