SPECIFICATION Spec
CONSTANTS
    s1 = s1
    s2 = s2
    fresh = fresh
    Snapshots <- MCSnapshots
    Fresh = fresh
    Truncations <- AllCuts
    KeepLast = 3
    MaxSaves = 5
    MaxCrashes = 2
SYMMETRY MCSymmetry
CHECK_DEADLOCK FALSE
INVARIANTS TypeOK SecondSaveIsDurable
PROPERTY ImplementsStore
