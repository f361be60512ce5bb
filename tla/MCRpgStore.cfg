SPECIFICATION FairSpec
CONSTANTS
    p1 = p1
    p2 = p2
    short = short
    long = long
    Procs = {p1, p2}
    Readers = {p1}
    Graphs = {short, long}
    Blocks <- MCBlocks
    Splits <- MCSplits
    Inodes = {1, 2, 3}
    Hole = hole
    MaxSaves = 2
    MaxFaults = 2
    MaxSnapshots = 2
INVARIANTS TypeOK PartialOnlyAfterOverlap
PROPERTIES ImplementsRpgFile 
CHECK_DEADLOCK FALSE
