SPECIFICATION Spec
CONSTANTS
    N = 2
    a = a
    b = b
    f = f
    g = g
    Features <- MCFeatures
    Files <- MCFiles
    Trees <- MCTrees
    Skeletons <- MCSkeletons
    Answers <- MCAnswers
    Lost = {{}, {1}}
    Units = {u, v}
    Missing = Missing
    Broken = Broken
    Good = Good
    NoDesign = NoDesign
    MaxEdits = 1
    MaxFaults = 1
INVARIANTS TypeOK FinishedPlanAgrees DriftHasACause
SYMMETRY MCSymmetry
