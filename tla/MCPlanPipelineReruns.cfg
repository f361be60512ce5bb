SPECIFICATION FairSpec
CONSTANTS
    N = 2
    a = a
    b = b
    f = f
    g = g
    Features <- MCFeatures
    Files <- MCFiles
    Trees <- MCTwoTrees
    Skeletons <- MCTwoTreeSkeletons
    Answers <- MCAnswers
    Lost = {{}}
    Units = {u}
    Missing = Missing
    Broken = Broken
    Good = Good
    NoDesign = NoDesign
    MaxEdits = 1
    MaxFaults = 0
PROPERTY RerunsFinish
