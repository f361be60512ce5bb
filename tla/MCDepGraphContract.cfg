SPECIFICATION Spec
CONSTANTS
    N = 4
    n = n
    definer = definer
    importer = importer
    user = user
    Names = {n}
    Texts = {definer, importer, user}
    Defs <- MCDefs
    Refs <- MCRefs
    NoFile = NoFile
    Start <- MCStart
    MaxEdits = 2
INVARIANT UpdateEqualsRebuild
