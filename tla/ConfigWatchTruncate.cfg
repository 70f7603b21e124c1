CONSTANTS
    Loaders <- MCLoaders
    l1 = l1
    l2 = l2
    l3 = l3
    NoLoader = NoLoader
    SaveKinds <- InPlace
    MaxSaves = 2
    FastSaves = TRUE
SPECIFICATION Spec
CHECK_DEADLOCK FALSE
INVARIANTS
    AppliesWholeFiles
