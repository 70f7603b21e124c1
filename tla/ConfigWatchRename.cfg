CONSTANTS
    Loaders <- MCLoaders
    l1 = l1
    l2 = l2
    l3 = l3
    NoLoader = NoLoader
    SaveKinds <- AnyKind
    MaxSaves = 2
    FastSaves = FALSE
SPECIFICATION Spec
CHECK_DEADLOCK FALSE
PROPERTIES
    FollowsRenames
