CONSTANTS
    Loaders <- MCLoaders
    l1 = l1
    l2 = l2
    l3 = l3
    NoLoader = NoLoader
    SaveKinds <- AnyKind
    MaxSaves = 4
    FastSaves = FALSE
SPECIFICATION Spec
CHECK_DEADLOCK FALSE
INVARIANTS
    TypeOK
    NoLostUpdate
    AppliesLastRead
PROPERTIES
    NeverBackwards
    QuietAfterCancel
    Converges
