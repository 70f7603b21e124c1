CONSTANTS
    Configs <- MCConfigs
    Loaders <- MCLoaders
    NoLoader = NoLoader
    MaxReloads = 2
    Requests <- OneRequest
    Inputs <- MCInputs
    Explanations <- MCExplanations
    DefaultPlan = defaultPlan
    NoPlan = NoPlan
    EmptyPlan = emptyPlan
    DefaultLimit = 4
    DefaultWindow = 30
    DefaultField = at
    r1 = r1
    r2 = r2
    l1 = l1
    k1 = k1
    k2 = k2
    free = free
    pro = pro
    at = at
    made = made
SPECIFICATION SafeSpec
INVARIANTS
    TypeOK
    AdmissionSound
    NoStaleSnapshot
    RevokedStaysOut
    ConfinedUnlessPolicyChanges
PROPERTY
    AnswersJustified
