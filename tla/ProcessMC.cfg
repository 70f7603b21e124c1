CONSTANTS
    Configs <- MCConfigs
    Loaders <- MCLoaders
    l1 = l1
    l2 = l2
    NoLoader = NoLoader
    MaxReloads = 2
    Keys <- MCKeys
    Defaults <- MCDefaults
    Placeholders = {"${ES}"}
    BadTimeouts = {"soon"}
    BadURLs = {"::"}
    BadFiles = {"gone.pem"}
    BadNetworks = {"everyone"}
    PlainURLs = {"http:"}
    Files <- MCFiles
    Hows <- MCHows
SPECIFICATION Spec
INVARIANTS
    TypeOK
    OldIsCurrent
    AuthLedger
    CurrentAuthOpen
    LastGoodInForce
PROPERTIES
    OpensWhenTold
    RetiredAuthCloses
