SPECIFICATION FairSpec
CONSTANTS
    Operators = {o1}
    Keys = {k1, k2, k3}
    NoKey = NoKey
    AutoGenerate = TRUE
    CacheMayLag = TRUE
    UserMayCreate = FALSE
    MaxUpsets = 0
PROPERTIES
    ExistingSecretIsKept
