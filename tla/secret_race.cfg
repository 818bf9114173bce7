SPECIFICATION FairSpec
CONSTANTS
    Operators = {o1, o2}
    Keys = {k1, k2, k3}
    NoKey = NoKey
    AutoGenerate = TRUE
    CacheMayLag = TRUE
    UserMayCreate = TRUE
    MaxUpsets = 2
INVARIANTS
    TypeOK
    
PROPERTIES
    OnlyUnseenReplaced
    KeySettles
