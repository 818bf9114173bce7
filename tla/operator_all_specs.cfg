SPECIFICATION Spec
CONSTANTS
    RoleGroups <- MCRoleGroups
    Versions <- MCVersions
    V1Versions <- MCV1Versions
    AuthClasses <- MCAuthClasses
    GitOptions <- MCGitOptions
    NoName = NoName
    NoAuth = NoAuth
    Specs <- AllSpecs
    InitClasses <- AllClasses
    InitGrants <- MarkersOnly
    NewProviders <- NoNewProviders
    Disturbances = {}
    MaxDisturb = 0
INVARIANTS
    PodsCanStart
    ReportingTaskReachesNifi
