SPECIFICATION FairPatientSpec
CONSTANTS
    RoleGroups <- OneRoleGroup
    Versions <- MCVersions
    V1Versions <- MCV1Versions
    AuthClasses <- MCAuthClasses
    GitOptions <- MCGitOptions
    NoName = NoName
    NoAuth = NoAuth
    Repositories <- MCRepositories
    CredentialItems <- MCCredentialItems
    Specs <- PodSpecs
    InitClasses <- StaticOnly
    InitGrants <- MarkersOnly
    NewProviders <- NoNewProviders
    Disturbances = {"edit", "evict", "crash", "push"}
    MaxDisturb = 2
INVARIANTS
    ContentBeforeNifi
    SettledPodsAreConfigured
PROPERTIES
    ContentMovesForward
    RunningConfigIsCurrent
    ContentFollowsRepository
