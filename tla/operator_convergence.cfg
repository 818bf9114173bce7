SPECIFICATION Spec
CONSTANTS
    RoleGroups <- MCRoleGroups
    Versions <- MCVersions
    V1Versions <- MCV1Versions
    AuthClasses <- MCAuthClasses
    GitOptions <- MCGitOptions
    NoName = NoName
    NoAuth = NoAuth
    Specs <- EditSpecs
    InitClasses <- StaticOnly
    InitGrants <- MarkersOnly
    NewProviders <- NoNewProviders
    Disturbances = {"edit", "key", "api", "restart"}
    MaxDisturb = 2
INVARIANTS
    QuiescentConverged
    PodsHavePrerequisites
