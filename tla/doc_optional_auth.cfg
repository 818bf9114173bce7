SPECIFICATION FairSpec
CONSTANTS
    RoleGroups <- OneRoleGroup
    Versions <- MCVersions
    V1Versions <- MCV1Versions
    AuthClasses <- MCAuthClasses
    GitOptions <- MCGitOptions
    NoName = NoName
    NoAuth = NoAuth
    Specs <- NoAuthSpecs
    InitClasses <- StaticOnly
    InitGrants <- MarkersOnly
    NewProviders <- NoNewProviders
    Disturbances = {}
    MaxDisturb = 0
PROPERTIES
    AuthenticationIsOptional
