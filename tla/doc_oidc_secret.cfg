SPECIFICATION Spec
CONSTANTS
    RoleGroups <- OneRoleGroup
    Versions <- MCVersions
    V1Versions <- MCV1Versions
    AuthClasses <- MCAuthClasses
    GitOptions <- MCGitOptions
    NoName = NoName
    NoAuth = NoAuth
    Specs <- SingleOnly
    InitClasses <- OidcOnly
    InitGrants <- MarkersOnly
    NewProviders <- NoNewProviders
    Disturbances = {}
    MaxDisturb = 0
INVARIANTS
    MountedAdminSecretExists
