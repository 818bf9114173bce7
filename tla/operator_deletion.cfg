SPECIFICATION FairSpec
CONSTANTS
    RoleGroups <- OneRoleGroup
    Versions <- MCVersions
    V1Versions <- MCV1Versions
    AuthClasses <- MCAuthClasses
    GitOptions <- MCGitOptions
    NoName = NoName
    NoAuth = NoAuth
    Specs <- KeySpecs
    InitClasses <- LdapOnly
    InitGrants <- ChartOnly
    NewProviders <- NoNewProviders
    Disturbances = {"delete", "key", "drift", "admin", "grant"}
    MaxDisturb = 3
PROPERTIES
    OwnersMoveForward
    EventuallyConverged
    
    DeletedClusterIsCleaned
CHECK_DEADLOCK FALSE
