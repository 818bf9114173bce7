SPECIFICATION FairSpec
CONSTANTS
    RoleGroups <- OneRoleGroup
    Versions <- MCVersions
    V1Versions <- MCV1Versions
    AuthClasses <- MCAuthClasses
    GitOptions <- MCGitOptions
    NoName = NoName
    NoAuth = NoAuth
    Specs <- SingleOnly
    InitClasses <- StaticOnly
    InitGrants <- ChartOnly
    NewProviders <- NoNewProviders
    Disturbances = {}
    MaxDisturb = 0
PROPERTIES
    ChartGrantsSuffice
