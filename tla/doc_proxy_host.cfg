SPECIFICATION FairPatientSpec
CONSTANTS
    RoleGroups <- OneRoleGroup
    Versions <- MCVersions
    V1Versions <- MCV1Versions
    AuthClasses <- MCAuthClasses
    GitOptions <- MCGitOptions
    NoName = NoName
    NoAuth = NoAuth
    Repositories <- MCRepositories
    CredentialItems <- MCCredentialItems
    Specs <- TaskSpecs
    InitClasses <- StaticOnly
    InitGrants <- MarkersOnly
    NewProviders <- NoNewProviders
    Disturbances = {"edit"}
    MaxDisturb = 1
PROPERTIES
    RunningNifiAllowsReportingHost
