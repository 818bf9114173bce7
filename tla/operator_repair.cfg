SPECIFICATION FairHistorySpec
CONSTANTS
    RoleGroups <- OneRoleGroup
    Versions <- MCVersions
    V1Versions <- MCV1Versions
    AuthClasses <- MCAuthClasses
    GitOptions <- MCGitOptions
    NoName = NoName
    NoAuth = NoAuth
    Specs <- SingleV1Only
    InitClasses <- StaticOnly
    InitGrants <- ChartOnly
    NewProviders <- OtherProviders
    Disturbances = {"class", "drift", "admin", "grant", "restart"}
    MaxDisturb = 3
INVARIANTS
    TypeOK
    UndisturbedCallsRepair
PROPERTIES
    
    ReconcilableCallsGoOn
    EventuallyConverged
    StatefulSetsSettle
