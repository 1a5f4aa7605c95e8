SPECIFICATION FairLife
CONSTANTS
    ProfilerSpecs <- MCProfilers
    Pods <- MCPods
    Secrets = {"s1", "s2"}
    KeySets <- MCKeySets
    AppPort = 8080
    MaxWrites = 1
    MaxKills = 1
INVARIANTS
    LifeTypeOK
    CredentialsPaired
    AdmittedConfig
    AnnotationsWin
    ExitsExplained
    PortContention
PROPERTY
    MonitorsInTheEnd
CHECK_DEADLOCK FALSE
