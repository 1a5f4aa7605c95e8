CONSTANTS
    Period = 2
    Cooldown = 3
    ProfileDuration = 2
    TimeoutSlack = 1
    ServerSeconds = 2
    UnitsPerSecond = 2
    Horizon = 6
    MaxRestarts = 1
    MaxLeaks = 1
SPECIFICATION Spec
INVARIANTS
    TypeOK
    CpuScrapesSpaced
    ExcessServed
    UploadsAccounted
    TempDirsAccounted
    ObjectsFaithful
PROPERTIES
    ServiceSpec
CHECK_DEADLOCK FALSE
