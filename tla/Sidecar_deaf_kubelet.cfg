CONSTANTS
    Period = 2
    Cooldown = 3
    ProfileDuration = 2
    TimeoutSlack = 1
    ServerSeconds = 2
    UnitsPerSecond = 2
    Horizon = 4
    MaxRestarts = 0
    MaxLeaks = 1
SPECIFICATION SpecDeafKubelet
PROPERTIES
    ShutdownExits
CHECK_DEADLOCK FALSE
