CONSTANTS
    Period = 2
    Cooldown = 1
    ProfileDuration = 1
    TimeoutSlack = 1
    ServerSeconds = 1
    UnitsPerSecond = 2
    Horizon = 5
    MaxRestarts = 0
    MaxLeaks = 0
SPECIFICATION FairSpec
PROPERTIES
    ShutdownExits
    ScrapeEnds
    HeapServed
CHECK_DEADLOCK FALSE
