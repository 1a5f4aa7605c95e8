SPECIFICATION FairSystem
CONSTANTS
    Operators = {"o1"}
    Requests = {"r1"}
    Profilers <- MCProfilers
    Specs <- MCSpecs
    MaxChanges = 1
    MaxCrashes = 1
    ProfilerSpecs <- MCProfilerSpecs
    Pods <- MCPods
    ConfigOf <- MCConfigOf
    AnnotationsOf <- MCAnnotationsOf
    Followed = "r1"
    Secrets = {"s1"}
    KeySets <- MCKeySets
    AppPort = 8080
    MaxWrites = 1
    MaxKills = 1
INVARIANT
    ProfiledAsNamed
PROPERTIES
    ProfiledInTheEnd
CHECK_DEADLOCK FALSE
