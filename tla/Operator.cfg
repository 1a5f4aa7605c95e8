CONSTANTS
    Operators = {"o1", "o2"}
    Requests = {"r1"}
    Profilers <- MCProfilers
    Specs <- MCSpecs
    MaxChanges = 1
    MaxCrashes = 1
    NoOne = "none"
SPECIFICATION FairOperator
INVARIANTS
    ProcessesOK
    OneController
    NoLostProfiler
PROPERTIES
    ReconciledForever
    DeletedForgotten
    EveryReplicaServes
    HandlerReplies
CHECK_DEADLOCK FALSE
