CONSTANTS
    Nodes = {"n1", "n2"}
    Capacity <- MCCapacity
    Usages <- MCUsages
    Limits <- MCLimits
    Thresholds <- MCThresholds
    RuleSets <- MCRuleSets
    NoNode = "none"
    MaxChanges = 1
SPECIFICATION FairSpec
INVARIANTS
    TypeOK
    VerdictTrue
    IdleNeverOver
PROPERTY
    AnswersInTheEnd
