CONSTANTS
    Nodes = {"n1", "n2"}
    Capacity <- MCCapacity
    Usages <- MCUsages
    Limits <- MCLimits
    Thresholds <- MCThresholds
    RuleSets <- ShippedOnly
    NoNode = "none"
    MaxChanges = 1
SPECIFICATION FairSpec
PROPERTY
    CapacityFallback
