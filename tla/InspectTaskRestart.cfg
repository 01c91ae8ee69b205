SPECIFICATION FairSpec
CONSTANTS
    Clusters = {"default"}
    MultiCluster = FALSE
    MaxTouches = 0
    MaxCrashes = 1
    MaxErrors = 0
PROPERTIES TaskFinishes
CHECK_DEADLOCK FALSE
