SPECIFICATION FairSpec
CONSTANTS
    Clusters = {"c1", "c2"}
    MultiCluster = TRUE
    MaxTouches = 0
    MaxCrashes = 1
    MaxErrors = 1
INVARIANTS ReportBehindSuccess
PROPERTIES TaskFinishes
CHECK_DEADLOCK FALSE
