SPECIFICATION FairSpec
CONSTANTS
    Clusters = {"default"}
    MultiCluster = FALSE
    MaxTouches = 1
    MaxCrashes = 1
    MaxErrors = 1
PROPERTIES KeepsPromise DeletionCleansUp PlanLearnsVerdict
CHECK_DEADLOCK FALSE
