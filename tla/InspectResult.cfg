SPECIFICATION FairSpec
CONSTANTS
    Gone = Gone
    Broken = Broken
    MaxIssues = 1
    MaxReruns = 1
    MaxTouches = 2
    MaxCrashes = 1
    MaxErrors = 1
INVARIANTS TypeOK MessageAgrees
PROPERTIES StatusIsFinal ResultCompletes
CHECK_DEADLOCK FALSE
