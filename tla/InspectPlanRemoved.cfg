SPECIFICATION FairSpec
CONSTANTS
    Absent = Absent
    Rules = {"r1", "r2"}
    Installed = {"r1", "r2"}
    RuleNames <- TwoRules
    RuleEdits <- RemoveRule
    Cron = TRUE
    Period = 1
    OnceAt = 1
    Suspended = FALSE
    MaxTasks = 0
    MaxMinute = 2
    MaxEdits = 1
    MaxCrashes = 0
    MaxErrors = 0
    MaxStale = 1
PROPERTIES PeriodicRuns
CHECK_DEADLOCK FALSE
