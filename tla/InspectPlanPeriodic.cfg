SPECIFICATION FairSpec
CONSTANTS
    Absent = Absent
    Rules = {"r1", "r2"}
    Installed = {"r1", "r2"}
    RuleNames <- NoRules
    RuleEdits <- NoEdits
    Cron = TRUE
    Period = 1
    OnceAt = 1
    Suspended = FALSE
    MaxTasks = 1
    MaxMinute = 2
    MaxEdits = 0
    MaxCrashes = 0
    MaxErrors = 0
    MaxStale = 1
INVARIANTS RecordsFollowTasks
PROPERTIES PeriodicRuns NewestAreKept
CHECK_DEADLOCK FALSE
