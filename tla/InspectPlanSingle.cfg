SPECIFICATION FairSpec
CONSTANTS
    Absent = Absent
    Rules = {"r1", "r2"}
    Installed = {"r1", "r2"}
    RuleNames <- OneRule
    RuleEdits <- RemoveRules
    Cron = FALSE
    Period = 1
    OnceAt = 2
    Suspended = FALSE
    MaxTasks = 0
    MaxMinute = 2
    MaxEdits = 1
    MaxCrashes = 1
    MaxErrors = 1
    MaxStale = 0
INVARIANTS TypeOK LabelledIsCounted
PROPERTIES SingleRuns DeletedPlanGoes
CHECK_DEADLOCK FALSE
