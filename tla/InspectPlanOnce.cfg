SPECIFICATION Spec
CONSTANTS
    Absent = Absent
    Rules = {"r1", "r2"}
    Installed = {"r1", "r2"}
    RuleNames <- OneRule
    RuleEdits <- NoEdits
    Cron = FALSE
    Period = 1
    OnceAt = 1
    Suspended = FALSE
    MaxTasks = 0
    MaxMinute = 2
    MaxEdits = 0
    MaxCrashes = 0
    MaxErrors = 0
    MaxStale = 1
INVARIANTS SingleInspection
CHECK_DEADLOCK FALSE
