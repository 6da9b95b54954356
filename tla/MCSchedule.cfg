SPECIFICATION FairSpec
CONSTANTS
    None = None
    Instances = {"fw", "gw"}
    Crons = {"daily", "alias"}
    OddCrons = {"alias"}
    Zones = {"UTC", "CET"}
    Edits <- MCEdits
    AtBoot <- MCAtBoot
    Threads = {"t1", "t2"}
    Threshold = 0
    Renotify = 2
    Budgets <- MCBudgets
INVARIANTS
    ScheduleMatches
PROPERTIES
    AlertsSpaced
    NeverQuiet
CHECK_DEADLOCK FALSE
