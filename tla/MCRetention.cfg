SPECIFICATION Spec
CONSTANTS
    Day = 2
    WeekDays = 2
    MonthDays = 3
    MonthOf <- MCMonthOf
    Policies <- MCPolicies
    MaxTime = 5
    MaxBackups = 4
    MaxImports = 2
    None = None
INVARIANTS
    NewestSurvives
    TiersCovered
    CapTight
