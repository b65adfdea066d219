CONSTANTS
    j1 = j1
    j2 = j2
    Job = {j1, j2}
    NumWorkers = 2
    MaxAttempts = 2
    MaxSize = 1
    Priority <- MCPriority
SPECIFICATION Spec
CHECK_DEADLOCK FALSE
INVARIANTS
    OnePlace
    StatsBalance
PROPERTIES
    JobsFinish
    StopHangsOnlyOn
