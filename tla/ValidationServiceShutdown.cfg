CONSTANTS
    j1 = j1
    j2 = j2
    Job = {j1}
    Deferred = {}
    NumWorkers = 2
    MaxRetries = 1
    QueueType = "fifo"
    MaxSize = 1
    Priority <- MCPriority
    CreatedAt <- MCCreatedAt
SPECIFICATION Spec
CHECK_DEADLOCK FALSE
PROPERTY ShutdownCompletes
