CONSTANTS
    j1 = j1
    j2 = j2
    j3 = j3
    Job = {j1, j2, j3}
    Consumer = {c1, c2}
    QueueType = "priority"
    MaxSize = 2
    Priority <- MCPriority
    CreatedAt <- MCCreatedAt
SPECIFICATION Spec
INVARIANTS
    TypeOK
    NoLostWakeup
    ExactlyOnce
PROPERTIES
    CloseReleases
    ImplementsWorkPool
