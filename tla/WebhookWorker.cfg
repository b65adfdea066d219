SPECIFICATION Spec
CONSTANTS
    Job = {j1, j2}
    Worker = {w1}
    BufferSize = 1
    MaxRetries = 2
INVARIANTS CountersDriftTogether
PROPERTIES StopWaitsForLock JobsSettle
CHECK_DEADLOCK FALSE
