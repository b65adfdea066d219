CONSTANTS
    Domain = {d1}
    Worker = {v1}
    Caller = {}
    Spelling <- MCSpelling
    ToLower <- MCToLower
    TrimDot <- MCTrimDot
    ExpectedMXServers <- MCServers
    TXTRecord <- MCRecord
    MaxRetries = 3
    MaxQueued = 1
SPECIFICATION Spec
PROPERTY RetryLimit
