CONSTANTS
    Domain = {d1}
    Worker = {v1, v2}
    Caller = {v2}
    Spelling <- MCSpelling
    ToLower <- MCToLower
    TrimDot <- MCTrimDot
    ExpectedMXServers <- MCServers
    TXTRecord <- MCRecord
    MaxRetries = 2
    MaxQueued = 1
SPECIFICATION Spec
INVARIANTS
    TypeOK
    VerifiedHasEvidence
    ValidatingIsBeingDecided
PROPERTIES
    PendingIsDecided
