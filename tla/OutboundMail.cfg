CONSTANTS
    Email = {e1}
    Sender = {s1, s2}
    MaxRetries = 17
SPECIFICATION Spec
INVARIANTS
    TypeOK
    SentWasAccepted
    NoDuplicates
    SettledRowIsTrue
PROPERTIES
    RetryWaits
