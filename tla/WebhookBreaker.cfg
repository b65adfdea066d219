SPECIFICATION FairSpec
CONSTANTS
    c1 = c1
    c2 = c2
    a1 = a1
    a2 = a2
    d1 = d1
    n1 = n1
    n2 = n2
    alice = alice
    bob = bob
    Config = {c1}
    Domain = {d1}
    User = {alice, bob}
    Owner <- MCOwner
    Name = {n1}
    Actor = {a1, a2}
    Threshold = 2
    IdentityKind = "uuid"
PROPERTY BreakerRecovers
CHECK_DEADLOCK FALSE
