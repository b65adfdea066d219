SPECIFICATION Spec
CONSTANTS
    c1 = c1
    c2 = c2
    a1 = a1
    a2 = a2
    d1 = d1
    n1 = n1
    n2 = n2
    alice = alice
    bob = bob
    Config = {c1, c2}
    Domain = {d1}
    User = {alice, bob}
    Owner <- MCOwner
    Name = {n1, n2}
    Actor = {a1, a2}
    Threshold = 1
    IdentityKind = "uuid"
SYMMETRY Symmetry
INVARIANTS TypeOK NamesUnique AuditTellsEnabled
CHECK_DEADLOCK FALSE
