SPECIFICATION Spec
CONSTANTS
    UserID = {u1, u2}
    DomainID = {d1, d2}
    Email <- MCEmail
    Lower <- MCLower
    Name = {n1}
    Request = {r1, r2}
    MintedElsewhere <- MCMintedElsewhere
    None = None
INVARIANTS
    TypeOK
    StrandedNeedsFault
    TokenNamesItsAccount
    DeletedAccountIsSilent
SYMMETRY MCSymmetry
CHECK_DEADLOCK FALSE
