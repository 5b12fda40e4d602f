\* Four issues and a revocation at a ceiling of two: a token gives way, and an
\* issue that began early counts tokens that expired since.
CONSTANTS
    Issuers = {i1, i2, i3, i4}
    Revokers = {v}
    NoRequest = NoRequest
    Ceiling = 2
    Lifetime = 2
    SessionEnd = 2
    Skew = 1
    MaxTime = 1
    Faulty = TRUE
SPECIFICATION Spec
INVARIANTS
    CeilingHolds
    RevocationIsComplete
PROPERTIES
    OnlyOldestGivesWay
    ImplementsBook
SYMMETRY Symmetry
CHECK_DEADLOCK FALSE
