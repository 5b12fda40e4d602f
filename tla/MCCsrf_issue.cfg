\* The code's ceiling, five issues, exact clocks, and nothing fails.
CONSTANTS
    Issuers = {i1, i2, i3, i4, i5}
    Revokers = {}
    NoRequest = NoRequest
    Ceiling = 4
    Lifetime = 1
    SessionEnd = 3
    Skew = 0
    MaxTime = 1
    Faulty = FALSE
SPECIFICATION Spec
INVARIANTS
    IssueSucceeds
SYMMETRY Symmetry
CHECK_DEADLOCK FALSE
