\* Two finalize requests admit an upload; two requests of any routes use it.
CONSTANTS
    Requests = {r1, r2}
    Users = {u1, u2}
SPECIFICATION JobFairSpec
INVARIANTS
    AcceptedIsAdmitted
    ServedExportIsKept
    ServedIsRequested
    NothingIsLeft
PROPERTY EveryFinalizeEnds
CHECK_DEADLOCK FALSE
