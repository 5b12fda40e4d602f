\* Two workers, which may each claim, lose, restart and claim again; two drafts.
\* A system whose request is closed may stop.
CONSTANTS
    Workers = {w1, w2}
    Ids = {e1, e2}
    None = None
    MaxRevision = 4
SYMMETRY Symmetry
SPECIFICATION Spec
INVARIANTS
    ResolutionMatchesRequest
    CommittedIsFinal
    ConflictsAreFinal
PROPERTIES
    DecidedOnCurrent
    ImplementsOutcome
CHECK_DEADLOCK FALSE
