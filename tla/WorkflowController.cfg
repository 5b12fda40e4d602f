CONSTANTS
    Workflows = {w1, w2}
    NoWorkflow = NoWorkflow
    Reasons = {"offline"}
    MaxAttempts = 2
    MaxLoads = 1
    MaxCalls = 2
    CancelsOutlived = FALSE
SPECIFICATION FairSpec
INVARIANT NoResurrection
INVARIANT ShownIsSaved
INVARIANT ShownIsTrue
INVARIANT PollsBounded
PROPERTY ReconcileHappens
PROPERTY BusyEnds
