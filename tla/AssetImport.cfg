\* Three requests with one key, for any of two sources.
CONSTANTS
    Requests = {r1, r2, r3}
    Sources = {s1, s2}
SPECIFICATION FairSpec
INVARIANTS
    AcquiredOnce
    RegisteredIsStored
    DecidedLeavesNoOrphan
    DecisiveAnswersAreDurable
PROPERTIES
    ImplementsOutcome
    EveryRequestEnds
CHECK_DEADLOCK FALSE
