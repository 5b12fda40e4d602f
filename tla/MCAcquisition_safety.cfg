\* Two calls with any pair of fingerprints; delays longer than the lease, so
\* that a heartbeat may be arbitrarily late; readers' clocks may be ahead.
CONSTANTS
    Calls = {c1, c2}
    Fingerprints = {f1, f2}
    LeaseTicks = 2
    HeartbeatTicks = 1
    ClockSkew = 1
    MaxDelay = 3
    MaxGeneration = 3
    MaxLimbo = 2
SYMMETRY Symmetry
SPECIFICATION Spec
INVARIANTS
    AtMostOneOperation
    AnswersAreDurable
    RecordMatchesArtifact
    AbandonedIsNotSucceeded
PROPERTIES
    IdentityIsBound
    ImplementsOutcome
