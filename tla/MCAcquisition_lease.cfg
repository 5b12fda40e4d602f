\* One tick is 15 seconds: the lease of 90 s, the heartbeat of 30 s, and timers
\* and responses that are at most one tick late.  Four generations of the record:
\* the claim, two renewals and the terminal write.
CONSTANTS
    Calls = {c1, c2}
    Fingerprints = {f1}
    LeaseTicks = 6
    HeartbeatTicks = 2
    ClockSkew = 0
    MaxDelay = 1
    MaxGeneration = 4
    MaxLimbo = 2
SPECIFICATION FairSpec
INVARIANT LiveOwnerKeepsClaim
PROPERTY EveryCallEnds
