\* Two runs of any callers compete for one connection.
CONSTANTS
    Runs = {r1, r2}
    Statements = 2
    MaxConnections = 1
SPECIFICATION FairSpec
INVARIANTS
    NoDirtyReuse
    ConnectionsComeBack
    AtomicCompletion
    ClosingIsFinal
PROPERTIES
    ImplementsOutcome
    ShutdownEnds
