\* Expected to fail: a failing workspace cleanup leaks the only connection.
CONSTANTS
    Requests = {r1}
    Sources = {s1}
SPECIFICATION FairSpec
PROPERTY CallbackScopedCleanup
CHECK_DEADLOCK FALSE
