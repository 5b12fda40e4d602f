\* Expected to fail, with one request: a COMMIT that took effect without being
\* acknowledged is followed by the compensation.
CONSTANTS
    Requests = {r1}
SPECIFICATION Spec
INVARIANT AdmittedKeepsObject
CHECK_DEADLOCK FALSE
