SPECIFICATION PoolSpec
CONSTANTS
    r1 = r1
    r2 = r2
    r3 = r3
    Request <- MCRequest
    Limit = 2
    MaxPoolFaults = 2
INVARIANTS
    PoolTypeOK
    PoolIsAccounted
    SomebodyWillRelease
    SuccessMeansSaved
PROPERTIES
    Answered
\* When rejected statements have taken all connections and no fault is left,
\* every handler waits forever.
CHECK_DEADLOCK FALSE
