\* The victim of a deadlock commits.
SPECIFICATION Spec
CONSTANTS
    t1 = t1
    t2 = t2
    t3 = t3
    k1 = k1
    k2 = k2
    None = None
    Txns = {t1, t2}
    Keys = {k1, k2}
    read_timestamp <- MCPairTimestamps
    MaxGuards = 3
    MaxReapers = 2
    Workloads <- MCDeadlock
INVARIANTS
    ReleasedIsUnreserved
\* The clients come to the end of their programs, or panic.
CHECK_DEADLOCK FALSE
