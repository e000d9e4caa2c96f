\* Two transactions, every pair of programs; and three that contend for a key.
SPECIFICATION Spec
CONSTANTS
    t1 = t1
    t2 = t2
    t3 = t3
    k1 = k1
    k2 = k2
    None = None
    Txns = {t1, t2, t3}
    Keys = {k1, k2}
    read_timestamp <- MCTimestamps
    MaxGuards = 2
    MaxReapers = 2
    Workloads <- MCWorkloads
INVARIANTS
    TypeOK
    HolderIsSpanned
    CommitReleases
    QueuedOnce
    WritersAreWoken
    WriterWakeupFits
    ReleaseFits
    PushesAreKept
PROPERTIES
    FinalStatusIsFinal
    LocksHeldUntilFinalized
\* The clients come to the end of their programs, or panic.
CHECK_DEADLOCK FALSE
