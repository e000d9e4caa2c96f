\* What the storage, the oracle and commits and aborts guarantee.
SPECIFICATION Spec
CONSTANTS
    t1 = t1
    t2 = t2
    t3 = t3
    Txns = {t1, t2, t3}
    Keys <- MCKeys
    None = None
    Programs <- MCPrograms
    Beginnings <- MCBeginnings
    MaxReads = 2
SYMMETRY MCSymmetry
INVARIANTS
    TypeOK
    GetIsLatest
    NoDirtyReads
    OracleCoversReads
    OracleIsRedBlack
    LocksMatchIntents
PROPERTIES
    AllOrNothing
    KeepsPromises
\* The programs end, or stop at latches that a panic has left.
CHECK_DEADLOCK FALSE
