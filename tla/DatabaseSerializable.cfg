\* Two transactions that each read what the other one writes.
SPECIFICATION Spec
CONSTANTS
    t1 = t1
    t2 = t2
    t3 = t3
    Txns = {t1, t2}
    Keys <- MCKeys
    None = None
    Programs <- PairPrograms
    Beginnings <- PairBeginnings
    MaxReads = 2
INVARIANTS
    Serializable
CHECK_DEADLOCK FALSE
