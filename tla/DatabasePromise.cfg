\* A read meets an intent above its timestamp.
SPECIFICATION Spec
CONSTANTS
    t1 = t1
    t2 = t2
    t3 = t3
    Txns = {t1, t2, t3}
    Keys <- MCKeys
    None = None
    Programs <- ReaderPrograms
    Beginnings <- ReaderBeginnings
    MaxReads = 2
PROPERTIES
    ImplementsTransactions
CHECK_DEADLOCK FALSE
