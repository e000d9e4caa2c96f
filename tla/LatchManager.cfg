\* Safety, refinement and progress of the latch manager on its B+tree, with one
\* worker thread.
SPECIFICATION TreeSpec
CONSTANTS
    Clients = {c1, c2, c3}
    Keys <- MCKeys
    SpanSets <- MCSpanSets
    Order = 3
    NodeIds <- MCNodeIds
INVARIANTS
    TypeOK
    TreeIsOwned
    OwnersExclusive
    Searchable
PROPERTIES
    ImplementsLatchManager
    ImplementsLatches
    EventuallyGranted
\* The requests end, or stop at the poisoned tree.
CHECK_DEADLOCK FALSE
