\* Two worker threads, and more keys than one node holds.
SPECIFICATION RacingSpec
CONSTANTS
    Clients = {c1, c2, c3}
    Keys <- RaceKeys
    SpanSets <- RaceSpanSets
    Order = 3
    NodeIds <- MCNodeIds
INVARIANTS
    OwnersExclusive
CHECK_DEADLOCK FALSE
