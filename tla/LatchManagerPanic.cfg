\* Requests that meet a latched key.
SPECIFICATION TreeSpec
CONSTANTS
    Clients = {c1, c2, c3}
    Keys <- MCKeys
    SpanSets <- MCSpanSets
    Order = 3
    NodeIds <- MCNodeIds
INVARIANTS
    ContendersWait
CHECK_DEADLOCK FALSE
