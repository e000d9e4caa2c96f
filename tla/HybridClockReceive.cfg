\* Any timestamp may be received.
SPECIFICATION Spec
CONSTANTS
    WallTimes <- MCWallTimes
    Incoming <- MCMessages
    MaxLogical = 4
INVARIANTS
    ReceivedIsPassed
