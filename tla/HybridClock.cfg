\* The clock as the database drives it: set_time and now_hlc.
SPECIFICATION Spec
CONSTANTS
    WallTimes <- MCWallTimes
    Incoming <- MCSetTimes
    MaxLogical = 4
INVARIANTS
    TypeOK
    ReceivedIsPassed
PROPERTIES
    StrictlyIncreasing
