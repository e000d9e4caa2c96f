----------------------------- MODULE HybridClock -----------------------------
(***************************************************************************)
(* The hybrid logical clock of hlc/clock.rs with the timestamps of         *)
(* hlc/timestamp.rs.  Every transaction takes its read and write timestamp *)
(* from get_timestamp (InternalDB::now_hlc), and DB::set_time feeds the    *)
(* clock through receive_timestamp.  InternalDB guards the clock with a    *)
(* RwLock taken for writing around each call, so each call is one step.    *)
(*                                                                         *)
(* The wall clock is a parameter of the code (trait WallClock): Manual     *)
(* never moves, SystemTimeClock reads the system time, which may also be   *)
(* set back.  WallClockMoves therefore lets it take any value.             *)
(***************************************************************************)
EXTENDS Integers

CONSTANTS
    WallTimes,      \* the physical times the wall clock may show
    Incoming,       \* the timestamps that receive_timestamp may be given
    MaxLogical      \* bound: the largest logical_time (the code's is u32::MAX)

\* InternalDB::new panics on a start time of 0, which is reserved for intents.
ASSUME WallTimesAssumption == WallTimes \subseteq Nat \ {0}

Timestamp == [wall_time : Nat, logical_time : Nat]

ASSUME IncomingAssumption ==
    Incoming \subseteq {ts \in Timestamp : ts.wall_time # 0}

ASSUME MaxLogicalAssumption == MaxLogical \in Nat

VARIABLES
    wall,       \* what wall_clock.current_time() returns
    latest,     \* Clock::latest_timestamp
    received    \* history: the timestamps handed to receive_timestamp so far

vars == <<wall, latest, received>>
-----------------------------------------------------------------------------
TS(w, l) == [wall_time |-> w, logical_time |-> l]

\* The timestamp (0, 0) marks an intent and is greater than every other one.
IsIntentTimestamp(ts) == ts = TS(0, 0)

\* Timestamp::cmp returning Ordering::Less.
Less(a, b) ==
    /\ ~IsIntentTimestamp(a)
    /\ \/ IsIntentTimestamp(b)
       \/ a.wall_time < b.wall_time
       \/ a.wall_time = b.wall_time /\ a.logical_time < b.logical_time

Larger(m, n) == IF m > n THEN m ELSE n

\* Mutant: get_timestamp always trusts the wall clock.
LocalEventWallOnly(w, last) == TS(w, 0)

\* What get_timestamp sets latest_timestamp to and returns.
LocalEvent(w, last) ==
    IF last.wall_time >= w
    THEN TS(last.wall_time, last.logical_time + 1)
    ELSE TS(w, 0)

\* Mutant: a received timestamp replaces the clock's own time.
ReceiveEventForgetsLatest(w, last, in) ==
    IF in.wall_time >= w
    THEN TS(in.wall_time, in.logical_time + 1)
    ELSE TS(w, 0)

\* What receive_timestamp sets latest_timestamp to.  When the latest wall time
\* ties with the incoming one, and the wall clock is behind both, only the
\* logical time of the latest timestamp counts.
ReceiveEvent(w, last, in) ==
    LET max == Larger(w, Larger(in.wall_time, last.wall_time))
    IN  CASE w = in.wall_time /\ in.wall_time = last.wall_time ->
               TS(max, Larger(in.logical_time, last.logical_time) + 1)
          [] last.wall_time = max /\ ~(w = max /\ in.wall_time = max) ->
               TS(max, last.logical_time + 1)
          [] in.wall_time = max /\ last.wall_time # max ->
               TS(max, in.logical_time + 1)
          [] OTHER -> TS(max, 0)
-----------------------------------------------------------------------------
\* Mutant: the clock starts at the default timestamp.
InitAtZero == wall \in WallTimes /\ latest = TS(0, 0) /\ received = {}

Init ==
    /\ wall \in WallTimes
    /\ latest = TS(wall, 0)
    /\ received = {}

WallClockMoves ==
    /\ wall' \in WallTimes
    /\ UNCHANGED <<latest, received>>

GetTimestamp ==
    /\ latest' = LocalEvent(wall, latest)
    /\ latest'.logical_time <= MaxLogical
    /\ UNCHANGED <<wall, received>>

ReceiveTimestamp(in) ==
    /\ latest' = ReceiveEvent(wall, latest, in)
    /\ latest'.logical_time <= MaxLogical
    /\ received' = received \cup {in}
    /\ UNCHANGED wall

Next ==
    \/ WallClockMoves
    \/ GetTimestamp
    \/ \E in \in Incoming : ReceiveTimestamp(in)

Spec == Init /\ [][Next]_vars
-----------------------------------------------------------------------------
\* Every variable has its type; the clock never shows the intent timestamp.
TypeOK ==
    /\ wall \in WallTimes
    /\ latest \in Timestamp
    /\ latest.wall_time # 0
    /\ received \subseteq Incoming

\* Each call of get_timestamp and receive_timestamp moves the clock strictly
\* forward in the order of Timestamp::cmp, whatever the wall clock does in
\* between, so no two transactions begin at the same timestamp and none begins
\* before one that was started earlier.
StrictlyIncreasing ==
    [][latest' # latest \/ received' # received => Less(latest, latest')]_vars

\* Once a timestamp was received (DB::set_time), everything the clock issues is
\* later than it: the clock has passed every timestamp it was ever given.
ReceivedIsPassed == \A ts \in received : Less(ts, latest)
=============================================================================
