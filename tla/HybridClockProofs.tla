-------------------------- MODULE HybridClockProofs --------------------------
(***************************************************************************)
(* What HybridClock guarantees for every set of wall times, every set of   *)
(* incoming timestamps and every bound on the logical time.                *)
(***************************************************************************)
EXTENDS HybridClock, TLAPS

\* get_timestamp: the result is a timestamp later than the latest one.
LEMMA LocalEventAdvances ==
    ASSUME NEW w \in Nat \ {0}, NEW last \in Timestamp, last.wall_time # 0
    PROVE  /\ LocalEvent(w, last) \in Timestamp
           /\ LocalEvent(w, last).wall_time # 0
           /\ Less(last, LocalEvent(w, last))
BY DEF LocalEvent, TS, Timestamp, Less, IsIntentTimestamp

\* receive_timestamp: the result is a timestamp later than the latest one,
\* and later than an incoming timestamp whose logical time is 0.
LEMMA ReceiveEventAdvances ==
    ASSUME NEW w \in Nat \ {0}, NEW last \in Timestamp, last.wall_time # 0,
           NEW in \in Timestamp, in.wall_time # 0
    PROVE  /\ ReceiveEvent(w, last, in) \in Timestamp
           /\ ReceiveEvent(w, last, in).wall_time # 0
           /\ Less(last, ReceiveEvent(w, last, in))
           /\ in.logical_time = 0 => Less(in, ReceiveEvent(w, last, in))
<1> DEFINE max == Larger(w, Larger(in.wall_time, last.wall_time))
<1>0. /\ max \in Nat \ {0}
      /\ max >= w /\ max >= in.wall_time /\ max >= last.wall_time
      /\ max \in {w, in.wall_time, last.wall_time}
  BY DEF Larger, Timestamp
<1>1. CASE w = in.wall_time /\ in.wall_time = last.wall_time
  <2>1. ReceiveEvent(w, last, in)
          = TS(max, Larger(in.logical_time, last.logical_time) + 1)
    BY <1>0, <1>1, Zenon DEF ReceiveEvent
  <2> QED
    BY <2>1, <1>0, <1>1 DEF TS, Timestamp, Less, IsIntentTimestamp, Larger
<1>2. CASE last.wall_time = max /\ ~(w = max /\ in.wall_time = max)
  <2>1. ReceiveEvent(w, last, in) = TS(max, last.logical_time + 1)
    BY <1>0, <1>2 DEF ReceiveEvent
  <2> QED
    BY <2>1, <1>0, <1>2 DEF TS, Timestamp, Less, IsIntentTimestamp
<1>3. CASE in.wall_time = max /\ last.wall_time # max
  <2>1. ReceiveEvent(w, last, in) = TS(max, in.logical_time + 1)
    BY <1>0, <1>3 DEF ReceiveEvent
  <2> QED
    BY <2>1, <1>0, <1>3 DEF TS, Timestamp, Less, IsIntentTimestamp
<1>4. CASE in.wall_time # max /\ last.wall_time # max
  <2>1. ReceiveEvent(w, last, in) = TS(max, 0)
    BY <1>0, <1>4 DEF ReceiveEvent
  <2> QED
    BY <2>1, <1>0, <1>4 DEF TS, Timestamp, Less, IsIntentTimestamp
<1> QED
  BY <1>0, <1>1, <1>2, <1>3, <1>4

\* The order of Timestamp::cmp is transitive on timestamps of transactions.
LEMMA LessTransitive ==
    ASSUME NEW a \in Timestamp, NEW b \in Timestamp, NEW c \in Timestamp,
           b.wall_time # 0, c.wall_time # 0, Less(a, b), Less(b, c)
    PROVE  Less(a, c)
BY DEF Less, IsIntentTimestamp, TS, Timestamp

\* Type correctness of the clock.
THEOREM ClockTypeCorrect == Spec => []TypeOK
<1>1. Init => TypeOK
  BY WallTimesAssumption DEF Init, TypeOK, TS, Timestamp
<1>2. TypeOK /\ [Next]_vars => TypeOK'
  <2> SUFFICES ASSUME TypeOK, [Next]_vars PROVE TypeOK'
    OBVIOUS
  <2>0. wall \in Nat \ {0}
    BY WallTimesAssumption DEF TypeOK
  <2>1. CASE WallClockMoves
    BY <2>1 DEF WallClockMoves, TypeOK
  <2>2. CASE GetTimestamp
    BY <2>0, <2>2, LocalEventAdvances DEF GetTimestamp, TypeOK
  <2>3. ASSUME NEW in \in Incoming, ReceiveTimestamp(in) PROVE TypeOK'
    BY <2>0, <2>3, ReceiveEventAdvances, IncomingAssumption
    DEF ReceiveTimestamp, TypeOK
  <2>4. CASE UNCHANGED vars
    BY <2>4 DEF vars, TypeOK
  <2> QED
    BY <2>1, <2>2, <2>3, <2>4 DEF Next
<1> QED
  BY <1>1, <1>2, PTL DEF Spec

\* get_timestamp and receive_timestamp move the clock strictly forward, so the
\* timestamps at which transactions begin are pairwise different.
THEOREM ClockStrictlyIncreasing == Spec => StrictlyIncreasing
<1>1. TypeOK /\ [Next]_vars
        => [latest' # latest \/ received' # received => Less(latest, latest')]_vars
  <2> SUFFICES ASSUME TypeOK, Next,
                      latest' # latest \/ received' # received
               PROVE  Less(latest, latest')
    BY DEF vars
  <2>0. wall \in Nat \ {0}
    BY WallTimesAssumption DEF TypeOK
  <2>1. CASE WallClockMoves
    BY <2>1 DEF WallClockMoves
  <2>2. CASE GetTimestamp
    BY <2>0, <2>2, LocalEventAdvances DEF GetTimestamp, TypeOK
  <2>3. ASSUME NEW in \in Incoming, ReceiveTimestamp(in)
        PROVE  Less(latest, latest')
    BY <2>0, <2>3, ReceiveEventAdvances, IncomingAssumption
    DEF ReceiveTimestamp, TypeOK
  <2> QED
    BY <2>1, <2>2, <2>3 DEF Next
<1> QED
  BY <1>1, ClockTypeCorrect, PTL DEF Spec, StrictlyIncreasing

\* As long as the clock is fed by DB::set_time, which passes the logical time
\* 0, it has passed every timestamp it was given.
THEOREM ClockPassesSetTime ==
    ASSUME \A ts \in Incoming : ts.logical_time = 0
    PROVE  Spec => []ReceivedIsPassed
<1>1. Init => ReceivedIsPassed
  BY DEF Init, ReceivedIsPassed
<1>2. TypeOK /\ TypeOK' /\ ReceivedIsPassed /\ [Next]_vars => ReceivedIsPassed'
  <2> SUFFICES ASSUME TypeOK, TypeOK', ReceivedIsPassed, [Next]_vars,
                      NEW ts \in received'
               PROVE  Less(ts, latest')
    BY DEF ReceivedIsPassed
  <2>0. /\ wall \in Nat \ {0}
        /\ ts \in Timestamp
    BY WallTimesAssumption, IncomingAssumption DEF TypeOK
  <2>1. CASE WallClockMoves
    BY <2>1 DEF WallClockMoves, ReceivedIsPassed
  <2>2. CASE GetTimestamp
    <3>1. Less(latest, latest') /\ Less(ts, latest)
      BY <2>0, <2>2, LocalEventAdvances DEF GetTimestamp, TypeOK, ReceivedIsPassed
    <3> QED
      BY <3>1, <2>0, LessTransitive DEF TypeOK
  <2>3. ASSUME NEW in \in Incoming, ReceiveTimestamp(in)
        PROVE  Less(ts, latest')
    <3>1. Less(latest, latest') /\ Less(in, latest')
      BY <2>0, <2>3, ReceiveEventAdvances, IncomingAssumption
      DEF ReceiveTimestamp, TypeOK
    <3>2. CASE ts = in
      BY <3>1, <3>2
    <3>3. CASE ts \in received
      <4>1. Less(ts, latest)
        BY <3>3 DEF ReceivedIsPassed
      <4> QED
        BY <4>1, <3>1, <2>0, LessTransitive DEF TypeOK
    <3> QED
      BY <3>2, <3>3, <2>3 DEF ReceiveTimestamp
  <2>4. CASE UNCHANGED vars
    BY <2>4 DEF vars, ReceivedIsPassed
  <2> QED
    BY <2>1, <2>2, <2>3, <2>4 DEF Next
<1> QED
  BY <1>1, <1>2, ClockTypeCorrect, PTL DEF Spec
=============================================================================
