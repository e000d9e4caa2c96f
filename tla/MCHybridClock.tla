---------------------------- MODULE MCHybridClock ----------------------------
\* Instances of HybridClock for TLC.
EXTENDS HybridClock

MCWallTimes == 1..4

\* DB::set_time passes the logical time 0.
MCSetTimes == {TS(w, 0) : w \in 1..4}

\* Any timestamp of another node, as the unit test of clock.rs passes.
MCMessages == {TS(w, l) : w \in 1..3, l \in 0..2}
=============================================================================
