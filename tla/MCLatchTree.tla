----------------------------- MODULE MCLatchTree -----------------------------
\* Instances of LatchTree for TLC: requests for one key (Get, Put), for several
\* keys in different orders (Commit, Abort) and for none (BeginTxn).
EXTENDS LatchTree

\* With four keys, leaves split, steal from either side and merge, and the root
\* grows and shrinks.
MCKeys == 1..4

MCSpanSets == {<<>>, <<2>>, <<1, 2, 3>>, <<4, 1>>, <<3, 4>>}

MCNodeIds == 1..7

\* Three keys are enough to split the root.
RaceKeys == 1..3

RaceSpanSets == {<<1, 2>>, <<3>>}
=============================================================================
