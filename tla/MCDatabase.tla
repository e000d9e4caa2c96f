----------------------------- MODULE MCDatabase -----------------------------
\* Instances of Database for TLC.
EXTENDS Database, TLC

CONSTANTS t1, t2, t3

GetReq(k) == [op |-> "get", key |-> k]

PutReq(k) == [op |-> "put", key |-> k]

CommitReq == [op |-> "commit", key |-> None]

AbortReq == [op |-> "abort", key |-> None]

MCKeys == 1..3

Scripts ==
    {<<GetReq(1), PutReq(2), CommitReq>>,
     <<GetReq(3), PutReq(2), CommitReq, AbortReq>>,
     <<PutReq(2), PutReq(1), GetReq(2), CommitReq>>,
     <<PutReq(1), PutReq(2), AbortReq>>}

MCPrograms == [{t1, t2, t3} -> Scripts]

MCSymmetry == Permutations({t1, t2, t3})

MCBeginnings == {<<{}, 1>>, <<{1, 3}, 1>>, <<{1}, 126>>}

PairPrograms == [{t1, t2} -> {<<GetReq(1), PutReq(2), CommitReq>>,
                              <<GetReq(2), PutReq(1), CommitReq>>}]

PairBeginnings == {<<{3}, 1>>}

\* Two read what the third one writes, and what was committed before.
ReaderPrograms == {[t \in {t1, t2, t3} |-> IF t = t2 THEN <<PutReq(1), CommitReq>>
                                           ELSE <<GetReq(1)>>]}

ReaderBeginnings == {<<{1}, 1>>}
=============================================================================
