------------------------------ MODULE MCExecutor ------------------------------
\* Instances of Executor for TLC.
EXTENDS Executor, TLC

CONSTANTS t1, t2, t3, k1, k2

PutReq(k) == [op |-> "put", key |-> k]

GetReq(k) == [op |-> "get", key |-> k]

CommitReq == [op |-> "commit", key |-> None]

AbortReq == [op |-> "abort", key |-> None]

\* Transactions that write two keys in opposite orders, one of them going on
\* after it was told that it is aborted, and transactions that read.
Programs ==
    {<<PutReq(k1), PutReq(k2), PutReq(k1), CommitReq>>,
     <<PutReq(k2), PutReq(k1), CommitReq>>,
     <<PutReq(k2), GetReq(k1), AbortReq>>,
     <<GetReq(k1), GetReq(k2), CommitReq>>}

MCPairs == {t3 :> << >> @@ pair : pair \in [{t1, t2} -> Programs]}

\* t1 and t2 may deadlock, while t3 waits, and t1 writes on with its transaction
\* after it aborted it; or a reader and a writer wait for what t1 commits.
MCContention ==
    {t1 :> <<PutReq(k1), PutReq(k2), AbortReq, PutReq(k1)>>
        @@ t2 :> <<PutReq(k2), PutReq(k1)>>
        @@ t3 :> <<PutReq(k1)>>,
     t1 :> <<PutReq(k1), CommitReq>>
        @@ t2 :> <<GetReq(k1)>>
        @@ t3 :> <<PutReq(k1)>>}

MCWorkloads == MCPairs \union MCContention

MCTimestamps == t1 :> 10 @@ t2 :> 20 @@ t3 :> 30

\* The same for two transactions.
MCPairTimestamps == t1 :> 10 @@ t2 :> 20

\* Two transactions that write two keys in opposite orders.
MCDeadlock ==
    {t1 :> <<PutReq(k1), PutReq(k2), CommitReq>>
        @@ t2 :> <<PutReq(k2), PutReq(k1), CommitReq>>}

\* Three transactions that write the same key.
MCConflict == [{t1, t2, t3} -> {<<PutReq(k1), CommitReq>>}]

\* t1 may be aborted as the victim of a deadlock, and then aborts itself.
MCAbortTwice ==
    {t1 :> <<PutReq(k1), PutReq(k2), AbortReq>>
        @@ t2 :> <<PutReq(k2), PutReq(k1), CommitReq>>}
=============================================================================
