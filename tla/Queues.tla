-------------------------------- MODULE Queues --------------------------------
\* What the lock table does to its Vec of queued writers.
EXTENDS Integers, Sequences, Functions

\* retain, with which a guard leaves a queue: everything but g stays, in its
\* order.  A guard is in a queue at most once (QueuedOnce, proved in
\* ExecutorLockProofs), so there is one place to leave out.
Without(queue, g) ==
    LET i == CHOOSE j \in DOMAIN queue : queue[j] = g
    IN  IF g \in Range(queue)
        THEN SubSeq(queue, 1, i - 1) \o SubSeq(queue, i + 1, Len(queue))
        ELSE queue
=============================================================================
