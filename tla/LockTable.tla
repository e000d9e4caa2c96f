------------------------------ MODULE LockTable ------------------------------
(***************************************************************************)
(* The lock table of lock_table/lock_table.rs: for each key that was ever  *)
(* written, the transaction that holds its lock, the request that has      *)
(* reserved it, the writers queued for it and the readers waiting for it.  *)
(*                                                                         *)
(* The operators are the methods of LockTable and LockState; Executor      *)
(* makes them the steps of requests.  A request waits with a               *)
(* LockTableGuard, made anew by every scan.  A guard is <<a, n>>, where a  *)
(* is the task that runs the request (of transaction a[1]) and n stands    *)
(* for the guard's UUID; a number is used again once no queue, no          *)
(* reservation and no task that is about to signal it has the guard.       *)
(*                                                                         *)
(* A hybrid timestamp is a natural number, next_logical_timestamp adds     *)
(* one, and 0 stands for Option::None.                                     *)
(***************************************************************************)
EXTENDS Queues

CONSTANTS
    Txns,               \* the transactions
    Keys,               \* the keys
    None,               \* Option::None
    read_timestamp,     \* when each transaction began
    MaxGuards,          \* bound: the guards of one task that are alive at once
    MaxReapers          \* bound: the tasks that abort one transaction at once

\* Task 0 of each transaction is its client, which makes its requests one after
\* the other; the others are reapers, which TaskQueue spawns to abort it.
Tasks == Txns \X (0..MaxReapers)

Guards == Tasks \X (1..MaxGuards)

ASSUME NoneAssumption == None \notin Txns \cup Keys \cup Tasks \cup Guards

ASSUME TimestampAssumption == read_timestamp \in [Txns -> Nat \ {0}]

ASSUME BoundsAssumption == MaxGuards \in Nat /\ MaxReapers \in Nat

VARIABLES
    locks,                      \* the keys that have a LockState
    lock_holder,                \* the transaction in LockState::lock_holder
    holder_timestamp,           \* and the write timestamp stored with it
    reservation,                \* LockState::reservation
    queued_writers,             \* LockState::queued_writers
    waiting_readers,            \* LockState::waiting_readers
    last_committed_timestamp,   \* LockState::last_committed_timestamp
    signalled,                  \* the guards with a message in their channel
    lock_pc,                    \* where each task is in a method of LockState
    waking,                     \* the guards that it has yet to signal there
    write_timestamp             \* Txn::write_timestamp

stateVars == <<locks, lock_holder, holder_timestamp, reservation,
               queued_writers, waiting_readers, last_committed_timestamp>>

methodVars == <<lock_pc, waking>>

lockVars == <<stateVars, methodVars, signalled, write_timestamp>>
-----------------------------------------------------------------------------
GuardTxn(g) == g[1][1]

\* Guard g is in a queue of the lock of k.
Queued(g, k) == g \in Range(queued_writers[k]) \/ g \in waiting_readers[k]

\* The lock of some key refers to guard g ...
AtLock(g) == \E k \in Keys : Queued(g, k) \/ reservation[k] = g

\* ... or a task inside lock_is_free does.
Referenced(g) == AtLock(g) \/ \E a \in Tasks : g \in waking[a]

GuardsOf(a) == {a} \X (1..MaxGuards)

\* Mutant: a task scans with the same guard again.
IsNewGuardAlways(g) == g[2] = 1

\* LockTableGuard::new: the task's first guard that is not in use.
IsNewGuard(g) ==
    /\ ~Referenced(g)
    /\ \A m \in 1..(g[2] - 1) : Referenced(<<g[1], m>>)

\* Task a is at this place of a method of LockState.
Inside(a, place) == lock_pc' = [lock_pc EXCEPT ![a] = place]

\* The first thing that try_active_wait asks: a read-only request passes a lock
\* that nobody holds.  A key without a lock state is passed before.
NothingToWaitFor(k, isReadOnly) ==
    \/ k \notin locks
    \/ isReadOnly /\ lock_holder[k] = None

\* try_active_wait has found a reservation, or a holder, and asks further: the
\* lock is passed by a request of the holder, and by a read-only request if the
\* holder is gone or has written above its read timestamp.
PassesHolder(k, t, isReadOnly) ==
    \/ lock_holder[k] = t
    \/ /\ isReadOnly
       /\ lock_holder[k] = None \/ read_timestamp[t] < holder_timestamp[k]

\* try_active_wait ends with the guard in a queue.
Enqueue(k, g, isReadOnly) ==
    IF isReadOnly
    THEN /\ waiting_readers' = [waiting_readers EXCEPT ![k] = @ \cup {g}]
         /\ UNCHANGED queued_writers
    ELSE /\ queued_writers' = [queued_writers EXCEPT ![k] = Append(@, g)]
         /\ UNCHANGED waiting_readers

\* bump_txn_write_timestamp: the write timestamp becomes the one after the last
\* commit of k, even if it was later than that.
BumpTxnWriteTimestamp(k, t) ==
    write_timestamp' =
        IF last_committed_timestamp[k] = 0 THEN write_timestamp
        ELSE [write_timestamp EXCEPT ![t] = last_committed_timestamp[k] + 1]

\* Mutant: the reservation names the transaction, not the guard.
ClaimReservationByTxn(k, g) ==
    /\ BumpTxnWriteTimestamp(k, GuardTxn(g))
    /\ reservation' = [reservation EXCEPT ![k] = GuardTxn(g)]

\* claim_reservation up to its signal.
ClaimReservation(k, g) ==
    /\ BumpTxnWriteTimestamp(k, GuardTxn(g))
    /\ reservation' = [reservation EXCEPT ![k] = g]

\* Mutant: the writers are forgotten as the readers are, though one is woken.
RemoveAllWriters(a, k) ==
    /\ queued_writers' = [queued_writers EXCEPT ![k] = <<>>]
    /\ waking' = [waking EXCEPT ![a] = {Head(queued_writers[k])}]

\* Mutant: the writer is woken, but stays in the queue.
RemoveNoWriter(a, k) ==
    /\ waking' = [waking EXCEPT ![a] = {Head(queued_writers[k])}]
    /\ UNCHANGED queued_writers

\* remove_first_writer, which hands the guard to task a.
RemoveFirstWriter(a, k) ==
    /\ queued_writers' = [queued_writers EXCEPT ![k] = Tail(@)]
    /\ waking' = [waking EXCEPT ![a] = {Head(queued_writers[k])}]

\* The end of request_done: guard g leaves the queues of k.
Leave(k, g) ==
    /\ queued_writers' = [queued_writers EXCEPT ![k] = Without(@, g)]
    /\ waiting_readers' = [waiting_readers EXCEPT ![k] = @ \ {g}]

\* acquire_lock panics: another transaction holds or has reserved the lock.
AcquireLockPanics(k, t) ==
    /\ k \in locks
    /\ \/ lock_holder[k] \notin {None, t}
       \/ reservation[k] # None /\ GuardTxn(reservation[k]) # t

AcquireLock(k, t, ts) ==
    /\ locks' = locks \cup {k}
    /\ lock_holder' = [lock_holder EXCEPT ![k] = t]
    /\ holder_timestamp' = [holder_timestamp EXCEPT ![k] = ts]
    /\ reservation' = [reservation EXCEPT ![k] = None]

\* Mutant: update_locks forgets to compare the holder with the transaction.
ReleasesLockOfAnyone(k, t) ==
    k \in locks /\ (lock_holder[k] # None \/ reservation[k] # None)

\* update_locks for transaction t comes to lock_is_free: there is no other
\* holder, and a holder or a reservation.
ReleasesLock(k, t) ==
    /\ k \in locks
    /\ lock_holder[k] \in {None, t}
    /\ lock_holder[k] # None \/ reservation[k] # None
=============================================================================
