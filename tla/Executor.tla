------------------------------- MODULE Executor -------------------------------
(***************************************************************************)
(* The life of a request: execute_request_with_concurrency_retries         *)
(* (execute/executor.rs), sequence_req and finish_req                      *)
(* (concurrency/concurrency_manager.rs), wait_for (lock_table.rs) and the  *)
(* execute methods of the requests (execute/request.rs).                   *)
(*                                                                         *)
(* A task is one request in progress.  Latches are taken as Latches says,  *)
(* which LatchManager implements.  Acquiring them is one step with making  *)
(* the guard of the scan (until then they only make others wait), and      *)
(* releasing them is one step with the last thing done under them.         *)
(*                                                                         *)
(* The methods of LockState go step by step: lock_pc is the place in       *)
(* try_active_wait, lock_is_free or request_done.  Another task may change *)
(* the lock between two steps, because request_done takes no latches, and  *)
(* an abort may free keys that it has not latched.  One step are the parts *)
(* of them that read and write with nothing awaited in between: the        *)
(* comparison of holder and reservation in update_locks and the clearing   *)
(* of the holder; the comparison of the reservation in request_done and    *)
(* its clearing; claim_reservation up to its signal; the two retains of    *)
(* request_done; the last look at the holder in try_active_wait and the    *)
(* push to a queue (a reader's is under the read lock of the holder, and   *)
(* what a writer looks for, its own transaction, cannot become the holder  *)
(* meanwhile).  One step too is a put: its intent, acquire_lock and        *)
(* append_lock_span, which await nothing.                                  *)
(*                                                                         *)
(* The write timestamp of a transaction may be bumped by a task that frees *)
(* a lock; a put, being one step, sees one value of it.                    *)
(* A panic ends the task; its latches stay taken (LatchGuard has no Drop)  *)
(* and its guard stays in the queues.                                      *)
(*                                                                         *)
(* Abstractions.  The spans of a request are a set of single keys, gone    *)
(* through in any order.  The store is the transaction records and the     *)
(* intents; committed versions are left out, so a read refresh of a        *)
(* transaction that has read something may succeed or fail.  The timestamp *)
(* oracle is the largest timestamp at which each key was read.  The        *)
(* transaction wait queue is the set of pushes in it; a push is named by   *)
(* its task and its pushee, and dependents come from the pushes that are   *)
(* in it now (the code also remembers some from pushes released since).    *)
(* All transactions have begun: BeginTxn has no spans and waits for        *)
(* nothing.                                                                *)
(***************************************************************************)
EXTENDS LockTable

CONSTANT Workloads      \* what the clients may ask for: a sequence of requests
                        \* for each transaction

Requests == [op : {"put", "get"}, key : Keys]
                \cup [op : {"commit", "abort"}, key : {None}]

ASSUME WorkloadsAssumption == Workloads \subseteq [Txns -> Seq(Requests)]

\* DB::run_txn asks for the commit when the function of the transaction has ended;
\* a transaction that cannot be committed is given up for a new one.
ASSUME CommitIsLast ==
    \A w \in Workloads : \A t \in Txns : \A i \in 1..Len(w[t]) :
        w[t][i].op = "commit" => i = Len(w[t])

VARIABLES
    todo,               \* the requests that each client has still to make
    status,             \* TxnRecord::status
    commit_timestamp,   \* the write timestamp that its commit has read
    lock_spans,         \* Txn::lock_spans
    read_set,           \* Txn::read_set
    intent,             \* the uncommitted value of each key
    max_read,           \* TimestampOracle: the latest read of each key
    waiting_pushes,     \* TxnWaitQueue::pushees: <<task, pushee>>
    released,           \* the pushes with a message in their channel
    pc,                 \* where each task is
    request,            \* its request
    spans,              \* its spans_to_acquire
    held,               \* the keys it has latched
    guard,              \* its current guard
    keys,               \* LockTableGuard::keys
    togo,               \* the keys left in the loop it is in
    at,                 \* the key whose holder it pushes, or that it frees
    pushee,             \* the transaction it pushes, or whose intent it met
    awaited,            \* the reaper whose answer it awaits
    releasing,          \* the pushes left in its loop of finalize_txn
    result              \* what its request has come to

txnVars == <<status, commit_timestamp, lock_spans, read_set, intent, max_read>>

loopVars == <<guard, keys, togo, at, pushee, result>>

\* what the transaction wait queue keeps
queueVars == <<waiting_pushes, released, awaited, releasing>>

vars == <<lockVars, txnVars, loopVars, queueVars, todo, pc, request, spans,
          held>>

\* What the methods of LockState leave alone.
otherVars == <<txnVars, queueVars, todo, request, spans, guard, keys, pushee,
               result>>

Latch == INSTANCE Latches WITH Clients <- Tasks
-----------------------------------------------------------------------------
Txn(a) == a[1]

Client(t) == <<t, 0>>

Reapers(t) == {t} \X (1..MaxReapers)

\* Command::is_read_only
ReadOnly(r) == r.op # "put"

\* Mutant: an abort has no spans, and so takes no latches.
CollectSpansUnlessAbort(t, r) ==
    IF r.op \in {"put", "get"} THEN {r.key}
    ELSE IF r.op = "commit" THEN lock_spans[t] \cup read_set[t] ELSE {}

\* Command::collect_spans
CollectSpans(t, r) ==
    IF r.op \in {"put", "get"} THEN {r.key} ELSE lock_spans[t] \cup read_set[t]

Goto(a, label) == pc' = [pc EXCEPT ![a] = label]

Ends(a, res) == result' = [result EXCEPT ![a] = res]

\* finish_req starts: the latches are released, then the guard is dequeued
\* from all its keys.
FinishReq(a) ==
    /\ held' = [held EXCEPT ![a] = {}]
    /\ togo' = [togo EXCEPT ![a] = keys[a]]
    /\ Goto(a, "dequeue")

\* Task a panics, and with it the task that waits for an answer from a.
Panics(a) ==
    pc' = [b \in Tasks |->
             IF \/ b = a
                \/ pc[b] = "await" /\ awaited[b] = a
             THEN "panicked" ELSE pc[b]]

\* TimestampOracle::update_cache, after every read-only request.
UpdateCache(t, S) ==
    max_read' = [k \in Keys |->
                   IF k \in S /\ max_read[k] < read_timestamp[t]
                   THEN read_timestamp[t] ELSE max_read[k]]

\* The intents of S are deleted, whoever has written them.
DeleteIntents(S) ==
    intent' = [k \in Keys |-> IF k \in S THEN None ELSE intent[k]]

Init ==
    /\ locks = {}
    /\ lock_holder = [k \in Keys |-> None]
    /\ holder_timestamp = [k \in Keys |-> 0]
    /\ reservation = [k \in Keys |-> None]
    /\ queued_writers = [k \in Keys |-> <<>>]
    /\ waiting_readers = [k \in Keys |-> {}]
    /\ last_committed_timestamp = [k \in Keys |-> 0]
    /\ signalled = {}
    /\ lock_pc = [a \in Tasks |-> None]
    /\ waking = [a \in Tasks |-> {}]
    /\ write_timestamp = read_timestamp
    /\ todo \in Workloads
    /\ status = [t \in Txns |-> "PENDING"]
    /\ commit_timestamp = [t \in Txns |-> 0]
    /\ lock_spans = [t \in Txns |-> {}]
    /\ read_set = [t \in Txns |-> {}]
    /\ intent = [k \in Keys |-> None]
    /\ max_read = [k \in Keys |-> 0]
    /\ waiting_pushes = {}
    /\ released = {}
    /\ pc = [a \in Tasks |-> "idle"]
    /\ request = [a \in Tasks |-> None]
    /\ spans = [a \in Tasks |-> {}]
    /\ held = [a \in Tasks |-> {}]
    /\ guard = [a \in Tasks |-> None]
    /\ keys = [a \in Tasks |-> {}]
    /\ togo = [a \in Tasks |-> {}]
    /\ at = [a \in Tasks |-> None]
    /\ pushee = [a \in Tasks |-> None]
    /\ awaited = [a \in Tasks |-> None]
    /\ releasing = [a \in Tasks |-> {}]
    /\ result = [a \in Tasks |-> None]
-----------------------------------------------------------------------------
(* sequence_req *)

\* The client of t makes its next request.
Issue(t) ==
    LET a == Client(t)
        r == Head(todo[t])
    IN  /\ pc[a] = "idle"
        /\ todo[t] # <<>>
        /\ todo' = [todo EXCEPT ![t] = Tail(@)]
        /\ request' = [request EXCEPT ![a] = r]
        /\ spans' = [spans EXCEPT ![a] = CollectSpans(t, r)]
        /\ Goto(a, "latch")
        /\ UNCHANGED <<lockVars, txnVars, loopVars, queueVars, held>>

\* The latches are free, and scan_and_enqueue starts with a new guard.
Sequences(a, g) ==
    /\ pc[a] = "latch"
    /\ Latch!Grantable(a, spans[a])
    /\ IsNewGuard(g)
    /\ guard' = [guard EXCEPT ![a] = g]
    /\ keys' = [keys EXCEPT ![a] = CollectSpans(Txn(a), request[a])]

\* The keys are scanned one after the other, with the latches.
ScanStarts(a) ==
    \E g \in GuardsOf(a) :
        /\ Sequences(a, g)
        /\ signalled' = signalled \ {g}
        /\ held' = [held EXCEPT ![a] = spans[a]]
        /\ togo' = [togo EXCEPT ![a] = CollectSpans(Txn(a), request[a])]
        /\ Goto(a, "scan")
        /\ UNCHANGED <<stateVars, methodVars, write_timestamp, txnVars, at,
                       pushee, result, todo, queueVars, request, spans>>

\* Task a scans, and is at this place of try_active_wait.
Scans(a, place) == pc[a] = "scan" /\ lock_pc[a] = place

\* The scan passes the lock of k, which does not make the request wait.
Passes(a, k) ==
    /\ togo' = [togo EXCEPT ![a] = @ \ {k}]
    /\ at' = [at EXCEPT ![a] = None]
    /\ Inside(a, None)

ScanSkips(a) ==
    /\ Scans(a, None)
    /\ \E k \in togo[a] :
          NothingToWaitFor(k, ReadOnly(request[a])) /\ Passes(a, k)
    /\ UNCHANGED <<stateVars, waking, signalled, write_timestamp, otherVars,
                   pc, held>>

\* is_reserved is read ...
ScanLooks(a) ==
    /\ Scans(a, None)
    /\ \E k \in togo[a] :
          /\ ~NothingToWaitFor(k, ReadOnly(request[a]))
          /\ at' = [at EXCEPT ![a] = k]
          /\ Inside(a, IF reservation[k] # None THEN "reserved"
                       ELSE "unreserved")
    /\ UNCHANGED <<stateVars, waking, signalled, write_timestamp, otherVars,
                   togo, pc, held>>

\* ... but the reservation is gone when its transaction is asked for: unwrap.
ScanUnwrapPanics(a) ==
    /\ Scans(a, "reserved")
    /\ reservation[at[a]] = None
    /\ Panics(a)
    /\ UNCHANGED <<lockVars, otherVars, togo, at, held>>

\* There is a reservation of another transaction, or a holder and no reservation.
ScanConflicts(a) ==
    /\ pc[a] = "scan"
    /\ \/ /\ lock_pc[a] = "reserved"
          /\ reservation[at[a]] # None
          /\ GuardTxn(reservation[at[a]]) # Txn(a)
       \/ lock_pc[a] = "unreserved" /\ lock_holder[at[a]] # None
    /\ Inside(a, "conflict")
    /\ UNCHANGED <<stateVars, waking, signalled, write_timestamp, otherVars,
                   togo, at, pc, held>>

\* The reservation is the transaction's own, or the holder lets it pass.
ScanPasses(a) ==
    /\ \/ /\ Scans(a, "reserved")
          /\ reservation[at[a]] # None
          /\ GuardTxn(reservation[at[a]]) = Txn(a)
       \/ /\ Scans(a, "conflict")
          /\ PassesHolder(at[a], Txn(a), ReadOnly(request[a]))
    /\ Passes(a, at[a])
    /\ UNCHANGED <<stateVars, waking, signalled, write_timestamp, otherVars,
                   pc, held>>

\* There is neither a reservation nor a holder ...
ScanFindsFree(a) ==
    /\ Scans(a, "unreserved")
    /\ lock_holder[at[a]] = None
    /\ Inside(a, "claim")
    /\ UNCHANGED <<stateVars, waking, signalled, write_timestamp, otherVars,
                   togo, at, pc, held>>

\* ... so that the request claims the reservation, which signals its guard although
\* nobody waits with it.  A second message would have to wait for the first.
ScanReserves(a) ==
    /\ Scans(a, "claim")
    /\ guard[a] \notin signalled
    /\ ClaimReservation(at[a], guard[a])
    /\ signalled' = signalled \cup {guard[a]}
    /\ Passes(a, at[a])
    /\ UNCHANGED <<locks, lock_holder, holder_timestamp, queued_writers,
                   waiting_readers, last_committed_timestamp, waking,
                   otherVars, pc, held>>

\* The guard is put in a queue; the scan ends, and the latches are released again.
ScanWaits(a) ==
    /\ Scans(a, "conflict")
    /\ ~PassesHolder(at[a], Txn(a), ReadOnly(request[a]))
    /\ Enqueue(at[a], guard[a], ReadOnly(request[a]))
    /\ Inside(a, None)
    /\ at' = [at EXCEPT ![a] = None]
    /\ togo' = [togo EXCEPT ![a] = {}]
    /\ held' = [held EXCEPT ![a] = {}]
    /\ Goto(a, "wait")
    /\ UNCHANGED <<locks, lock_holder, holder_timestamp, reservation,
                   last_committed_timestamp, waking, signalled,
                   write_timestamp, otherVars>>

\* No key makes the request wait.
ScanEnds(a) ==
    /\ pc[a] = "scan"
    /\ togo[a] = {}
    /\ Goto(a, "eval")
    /\ UNCHANGED <<lockVars, otherVars, togo, at, held>>
-----------------------------------------------------------------------------
(* wait_for and wait_for_push *)

\* The channel of the guard has a message: rescan.
WaitEnds(a) ==
    /\ pc[a] = "wait"
    /\ guard[a] \in signalled
    /\ signalled' = signalled \ {guard[a]}
    /\ Goto(a, "latch")
    /\ UNCHANGED <<stateVars, methodVars, write_timestamp, txnVars, loopVars,
                   todo, queueVars, request, spans, held>>

\* The sleep of 1000 ms ends: push the holders of all keys of the guard.
WaitTimesOut(a) ==
    /\ pc[a] = "wait"
    /\ togo' = [togo EXCEPT ![a] = keys[a]]
    /\ Goto(a, "push")
    /\ UNCHANGED <<lockVars, txnVars, guard, keys, at, pushee, result, todo,
                   queueVars, request, spans, held>>

\* The lock of the next key has no holder.
PushSkips(a) ==
    /\ pc[a] = "push"
    /\ \E k \in togo[a] :
          /\ k \in locks
          /\ lock_holder[k] = None
          /\ togo' = [togo EXCEPT ![a] = @ \ {k}]
    /\ UNCHANGED <<lockVars, txnVars, guard, keys, at, pushee, result, todo,
                   queueVars, pc, request, spans, held>>

\* The next key has no lock state, which wait_for unwraps.
PushUnwrapPanics(a) ==
    /\ pc[a] = "push"
    /\ \E k \in togo[a] : k \notin locks
    /\ Panics(a)
    /\ UNCHANGED <<lockVars, txnVars, loopVars, todo, queueVars, request,
                   spans, held>>

\* The lock of the next key has a holder.
PushStarts(a) ==
    /\ pc[a] = "push"
    /\ \E k \in togo[a] :
          /\ lock_holder[k] # None
          /\ at' = [at EXCEPT ![a] = k]
          /\ pushee' = [pushee EXCEPT ![a] = lock_holder[k]]
    /\ Goto(a, "enqueue")
    /\ UNCHANGED <<lockVars, txnVars, guard, keys, togo, result, queueVars,
                   todo, request, spans, held>>

\* enqueue_and_push, with a new channel.  An earlier push of the task on the same
\* transaction, in which nobody listens any more, is forgotten.
EnqueueAndPush(a) ==
    LET p == <<a, pushee[a]>>
    IN  /\ pc[a] = "enqueue"
        /\ waiting_pushes' = waiting_pushes \cup {p}
        /\ released' = released \ {p}
        /\ releasing' = [b \in Tasks |-> releasing[b] \ {p}]
        /\ Goto(a, "pushing")
        /\ UNCHANGED <<lockVars, txnVars, loopVars, awaited, todo, request,
                       spans, held>>

\* All keys are done: wait_for returns and the request rescans.
PushesEnd(a) ==
    /\ pc[a] = "push"
    /\ togo[a] = {}
    /\ at' = [at EXCEPT ![a] = None]
    /\ pushee' = [pushee EXCEPT ![a] = None]
    /\ Goto(a, "latch")
    /\ UNCHANGED <<lockVars, txnVars, guard, keys, togo, result, todo,
                   queueVars, request, spans, held>>

\* finalize_txn has released the push.
PushReleased(a) ==
    /\ pc[a] = "pushing"
    /\ <<a, pushee[a]>> \in released
    /\ released' = released \ {<<a, pushee[a]>>}
    /\ togo' = [togo EXCEPT ![a] = @ \ {at[a]}]
    /\ Goto(a, "push")
    /\ UNCHANGED <<lockVars, txnVars, guard, keys, at, pushee, result, todo,
                   waiting_pushes, awaited, releasing, request, spans, held>>

\* The pusher itself is finalized: request_done for this key only, then an
\* error.
PushFails(a) ==
    /\ pc[a] = "pushing"
    /\ status[Txn(a)] # "PENDING"
    /\ Ends(a, status[Txn(a)])
    /\ togo' = [togo EXCEPT ![a] = {at[a]}]
    /\ Goto(a, "dequeue")
    /\ UNCHANGED <<lockVars, txnVars, guard, keys, at, pushee, todo,
                   queueVars, request, spans, held>>

\* The transactions with a push on t in the queue.
Pushers(t) == {Txn(p[1]) : p \in {q \in waiting_pushes : q[2] = t}}

\* get_transitive_dependents: the least set closed under Pushers.
Dependents(t) ==
    {x \in Txns : \A S \in SUBSET Txns :
        Pushers(t) \subseteq S /\ (\A y \in S : Pushers(y) \subseteq S)
            => x \in S}

\* The request that the task queue makes.
AbortTxn == [op |-> "abort", key |-> None]

\* spawn: the first reaper that is not in use.
IsNewReaper(b) ==
    pc[b] = "idle" /\ \A m \in 1..(b[2] - 1) : pc[<<b[1], m>>] # "idle"

\* The pushee depends on the pusher: TaskQueue spawns a task that aborts it.
PushFindsCycle(a) ==
    /\ pc[a] = "pushing"
    /\ status[Txn(a)] = "PENDING"
    /\ pushee[a] \in Dependents(Txn(a))
    /\ \E b \in Reapers(pushee[a]) :
          /\ IsNewReaper(b)
          /\ pc' = [pc EXCEPT ![a] = "await", ![b] = "latch"]
          /\ awaited' = [awaited EXCEPT ![a] = b]
          /\ request' = [request EXCEPT ![b] = AbortTxn]
          /\ spans' = [spans EXCEPT ![b] = CollectSpans(pushee[a], AbortTxn)]
    /\ UNCHANGED <<lockVars, txnVars, guard, keys, togo, at, pushee, result,
                   todo, waiting_pushes, released, releasing, held>>

\* The 26th turn of the loop, about 250 ms after it began.
PushPanics(a) ==
    /\ pc[a] = "pushing"
    /\ Panics(a)
    /\ UNCHANGED <<lockVars, txnVars, loopVars, todo, queueVars, request,
                   spans, held>>
-----------------------------------------------------------------------------
(* execute_write_request and PutRequest *)

\* The timestamp at which task a writes: not below a read of the key.
PutTimestamp(a) ==
    LET k == request[a].key
    IN  IF write_timestamp[Txn(a)] < max_read[k]
        THEN max_read[k] ELSE write_timestamp[Txn(a)]

AtPut(a) == pc[a] = "eval" /\ request[a].op = "put"

BumpForPut(a) ==
    write_timestamp' = [write_timestamp EXCEPT ![Txn(a)] = PutTimestamp(a)]

\* The key has an intent of another transaction.
ForeignIntent(a) ==
    LET i == intent[request[a].key] IN i # None /\ i.txn # Txn(a)

IntentStatus(a) == status[intent[request[a].key].txn]

\* mvcc_put_raw returns WriteIntentError.
PutMeetsIntent(a) ==
    /\ AtPut(a)
    /\ ForeignIntent(a)
    /\ IntentStatus(a) = "PENDING"
    /\ BumpForPut(a)
    /\ Ends(a, "intent")
    /\ pushee' = [pushee EXCEPT ![a] = intent[request[a].key].txn]
    /\ FinishReq(a)
    /\ UNCHANGED <<stateVars, methodVars, signalled, txnVars, guard, keys, at, todo,
                   queueVars, request, spans>>

\* mvcc_put_raw comes to a todo!(): the intent is of a finalized transaction.
PutIntentPanics(a) ==
    /\ AtPut(a)
    /\ ForeignIntent(a)
    /\ IntentStatus(a) # "PENDING"
    /\ BumpForPut(a)
    /\ Panics(a)
    /\ UNCHANGED <<stateVars, methodVars, signalled, txnVars, loopVars, todo, queueVars,
                   request, spans, held>>

WriteIntent(a) ==
    intent' = [intent EXCEPT ![request[a].key] =
                 [txn |-> Txn(a), write_timestamp |-> PutTimestamp(a)]]

\* The intent is written, but acquire_lock panics.
PutLockPanics(a) ==
    /\ AtPut(a)
    /\ ~ForeignIntent(a)
    /\ AcquireLockPanics(request[a].key, Txn(a))
    /\ BumpForPut(a)
    /\ WriteIntent(a)
    /\ Panics(a)
    /\ UNCHANGED <<stateVars, methodVars, signalled, status, commit_timestamp, lock_spans,
                   read_set, max_read, loopVars, todo, queueVars, request,
                   spans, held>>

\* Mutant: the lock is taken, but the transaction does not remember it.
AppendLockSpanNever(a) == UNCHANGED lock_spans

\* Txn::append_lock_span
AppendLockSpan(a) ==
    lock_spans' = [lock_spans EXCEPT ![Txn(a)] = @ \cup {request[a].key}]

Put(a) ==
    /\ AtPut(a)
    /\ ~ForeignIntent(a)
    /\ ~AcquireLockPanics(request[a].key, Txn(a))
    /\ BumpForPut(a)
    /\ WriteIntent(a)
    /\ AcquireLock(request[a].key, Txn(a), PutTimestamp(a))
    /\ AppendLockSpan(a)
    /\ Ends(a, "ok")
    /\ FinishReq(a)
    /\ UNCHANGED <<queued_writers, waiting_readers, last_committed_timestamp,
                   methodVars, signalled, status, commit_timestamp, read_set,
                   max_read, guard, keys, at, pushee, todo, queueVars, request,
                   spans>>
-----------------------------------------------------------------------------
(* execute_read_only_request: GetRequest, CommitTxnRequest, AbortTxnRequest *)

AtGet(a) == pc[a] = "eval" /\ request[a].op = "get"

\* The key has an intent of another transaction that the read may not ignore.
GetMeetsIntent(a) ==
    /\ AtGet(a)
    /\ ForeignIntent(a)
    /\ intent[request[a].key].write_timestamp <= read_timestamp[Txn(a)]
    /\ Ends(a, "intent")
    /\ pushee' = [pushee EXCEPT ![a] = intent[request[a].key].txn]
    /\ UpdateCache(Txn(a), {request[a].key})
    /\ FinishReq(a)
    /\ UNCHANGED <<lockVars, status, commit_timestamp, lock_spans, read_set,
                   intent, guard, keys, at, todo, queueVars, request, spans>>

Get(a) ==
    /\ AtGet(a)
    /\ ForeignIntent(a) =>
          intent[request[a].key].write_timestamp > read_timestamp[Txn(a)]
    /\ read_set' = [read_set EXCEPT ![Txn(a)] = @ \cup {request[a].key}]
    /\ Ends(a, "ok")
    /\ UpdateCache(Txn(a), {request[a].key})
    /\ FinishReq(a)
    /\ UNCHANGED <<lockVars, status, commit_timestamp, lock_spans, intent,
                   guard, keys, at, pushee, todo, queueVars, request, spans>>

AtCommit(a) == pc[a] = "eval" /\ request[a].op = "commit"

\* The record is aborted: release the locks the transaction has taken since.
CommitFindsAborted(a) ==
    /\ AtCommit(a)
    /\ status[Txn(a)] = "ABORTED"
    /\ Ends(a, "ABORTED")
    /\ Goto(a, "release")
    /\ UNCHANGED <<lockVars, txnVars, guard, keys, togo, at, pushee, todo,
                   queueVars, request, spans, held>>

\* refresh_read_timestamp fails; the transaction stays pending with its locks.
CommitCannotRefresh(a) ==
    /\ AtCommit(a)
    /\ status[Txn(a)] # "ABORTED"
    /\ read_set[Txn(a)] # {}
    /\ Ends(a, "refresh")
    /\ UpdateCache(Txn(a), CollectSpans(Txn(a), request[a]))
    /\ FinishReq(a)
    /\ UNCHANGED <<lockVars, status, commit_timestamp, lock_spans, read_set,
                   intent, guard, keys, at, pushee, todo, queueVars, request,
                   spans>>

\* The refresh succeeds.  The commit goes on with the write timestamp it has.
CommitRefreshes(a) ==
    LET t == Txn(a)
    IN  /\ AtCommit(a)
        /\ status[t] # "ABORTED"
        /\ commit_timestamp' =
              [commit_timestamp EXCEPT ![t] = write_timestamp[t]]
        /\ Goto(a, "commit")
        /\ UNCHANGED <<lockVars, status, lock_spans, read_set, intent, max_read,
                       loopVars, todo, queueVars, request, spans, held>>

\* commit_transaction_record, then resolve_intents_for_txn: the intents of the
\* transaction become versions.
Commit(a) ==
    LET t == Txn(a)
    IN  /\ pc[a] = "commit"
        /\ status' = [status EXCEPT ![t] = "COMMITTED"]
        /\ DeleteIntents({k \in lock_spans[t] :
                            intent[k] # None /\ intent[k].txn = t})
        /\ Ends(a, "ok")
        /\ Goto(a, "release")
        /\ UNCHANGED <<lockVars, commit_timestamp, lock_spans, read_set, max_read,
                       guard, keys, togo, at, pushee, todo, queueVars, request,
                       spans, held>>

AtAbort(a) == pc[a] = "eval" /\ request[a].op = "abort"

\* A committed transaction is not aborted, and no error is returned.
AbortFindsCommitted(a) ==
    /\ AtAbort(a)
    /\ status[Txn(a)] = "COMMITTED"
    /\ Ends(a, "ok")
    /\ UpdateCache(Txn(a), CollectSpans(Txn(a), request[a]))
    /\ FinishReq(a)
    /\ UNCHANGED <<lockVars, status, commit_timestamp, lock_spans, read_set,
                   intent, guard, keys, at, pushee, todo, queueVars, request,
                   spans>>

AbortProceeds(a) ==
    /\ AtAbort(a)
    /\ status[Txn(a)] # "COMMITTED"
    /\ Goto(a, "abort")
    /\ UNCHANGED <<lockVars, txnVars, loopVars, todo, queueVars, request,
                   spans, held>>

\* update_transaction_record_to_abort
Abort(a) ==
    /\ pc[a] = "abort"
    /\ status' = [status EXCEPT ![Txn(a)] = "ABORTED"]
    /\ Ends(a, "ok")
    /\ Goto(a, "delete")
    /\ UNCHANGED <<lockVars, commit_timestamp, lock_spans, read_set, intent,
                   max_read, guard, keys, togo, at, pushee, todo, queueVars,
                   request, spans, held>>

\* The intents of all keys that the transaction has ever locked are deleted.  It
\* may have locked more keys than the abort has latched.
AbortIntents(a) ==
    /\ pc[a] = "delete"
    /\ DeleteIntents(lock_spans[Txn(a)])
    /\ Goto(a, "release")
    /\ UNCHANGED <<lockVars, status, commit_timestamp, lock_spans, read_set,
                   max_read, loopVars, todo, queueVars, request, spans, held>>
-----------------------------------------------------------------------------
(* update_txn_locks and finalize_txn *)

\* update_txn_locks goes through the lock spans of the transaction.
UpdateTxnLocks(a) ==
    /\ pc[a] = "release"
    /\ togo' = [togo EXCEPT ![a] = lock_spans[Txn(a)]]
    /\ Goto(a, "unlock")
    /\ UNCHANGED <<lockVars, txnVars, guard, keys, at, pushee, result, todo,
                   queueVars, request, spans, held>>

\* update_txn_locks is at its next key, or has come to its end.
AtUnlock(a) == pc[a] = "unlock" /\ lock_pc[a] = None

\* update_locks returns early.
UnlockSkips(a) ==
    /\ AtUnlock(a)
    /\ \E k \in togo[a] :
          /\ ~ReleasesLock(k, Txn(a))
          /\ togo' = [togo EXCEPT ![a] = @ \ {k}]
    /\ UNCHANGED <<lockVars, txnVars, guard, keys, at, pushee, result, todo,
                   queueVars, pc, request, spans, held>>

\* update_locks clears the holder and, after a commit, sets the timestamp.
ReleaseLock(a, k) ==
    /\ ReleasesLock(k, Txn(a))
    /\ lock_holder' = [lock_holder EXCEPT ![k] = None]
    /\ last_committed_timestamp' =
          IF request[a].op = "commit" /\ result[a] = "ok"
          THEN [last_committed_timestamp EXCEPT ![k] = commit_timestamp[Txn(a)]]
          ELSE last_committed_timestamp

\* The lock is released, and lock_is_free is called.
Unlock(a) ==
    /\ AtUnlock(a)
    /\ \E k \in togo[a] :
          /\ ReleaseLock(a, k)
          /\ at' = [at EXCEPT ![a] = k]
    /\ Inside(a, "check")
    /\ UNCHANGED <<locks, holder_timestamp, reservation, queued_writers,
                   waiting_readers, waking, signalled, write_timestamp,
                   otherVars, togo, pc, held>>

\* Mutant: the pushes of t, not those on it.
PushesOnByPusher(t) == {p \in waiting_pushes : Txn(p[1]) = t}

\* The pushes on transaction t.
PushesOn(t) == {p \in waiting_pushes : p[2] = t}

\* finalize_txn finds no pushes on the transaction, or is not called: a commit
\* that found its record aborted does not come to it.
FinalizeFindsNone(a) ==
    /\ AtUnlock(a)
    /\ togo[a] = {}
    /\ result[a] = "ABORTED" \/ PushesOn(Txn(a)) = {}
    /\ UpdateCache(Txn(a), CollectSpans(Txn(a), request[a]))
    /\ FinishReq(a)
    /\ UNCHANGED <<lockVars, status, commit_timestamp, lock_spans, read_set,
                   intent, guard, keys, at, pushee, result, todo, queueVars,
                   request, spans>>

\* finalize_txn takes a copy of the pushes on the transaction ...
Finalize(a) ==
    /\ AtUnlock(a)
    /\ togo[a] = {}
    /\ result[a] # "ABORTED" /\ PushesOn(Txn(a)) # {}
    /\ releasing' = [releasing EXCEPT ![a] = PushesOn(Txn(a))]
    /\ Goto(a, "finalize")
    /\ UNCHANGED <<lockVars, txnVars, loopVars, waiting_pushes, released,
                   awaited, todo, request, spans, held>>

\* ... sends to each of them, once there is room in its channel ...
ReleasePush(a) ==
    /\ pc[a] = "finalize"
    /\ \E p \in releasing[a] :
          /\ p \notin released
          /\ released' = released \cup {p}
          /\ releasing' = [releasing EXCEPT ![a] = @ \ {p}]
    /\ UNCHANGED <<lockVars, txnVars, loopVars, waiting_pushes, awaited, todo,
                   pc, request, spans, held>>

\* Mutant: the entry of the pushee stays.
RemovePusheeNever(t) == UNCHANGED waiting_pushes

\* remove_pushee: with the pushes that have come since.
RemovePushee(t) == waiting_pushes' = waiting_pushes \ PushesOn(t)

\* ... and removes them.
FinalizeEnds(a) ==
    /\ pc[a] = "finalize"
    /\ releasing[a] = {}
    /\ RemovePushee(Txn(a))
    /\ UpdateCache(Txn(a), CollectSpans(Txn(a), request[a]))
    /\ FinishReq(a)
    /\ UNCHANGED <<lockVars, status, commit_timestamp, lock_spans, read_set,
                   intent, guard, keys, at, pushee, result, released, awaited,
                   releasing, todo, request, spans>>
-----------------------------------------------------------------------------
(* lock_is_free, called by update_locks and by request_done *)

\* Task a frees a lock, and is at this place of lock_is_free.
Frees(a, place) == pc[a] \in {"unlock", "dequeue"} /\ lock_pc[a] = place

\* There is neither a holder nor a reservation ...
CheckFree(a) ==
    /\ Frees(a, "check")
    /\ lock_holder[at[a]] = None /\ reservation[at[a]] = None
    /\ Inside(a, "copy")
    /\ UNCHANGED <<stateVars, waking, signalled, write_timestamp, otherVars,
                   togo, at, pc, held>>

\* ... or there is, and it panics.
CheckPanics(a) ==
    /\ Frees(a, "check")
    /\ lock_holder[at[a]] # None \/ reservation[at[a]] # None
    /\ Panics(a)
    /\ UNCHANGED <<lockVars, otherVars, togo, at, held>>

\* The readers are copied, each of them is sent a message ...
CopyReaders(a) ==
    /\ Frees(a, "copy")
    /\ waking' = [waking EXCEPT ![a] = waiting_readers[at[a]]]
    /\ Inside(a, "wake")
    /\ UNCHANGED <<stateVars, signalled, write_timestamp, otherVars, togo, at,
                   pc, held>>

\* ... once there is room in its channel ...
WakeReader(a) ==
    /\ Frees(a, "wake")
    /\ \E r \in waking[a] :
          /\ r \notin signalled
          /\ signalled' = signalled \cup {r}
          /\ waking' = [waking EXCEPT ![a] = @ \ {r}]
    /\ UNCHANGED <<stateVars, lock_pc, write_timestamp, otherVars, togo, at,
                   pc, held>>

\* ... and all readers are forgotten, those who have come meanwhile too.
ClearReaders(a) ==
    /\ Frees(a, "wake")
    /\ waking[a] = {}
    /\ waiting_readers' = [waiting_readers EXCEPT ![at[a]] = {}]
    /\ Inside(a, "next")
    /\ UNCHANGED <<locks, lock_holder, holder_timestamp, reservation,
                   queued_writers, last_committed_timestamp, waking, signalled,
                   write_timestamp, otherVars, togo, at, pc, held>>

\* lock_is_free returns to request_done, or to the loop of update_txn_locks.
LockIsFreeReturns(a) ==
    IF pc[a] = "dequeue"
    THEN Inside(a, "leave") /\ UNCHANGED <<togo, at>>
    ELSE Passes(a, at[a])

\* No writer is in the queue ...
NextIsNone(a) ==
    /\ Frees(a, "next")
    /\ queued_writers[at[a]] = <<>>
    /\ LockIsFreeReturns(a)
    /\ UNCHANGED <<stateVars, waking, signalled, write_timestamp, otherVars,
                   pc, held>>

\* ... or the first one is taken from it, ...
NextWriter(a) ==
    /\ Frees(a, "next")
    /\ queued_writers[at[a]] # <<>>
    /\ RemoveFirstWriter(a, at[a])
    /\ Inside(a, "reserve")
    /\ UNCHANGED <<locks, lock_holder, holder_timestamp, reservation,
                   waiting_readers, last_committed_timestamp, signalled,
                   write_timestamp, otherVars, togo, at, pc, held>>

\* ... gets the reservation ...
ReserveNext(a) ==
    /\ Frees(a, "reserve")
    /\ \E g \in waking[a] : ClaimReservation(at[a], g)
    /\ Inside(a, "signal")
    /\ UNCHANGED <<locks, lock_holder, holder_timestamp, queued_writers,
                   waiting_readers, last_committed_timestamp, waking, signalled,
                   otherVars, togo, at, pc, held>>

\* ... and a message.
SignalNext(a) ==
    /\ Frees(a, "signal")
    /\ waking[a] \cap signalled = {}
    /\ signalled' = signalled \cup waking[a]
    /\ waking' = [waking EXCEPT ![a] = {}]
    /\ LockIsFreeReturns(a)
    /\ UNCHANGED <<stateVars, write_timestamp, otherVars, pc, held>>
-----------------------------------------------------------------------------
(* finish_req and request_done *)

\* Task a dequeues its guard, and is at this place of request_done.
Dequeues(a, place) == pc[a] = "dequeue" /\ lock_pc[a] = place

\* The guard has not reserved the next key ...
Dequeue(a) ==
    /\ Dequeues(a, None)
    /\ \E k \in togo[a] :
          /\ reservation[k] # guard[a]
          /\ at' = [at EXCEPT ![a] = k]
    /\ Inside(a, "leave")
    /\ UNCHANGED <<stateVars, waking, signalled, write_timestamp, otherVars,
                   togo, pc, held>>

\* ... or it has and gives its reservation up, for lock_is_free.
DequeueReserved(a) ==
    /\ Dequeues(a, None)
    /\ \E k \in togo[a] :
          /\ reservation[k] = guard[a]
          /\ reservation' = [reservation EXCEPT ![k] = None]
          /\ at' = [at EXCEPT ![a] = k]
    /\ Inside(a, "check")
    /\ UNCHANGED <<locks, lock_holder, holder_timestamp, queued_writers,
                   waiting_readers, last_committed_timestamp, waking, signalled,
                   write_timestamp, otherVars, togo, pc, held>>

\* Then it leaves the queues of the key, if it is in one.
LeaveQueues(a) ==
    /\ Dequeues(a, "leave")
    /\ Leave(at[a], guard[a])
    /\ Passes(a, at[a])
    /\ UNCHANGED <<locks, lock_holder, holder_timestamp, reservation,
                   last_committed_timestamp, waking, signalled,
                   write_timestamp, otherVars, pc, held>>
-----------------------------------------------------------------------------
(* The answer *)

AtReturn(a) == Dequeues(a, None) /\ togo[a] = {}

\* Answers after which InternalDB comes to a todo!(), or TaskQueue unwraps.
AnswerPanics(a) ==
    \/ request[a].op = "get" /\ result[a] \in {"ABORTED", "COMMITTED"}
    \/ request[a].op = "commit" /\ result[a] = "COMMITTED"
    \/ a \in Reapers(Txn(a)) /\ result[a] # "ok"

ForgetRequest(a) ==
    /\ request' = [request EXCEPT ![a] = None]
    /\ spans' = [spans EXCEPT ![a] = {}]
    /\ guard' = [guard EXCEPT ![a] = None]
    /\ keys' = [keys EXCEPT ![a] = {}]
    /\ at' = [at EXCEPT ![a] = None]
    /\ pushee' = [pushee EXCEPT ![a] = None]
    /\ result' = [result EXCEPT ![a] = None]

\* The request ends; an abort of the task queue lets the pusher go on.
Return(a) ==
    /\ AtReturn(a)
    /\ result[a] # "intent"
    /\ ~AnswerPanics(a)
    /\ ForgetRequest(a)
    /\ LET waiter == {b \in Tasks : pc[b] = "await" /\ awaited[b] = a}
       IN  /\ pc' = [b \in Tasks |-> IF b = a THEN "idle"
                                    ELSE IF b \in waiter THEN "push" ELSE pc[b]]
           /\ togo' = [b \in Tasks |->
                         IF b \in waiter THEN togo[b] \ {at[b]} ELSE togo[b]]
           /\ awaited' = [b \in Tasks |->
                            IF b \in waiter THEN None ELSE awaited[b]]
    /\ UNCHANGED <<lockVars, txnVars, todo, waiting_pushes, released,
                   releasing, held>>

ReturnPanics(a) ==
    /\ AtReturn(a)
    /\ AnswerPanics(a)
    /\ Panics(a)
    /\ UNCHANGED <<lockVars, txnVars, loopVars, todo, queueVars, request,
                   spans, held>>

\* handle_write_intent_error: an intent of an aborted transaction is deleted,
\* and the request starts again.
Retry(a) ==
    LET k == request[a].key
    IN  /\ AtReturn(a)
        /\ result[a] = "intent"
        /\ IF status[pushee[a]] = "ABORTED"
           THEN DeleteIntents({k}) ELSE UNCHANGED intent
        /\ Ends(a, None)
        /\ pushee' = [pushee EXCEPT ![a] = None]
        /\ Goto(a, "latch")
        /\ UNCHANGED <<lockVars, status, commit_timestamp, lock_spans,
                       read_set, max_read, guard, keys, togo, at, todo,
                       queueVars, request, spans, held>>
-----------------------------------------------------------------------------
Sequence(a) ==
    \/ ScanStarts(a) \/ ScanSkips(a) \/ ScanLooks(a) \/ ScanUnwrapPanics(a)
    \/ ScanConflicts(a) \/ ScanPasses(a) \/ ScanFindsFree(a)
    \/ ScanReserves(a) \/ ScanWaits(a) \/ ScanEnds(a)

Wait(a) ==
    \/ WaitEnds(a) \/ WaitTimesOut(a)
    \/ PushSkips(a) \/ PushUnwrapPanics(a) \/ PushStarts(a) \/ PushesEnd(a)
    \/ EnqueueAndPush(a) \/ PushReleased(a) \/ PushFails(a)
    \/ PushFindsCycle(a) \/ PushPanics(a)

Execute(a) ==
    \/ PutMeetsIntent(a) \/ PutIntentPanics(a) \/ PutLockPanics(a) \/ Put(a)
    \/ GetMeetsIntent(a) \/ Get(a)
    \/ CommitFindsAborted(a) \/ CommitCannotRefresh(a) \/ CommitRefreshes(a)
    \/ Commit(a)
    \/ AbortFindsCommitted(a) \/ AbortProceeds(a) \/ Abort(a) \/ AbortIntents(a)
    \/ UpdateTxnLocks(a) \/ UnlockSkips(a) \/ Unlock(a)
    \/ FinalizeFindsNone(a) \/ Finalize(a) \/ ReleasePush(a) \/ FinalizeEnds(a)

LockIsFree(a) ==
    \/ CheckFree(a) \/ CheckPanics(a) \/ CopyReaders(a) \/ WakeReader(a)
    \/ ClearReaders(a) \/ NextIsNone(a) \/ NextWriter(a) \/ ReserveNext(a)
    \/ SignalNext(a)

Answer(a) ==
    \/ Dequeue(a) \/ DequeueReserved(a) \/ LeaveQueues(a)
    \/ Return(a) \/ ReturnPanics(a) \/ Retry(a)

Next ==
    \/ \E t \in Txns : Issue(t)
    \/ \E a \in Tasks :
          \/ Sequence(a) \/ Wait(a) \/ Execute(a) \/ LockIsFree(a) \/ Answer(a)

Spec == Init /\ [][Next]_vars
-----------------------------------------------------------------------------
Labels == {"idle", "latch", "scan", "wait", "push", "enqueue", "pushing", "await",
           "eval", "commit", "abort", "delete", "release", "unlock", "finalize",
           "dequeue", "panicked"}

LockLabels == {"reserved", "unreserved", "conflict", "claim", "check", "copy",
               "wake", "next", "reserve", "signal", "leave"}

\* A task that is in no method of a lock is at none of these places.
ASSUME LockLabelsAssumption == None \notin LockLabels

Statuses == {"PENDING", "COMMITTED", "ABORTED"}

Results == {"ok", "intent", "refresh", "ABORTED", "COMMITTED"}

Intents == [txn : Txns, write_timestamp : Nat]

\* Every variable has its type.
TypeOK ==
    /\ locks \subseteq Keys
    /\ lock_holder \in [Keys -> Txns \cup {None}]
    /\ holder_timestamp \in [Keys -> Nat]
    /\ reservation \in [Keys -> Guards \cup {None}]
    /\ queued_writers \in [Keys -> Seq(Guards)]
    /\ waiting_readers \in [Keys -> SUBSET Guards]
    /\ last_committed_timestamp \in [Keys -> Nat]
    /\ signalled \subseteq Guards
    /\ lock_pc \in [Tasks -> LockLabels \cup {None}]
    /\ waking \in [Tasks -> SUBSET Guards]
    /\ write_timestamp \in [Txns -> Nat]
    /\ todo \in [Txns -> Seq(Requests)]
    /\ status \in [Txns -> Statuses]
    /\ commit_timestamp \in [Txns -> Nat]
    /\ lock_spans \in [Txns -> SUBSET Keys]
    /\ read_set \in [Txns -> SUBSET Keys]
    /\ intent \in [Keys -> Intents \cup {None}]
    /\ max_read \in [Keys -> Nat]
    /\ waiting_pushes \subseteq Tasks \X Txns
    /\ released \subseteq Tasks \X Txns
    /\ pc \in [Tasks -> Labels]
    /\ request \in [Tasks -> Requests \cup {None}]
    /\ spans \in [Tasks -> SUBSET Keys]
    /\ held \in [Tasks -> SUBSET Keys]
    /\ guard \in [Tasks -> Guards \cup {None}]
    /\ keys \in [Tasks -> SUBSET Keys]
    /\ togo \in [Tasks -> SUBSET Keys]
    /\ at \in [Tasks -> Keys \cup {None}]
    /\ pushee \in [Tasks -> Txns \cup {None}]
    /\ awaited \in [Tasks -> Tasks \cup {None}]
    /\ releasing \in [Tasks -> SUBSET (Tasks \X Txns)]
    /\ result \in [Tasks -> Results \cup {None}]

\* A transaction is finalized once: its record never changes from committed to
\* aborted or back.  Both requests read the record before they write it; what
\* keeps the abort of a deadlock victim from slipping between the check and the
\* write of its commit are the latches, whose spans always have a key in common.
FinalStatusIsFinal ==
    [][\A t \in Txns : status[t] # "PENDING" => status'[t] = status[t]]_vars

\* Two-phase locking: "the only way to release the lock is when the transaction
\* aborts or commits" (mdbook, lock_table.md).  No other request, timeout, push
\* or panic takes a lock away from a pending transaction.
LocksHeldUntilFinalized ==
    [][\A k \in Keys, t \in Txns :
          lock_holder[k] = t /\ lock_holder'[k] # t
              => status[t] # "PENDING"]_vars

\* A transaction knows the locks it holds, so that its commit or abort finds
\* them all, and a deadlock victim has a span to latch.
HolderIsSpanned ==
    \A k \in Keys : lock_holder[k] # None => k \in lock_spans[lock_holder[k]]

\* Once the commit of a transaction has released its locks, none of its locks
\* and none of its intents is left, whatever aborts were asked for meanwhile.
CommitReleases ==
    \A t \in Txns :
        status[t] = "COMMITTED"
          /\ pc[Client(t)] \notin {"release", "unlock", "panicked"}
          => \A k \in Keys :
                lock_holder[k] # t /\ (intent[k] # None => intent[k].txn # t)

\* A put that waits is in the queue of its key, or has its wake-up waiting in the
\* channel, or is about to get it from a task that has taken it from the queue: no
\* wake-up of a writer is lost between scan_and_enqueue, which runs under latches,
\* and lock_is_free, which takes several steps and may run without latches and twice
\* at a time.  (Readers have no such guarantee: clear_readers drops those who have
\* come since the others were copied.)
WritersAreWoken ==
    \A a \in Tasks : pc[a] = "wait" /\ ~ReadOnly(request[a]) =>
        \/ guard[a] \in signalled \cup Range(queued_writers[request[a].key])
        \/ \E b \in Tasks : /\ Frees(b, "reserve") \/ Frees(b, "signal")
                            /\ at[b] = request[a].key /\ guard[a] \in waking[b]

\* A guard is in one queue at most, and there once.
QueuedOnce ==
    /\ \A k \in Keys : /\ IsInjective(queued_writers[k])
                       /\ Range(queued_writers[k]) \cap waiting_readers[k] = {}
    /\ \A k, l \in Keys : \A g \in Guards :
          Queued(g, k) /\ Queued(g, l) => k = l

\* The first writer in a queue has its channel empty, and still has when its turn has
\* come.  The channel takes one message, and done_waiting_at_lock would wait forever,
\* with latches held, to send another.  (A reader that two tasks have copied is sent
\* two.)
WriterWakeupFits ==
    /\ \A k \in Keys : Range(queued_writers[k]) \cap signalled = {}
    /\ \A a \in Tasks : Frees(a, "reserve") \/ Frees(a, "signal") =>
          waking[a] \cap signalled = {}

\* finalize_txn never waits for room in the channel of a push, which takes one
\* message, with the latches of the transaction held: the pusher may be waiting for
\* an answer of the task queue instead, or be gone.  Two tasks that finalize the
\* same transaction release and remove its pushes one after the other.
ReleaseFits == \A a \in Tasks : releasing[a] \cap released = {}

\* A push on a pending transaction is in the queue, where get_transitive_dependents
\* finds it, and has no message: whatever else is finalized, it is neither released
\* early nor removed, and no cycle of waiting transactions goes unseen for that.
PushesAreKept ==
    \A a \in Tasks : pc[a] = "pushing" /\ status[pushee[a]] = "PENDING" =>
        <<a, pushee[a]>> \in waiting_pushes \ released

\* "There could be waiters, but there cannot be a reservation" when update_locks
\* calls lock_is_free (its comment).
ReleasedIsUnreserved ==
    \A a \in Tasks :
        pc[a] = "unlock" /\ lock_pc[a] = "check" => reservation[at[a]] = None

\* "If there is a lock holder, then there is an unresolved uncommitted intent"
\* (mdbook, lock_table.md): the intent of a pending holder is in the store.
HolderHasIntent ==
    \A k \in Keys :
        lock_holder[k] # None /\ status[lock_holder[k]] = "PENDING" =>
            intent[k] # None /\ intent[k].txn = lock_holder[k]

\* dequeue "needs to be called when the request is finished, whether it was
\* evaluated or not": a task without a request is in no queue and has reserved
\* nothing.
FinishedIsDequeued == \A g \in Guards : pc[g[1]] = "idle" => ~AtLock(g)
=============================================================================
