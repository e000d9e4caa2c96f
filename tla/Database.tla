------------------------------ MODULE Database ------------------------------
(***************************************************************************)
(* Transactions over the multi-version store, the lock table and the       *)
(* timestamp oracle: what the clients of db/db.rs see.                     *)
(*                                                                         *)
(* Each request is one step: Executor shows how latches and locks          *)
(* sequence the steps inside it.  What Executor leaves open is here: the   *)
(* values that reads return, the timestamps of writes and commits, and the *)
(* read refresh.  A blocked read, commit or abort is a step that is not    *)
(* enabled; a blocked write queues at the lock of its key.  Timeouts and   *)
(* the requests of deadlock victims after their abort are in Executor.     *)
(*                                                                         *)
(* Time is the logical part of the database's clock, whose wall time is    *)
(* fixed (Clock::manual).                                                  *)
(***************************************************************************)
EXTENDS MVCC, IntervalTree, Queues

CONSTANTS
    Txns,           \* the transactions
    Keys,           \* the keys, numbered from 1 in their order
    None,           \* Option::None, and the writer of what was there before
    Programs,       \* the requests of each transaction: a set of functions
    Beginnings,     \* pairs of the keys that were committed before and the
                    \* time when the transactions start
    MaxReads        \* bound: the reads that the oracle has seen when a read
                    \* that meets an intent is tried again

ASSUME KeysAssumption == Keys \subseteq Nat \ {0}

ASSUME NoneAssumption == None \notin Txns

ASSUME BeginningsAssumption ==
    /\ Beginnings \subseteq (SUBSET Keys) \X (Nat \ {0})
    /\ \A b \in Beginnings : IsFiniteSet(b[1])

\* Get, Put, CommitTxn and AbortTxn
Requests == [op : {"get", "put"}, key : Keys]
            \cup [op : {"commit", "abort"}, key : {None}]

\* A client writes nothing more in a transaction whose commit or abort it has
\* asked for (DB::run_txn).
ASSUME ProgramsAssumption ==
    /\ Programs \subseteq [Txns -> Seq(Requests)]
    /\ \A p \in Programs : \A t \in Txns : \A i, j \in DOMAIN p[t] :
           i < j /\ p[t][i].op \in {"commit", "abort"} => p[t][j].op # "put"

VARIABLES
    program,                    \* the requests of each transaction
    step,                       \* the next one
    clock,                      \* InternalDB::clock
    status,                     \* the transaction records, "NEW" without one
    read_timestamp,             \* Txn
    write_timestamp,            \* Txn
    lock_spans,                 \* Txn
    read_set,                   \* Txn (a key is listed once)
    store,                      \* KVStore
    oracle,                     \* TimestampOracle
    locks,                      \* the keys that have a LockState
    lock_holder,                \* LockState
    holder_timestamp,           \* the write timestamp in lock_holder
    reservation,                \* LockState
    queued_writers,             \* LockState
    last_committed_timestamp,   \* LockState, 0 for None
    panicked,                   \* transactions whose commit has panicked
    reads                       \* history: what each transaction has read

clientVars == <<program, step>>

txnVars == <<status, read_timestamp, write_timestamp, lock_spans, read_set>>

lockVars == <<locks, lock_holder, holder_timestamp, reservation,
              queued_writers, last_committed_timestamp>>

vars == <<clientVars, clock, txnVars, store, oracle, lockVars, panicked, reads>>
-----------------------------------------------------------------------------
(* Requests.                                                               *)

IsWaiting(t) == \E k \in Keys : t \in Range(queued_writers[k])

Request(t) == program[t][step[t]]

\* Mutant: a request that has queued may be made once more.
AtThoughWaiting(t, op) ==
    /\ status[t] # "NEW"
    /\ t \notin panicked
    /\ step[t] <= Len(program[t])
    /\ Request(t).op = op

\* The next request of t's client is of kind op.
At(t, op) ==
    /\ status[t] # "NEW"
    /\ t \notin panicked
    /\ step[t] <= Len(program[t])
    /\ Request(t).op = op
    /\ ~IsWaiting(t)

Returns(t) == step' = [step EXCEPT ![t] = @ + 1] /\ UNCHANGED program

\* dedupe_spanset: the first of each key stays.
Deduped(spans) ==
    LET kept[i \in 0..Len(spans)] ==
            IF i = 0 THEN <<>>
            ELSE IF spans[i] \in Range(kept[i - 1]) THEN kept[i - 1]
            ELSE Append(kept[i - 1], spans[i])
    IN  kept[Len(spans)]

\* collect_spans of commit and abort
Spans(t) == Deduped(lock_spans[t] \o read_set[t])

\* A commit that panics never releases its latches.
IsLatched(k) == \E t \in panicked : k \in Range(Spans(t))

\* try_active_wait of a read-only request
ReaderWaits(t, k) ==
    /\ lock_holder[k] \notin {None, t}
    /\ reservation[k] # t
    /\ read_timestamp[t] >= holder_timestamp[k]

\* sequence_req lets a read-only request for the keys in S pass.
ReaderPasses(t, S) == \A k \in S : ~IsLatched(k) /\ ~ReaderWaits(t, k)

\* try_active_wait of a write: a lock that is free is reserved ...
Reserves(k) == k \in locks /\ lock_holder[k] = None /\ reservation[k] = None

\* ... and one that another transaction holds or has reserved is waited for.
WriterWaits(t, k) ==
    /\ k \in locks
    /\ ~Reserves(k)
    /\ t \notin {lock_holder[k], reservation[k]}

\* update_cache
UpdateCache(t, spans) ==
    LET added[i \in 0..Len(spans)] ==
            IF i = 0 THEN oracle
            ELSE InsertNode(added[i - 1], spans[i], spans[i], read_timestamp[t])
    IN  added[Len(spans)]
-----------------------------------------------------------------------------
(* Operations.                                                             *)

\* The keys of P were written by a transaction that has committed at time 1.
Init ==
    \E b \in Beginnings : LET P == b[1] IN
        /\ program \in Programs
        /\ step = [t \in Txns |-> 1]
        /\ clock = b[2]
        /\ status = [t \in Txns |-> "NEW"]
        /\ read_timestamp = [t \in Txns |-> 0]
        /\ write_timestamp = [t \in Txns |-> 0]
        /\ lock_spans = [t \in Txns |-> <<>>]
        /\ read_set = [t \in Txns |-> <<>>]
        /\ store = [e \in P \X {1} |-> Entry(None, 1)]
        /\ LET added[k \in 0..Max({0} \cup P)] ==
                   IF k = 0 THEN EmptyTree
                   ELSE IF k \in P THEN InsertNode(added[k - 1], k, k, 1)
                   ELSE added[k - 1]
           IN  oracle = added[Max({0} \cup P)]
        /\ locks = P
        /\ lock_holder = [k \in Keys |-> None]
        /\ holder_timestamp = [k \in Keys |-> 0]
        /\ reservation = [k \in Keys |-> None]
        /\ queued_writers = [k \in Keys |-> <<>>]
        /\ last_committed_timestamp = [k \in Keys |-> IF k \in P THEN 1 ELSE 0]
        /\ panicked = {}
        /\ reads = [t \in Txns |-> {}]

\* begin_txn: create_txn_internal and BeginTxnRequest
Begin(t) ==
    /\ status[t] = "NEW"
    /\ clock' = clock + 1
    /\ status' = [status EXCEPT ![t] = "PENDING"]
    /\ read_timestamp' = [read_timestamp EXCEPT ![t] = clock']
    /\ write_timestamp' = [write_timestamp EXCEPT ![t] = clock']
    /\ UNCHANGED <<clientVars, lock_spans, read_set, store, oracle, lockVars,
                   panicked, reads>>

\* The intent that makes a read fail: another transaction's, at or below the
\* read timestamp.
Conflicts(t, e) ==
    store[e].txn # t /\ store[e].ts <= read_timestamp[t]

\* Mutant: a read takes any intent it may pass for its own.
GetValueOfAnyone(t, res) == res.value \cup res.intent

\* Mutant: a read passes over the transaction's own intent.
GetValueCommitted(t, res) == res.value

\* The entry whose value a read returns, as a set: the transaction's own intent
\* or a version.
GetValue(t, res) ==
    res.value \cup {e \in res.intent : store[e].txn = t}

\* GetRequest
Get(t) ==
    LET k == Request(t).key
    IN  /\ At(t, "get")
        /\ ReaderPasses(t, {k})
        /\ \E res \in {MvccGet(store, k, read_timestamp[t])} :
               /\ \A e \in res.intent : ~Conflicts(t, e)
               /\ reads' = [reads EXCEPT ![t] = @ \cup
                      {[key |-> k, value |-> {<<store[e].txn, e[1]>> :
                                                 e \in GetValue(t, res)}]}]
        /\ read_set' = IF k \in Range(read_set[t]) THEN read_set
                       ELSE [read_set EXCEPT ![t] = Append(@, k)]
        /\ oracle' = UpdateCache(t, <<k>>)
        /\ Returns(t)
        /\ UNCHANGED <<clock, status, read_timestamp, write_timestamp,
                       lock_spans, store, lockVars, panicked>>

\* GetRequest meets an intent that it has to wait for, though the lock table let
\* it pass: past the end of the store, the intent of another key.  It is tried
\* again, and the oracle has seen a read.
GetMeetsIntent(t) ==
    LET k == Request(t).key
    IN  /\ At(t, "get")
        /\ ReaderPasses(t, {k})
        /\ \E e \in MvccGet(store, k, read_timestamp[t]).intent :
               Conflicts(t, e)
        /\ Len(oracle.nodes) < MaxReads
        /\ oracle' = UpdateCache(t, <<k>>)
        /\ UNCHANGED <<clientVars, clock, txnVars, store, lockVars, panicked,
                       reads>>

\* The write timestamp after sequence_req has reserved the lock
\* (bump_txn_write_timestamp) and execute_write_request has asked the oracle.
PutTimestamp(t, k) ==
    LET last == last_committed_timestamp[k]
        reserved == IF Reserves(k) /\ last # 0 THEN last + 1
                    ELSE write_timestamp[t]
    IN  Max({reserved, GetMaxTimestamp(oracle, k, k)})

\* PutRequest: mvcc_put_raw, acquire_lock and append_lock_span
Put(t) ==
    LET k == Request(t).key
        ts == PutTimestamp(t, k)
    IN  /\ At(t, "put")
        /\ ~IsLatched(k)
        /\ ~WriterWaits(t, k)
        /\ \A v \in UncommittedValue(store, k) : v.txn = t
        /\ write_timestamp' = [write_timestamp EXCEPT ![t] = ts]
        /\ store' = PutIntent(store, k, t, ts)
        /\ locks' = locks \cup {k}
        /\ lock_holder' = [lock_holder EXCEPT ![k] = t]
        /\ holder_timestamp' = [holder_timestamp EXCEPT ![k] = ts]
        /\ reservation' = [reservation EXCEPT ![k] = None]
        /\ lock_spans' = IF k \in Range(lock_spans[t]) THEN lock_spans
                         ELSE [lock_spans EXCEPT ![t] = Append(@, k)]
        /\ Returns(t)
        /\ UNCHANGED <<clock, status, read_timestamp, read_set, oracle,
                       queued_writers, last_committed_timestamp, panicked,
                       reads>>

PutWaits(t) ==
    LET k == Request(t).key
    IN  /\ At(t, "put")
        /\ ~IsLatched(k)
        /\ WriterWaits(t, k)
        /\ queued_writers' = [queued_writers EXCEPT ![k] = Append(@, t)]
        /\ UNCHANGED <<clientVars, clock, txnVars, store, oracle, locks,
                       lock_holder, holder_timestamp, reservation,
                       last_committed_timestamp, panicked, reads>>

\* update_txn_locks: the locks of t are freed, and the first writer queued for
\* each gets the reservation and, after a commit at time ts (0 for an abort) or
\* an earlier one, a new write timestamp.  A victim also leaves the queue where it
\* waits.  A transaction waits for one key at a time.
ReleaseLocks(t, ts) ==
    LET queue == [k \in Keys |-> Without(queued_writers[k], t)]
        freed == {k \in Range(lock_spans[t]) : lock_holder[k] = t}
        woken == {k \in freed : queue[k] # <<>>}
        last == [k \in Keys |-> IF k \in freed /\ ts # 0 THEN ts
                                ELSE last_committed_timestamp[k]]
        Bumps(k, u) == u = Head(queue[k]) /\ last[k] # 0
    IN  /\ lock_holder' = [k \in Keys |-> IF k \in freed THEN None
                                          ELSE lock_holder[k]]
        /\ reservation' = [k \in Keys |-> IF k \in woken
                                          THEN Head(queue[k])
                                          ELSE reservation[k]]
        /\ queued_writers' = [k \in Keys |-> IF k \in woken THEN Tail(queue[k])
                                             ELSE queue[k]]
        /\ write_timestamp' =
               [u \in Txns |-> IF \E k \in woken : Bumps(k, u)
                               THEN last[CHOOSE k \in woken : Bumps(k, u)] + 1
                               ELSE write_timestamp[u]]
        /\ last_committed_timestamp' = last
        /\ UNCHANGED <<locks, holder_timestamp>>

\* refresh_read_timestamp, which moves neither timestamp.
Refreshes(t) ==
    \A k \in Range(read_set[t]) :
        \E res \in {MvccGet(store, k, write_timestamp[t])} :
            /\ \A e \in res.value : e[2] >= read_timestamp[t]
            /\ \A e \in res.intent :
                   store[e].txn = t \/ store[e].ts >= write_timestamp[t]

AtCommit(t) ==
    /\ At(t, "commit")
    /\ status[t] = "PENDING"
    /\ ReaderPasses(t, Range(Spans(t)))

\* CommitTxnRequest
Commit(t) ==
    /\ AtCommit(t)
    /\ Refreshes(t)
    /\ lock_spans[t] = <<>> \/ Encodable(write_timestamp[t])
    /\ status' = [status EXCEPT ![t] = "COMMITTED"]
    /\ store' = ResolveIntents(store, Range(lock_spans[t]), t,
                               write_timestamp[t])
    /\ ReleaseLocks(t, write_timestamp[t])
    /\ oracle' = UpdateCache(t, Spans(t))
    /\ Returns(t)
    /\ UNCHANGED <<clock, read_timestamp, lock_spans, read_set, panicked, reads>>

\* Mutant: a commit whose refresh has failed gives its locks up.
CommitFailsReleasing(t) ==
    /\ AtCommit(t)
    /\ ~Refreshes(t)
    /\ oracle' = UpdateCache(t, Spans(t))
    /\ ReleaseLocks(t, 0)
    /\ Returns(t)
    /\ UNCHANGED <<clock, status, read_timestamp, lock_spans, read_set, store,
                   panicked, reads>>

\* The read refresh fails: locks and intents stay, whether the client calls
\* abort_txn next or run_txn begins another transaction.
CommitFails(t) ==
    /\ AtCommit(t)
    /\ ~Refreshes(t)
    /\ oracle' = UpdateCache(t, Spans(t))
    /\ Returns(t)
    /\ UNCHANGED <<clock, txnVars, store, lockVars, panicked, reads>>

\* The key of the first version cannot be encoded: its intent is deleted, and
\* mvcc_resolve_intent panics with the record committed and the latches held.
CommitPanics(t) ==
    /\ AtCommit(t)
    /\ Refreshes(t)
    /\ lock_spans[t] # <<>> /\ ~Encodable(write_timestamp[t])
    /\ status' = [status EXCEPT ![t] = "COMMITTED"]
    /\ store' = DeleteIntents(store, {Head(lock_spans[t])})
    /\ panicked' = panicked \cup {t}
    /\ UNCHANGED <<clientVars, clock, read_timestamp, write_timestamp,
                   lock_spans, read_set, oracle, lockVars, reads>>

\* What AbortTxnRequest does to a transaction that has not committed.
Aborted(t) ==
    /\ status' = [status EXCEPT ![t] = "ABORTED"]
    /\ store' = DeleteIntents(store, Range(lock_spans[t]))
    /\ ReleaseLocks(t, 0)
    /\ oracle' = UpdateCache(t, Spans(t))

\* AbortTxnRequest
Abort(t) ==
    /\ At(t, "abort")
    /\ status[t] = "PENDING"
    /\ ReaderPasses(t, Range(Spans(t)))
    /\ Aborted(t)
    /\ Returns(t)
    /\ UNCHANGED <<clock, read_timestamp, lock_spans, read_set, panicked, reads>>

\* An abort after the commit changes nothing.
AbortFindsCommitted(t) ==
    /\ At(t, "abort")
    /\ status[t] = "COMMITTED"
    /\ ReaderPasses(t, Range(Spans(t)))
    /\ oracle' = UpdateCache(t, Spans(t))
    /\ Returns(t)
    /\ UNCHANGED <<clock, txnVars, store, lockVars, panicked, reads>>

\* The keys that a read-only request of t reads.
ReadKeys(t) ==
    IF At(t, "get") THEN {Request(t).key}
    ELSE IF At(t, "commit") \/ At(t, "abort") THEN Range(Spans(t))
    ELSE {}

\* t waits for u.
WaitsFor(t, u) ==
    \E k \in Keys :
        \/ k \in ReadKeys(t) /\ ReaderWaits(t, k) /\ u = lock_holder[k]
        \/ /\ t \in Range(queued_writers[k])
           /\ u \in {lock_holder[k], reservation[k]}

InCycle(t) ==
    \E S \in SUBSET Txns :
        /\ t \in S
        /\ \A u \in S : /\ \E v \in S : WaitsFor(u, v)
                        /\ \E v \in S : WaitsFor(v, u)

\* A pusher finds a cycle and has t aborted (AbortTxnQueueRequest).  The request
\* that t was waiting with fails, and its client gives up.
VictimAborts(t) ==
    /\ InCycle(t)
    /\ ReaderPasses(t, Range(Spans(t)))
    /\ Aborted(t)
    /\ step' = [step EXCEPT ![t] = Len(program[t]) + 1]
    /\ UNCHANGED <<program, clock, read_timestamp, lock_spans, read_set,
                   panicked, reads>>

Next ==
    \E t \in Txns :
        \/ Begin(t)
        \/ Get(t) \/ GetMeetsIntent(t)
        \/ Put(t) \/ PutWaits(t)
        \/ Commit(t) \/ CommitFails(t) \/ CommitPanics(t)
        \/ Abort(t) \/ AbortFindsCommitted(t) \/ VictimAborts(t)

Spec == Init /\ [][Next]_vars
-----------------------------------------------------------------------------
(* Properties.                                                             *)

Statuses == {"NEW", "PENDING", "COMMITTED", "ABORTED"}

\* Type invariant: in particular a lock belongs to a transaction that has begun,
\* a queued writer waits once and for one key, and no write or commit has the
\* timestamp that is reserved for intents.
TypeOK ==
    /\ clock \in Nat \ {0}
    /\ status \in [Txns -> Statuses]
    /\ read_timestamp \in [Txns -> Nat]
    /\ write_timestamp \in [Txns -> Nat]
    /\ \A t \in Txns : status[t] # "NEW" => write_timestamp[t] > 1
    /\ locks \subseteq Keys
    /\ lock_holder \in [Keys -> Txns \cup {None}]
    /\ reservation \in [Keys -> Txns \cup {None}]
    /\ \A k \in Keys : lock_holder[k] = None \/ status[lock_holder[k]] # "NEW"
    /\ \A k \in Keys : IsInjective(queued_writers[k])
    /\ \A k, l \in Keys :
           k # l => Range(queued_writers[k]) \cap Range(queued_writers[l]) = {}
    /\ panicked \subseteq Txns

\* mvcc_get finds the intent of a key, or else its latest version at or below any
\* timestamp, whatever commits, aborts and overwrites have made of the store.
\* (Only the timestamps of versions, and those before them, make a difference.)
GetIsLatest ==
    \A k \in Keys : \A e \in DOMAIN store : \A ts \in {e[2] - 1, e[2]} :
        ts > 0 => GetReturnsLatest(store, k, ts)

\* A transaction reads what it or a committed transaction has written, never the
\* intent of another one, though intents are in the same column family.
NoDirtyReads ==
    \A t \in Txns : \A r \in reads[t] : \A v \in r.value :
        v[1] \in {None, t} \/ status[v[1]] = "COMMITTED"

\* The oracle answers with a timestamp, whatever rotations have made of its tree.
OracleAnswers == \A k \in Keys : GetMaxTimestamp(oracle, k, k) \in Nat

\* The oracle has every read: no write gets a timestamp below one of the key's
\* reads when it is executed.  The early end of the walk through the tree skips
\* no node.
OracleCoversReads ==
    /\ OracleAnswers
    /\ \A t \in Txns : \A k \in Range(read_set[t]) :
           GetMaxTimestamp(oracle, k, k) >= read_timestamp[t]
    /\ \A k \in Keys :
           GetMaxTimestamp(oracle, k, k) =
               Max({0} \cup {n.value : n \in {m \in Range(oracle.nodes) :
                                                 m.start_key = k}})

\* Rotations and recolourings keep the oracle's tree a red-black tree.
OracleIsRedBlack == IsRedBlack(oracle)

\* A transaction takes effect as a whole.  The step in which its record becomes
\* committed (without a panic) makes a version of its own of every key that it has
\* written, all at its write timestamp; after every step, its entries are intents
\* while it is pending and versions once it has committed, and there is no trace of
\* it once it has aborted.  (That its versions stay is not promised here: see
\* CommitsBehind.)
AllOrNothing ==
    [][\A t \in Txns \ panicked' :
          /\ status[t] = "PENDING" /\ status'[t] = "COMMITTED" =>
                \A k \in Range(lock_spans[t]) :
                   \E e \in DOMAIN store' :
                      e = <<k, write_timestamp[t]>> /\ store'[e].txn = t
          /\ \A e \in DOMAIN store' : store'[e].txn = t =>
                status'[t] = IF e[2] = Intent THEN "PENDING" ELSE "COMMITTED"]_vars

\* The lock table and the store agree: the writer of an intent holds the lock of
\* its key, with the intent's timestamp, and a lock that is held has its holder's
\* intent, unless the holder's commit has panicked.  So a read that waits has
\* something to wait for, and one that the lock table lets pass meets no intent at
\* its key that it would have to wait for.
LocksMatchIntents ==
    \A k \in Keys :
        /\ <<k, Intent>> \in DOMAIN store =>
               /\ k \in locks
               /\ lock_holder[k] = store[<<k, Intent>>].txn
               /\ holder_timestamp[k] = store[<<k, Intent>>].ts
        /\ lock_holder[k] \notin panicked \cup {None} =>
               <<k, Intent>> \in DOMAIN store

\* The versions in the store and their writers
CommittedVersions ==
    [e \in {f \in DOMAIN store : f[2] # Intent} |-> store[e].txn]

\* A commit that has panicked leaves a committed record, but no version and its
\* keys latched for good: to the others it is a transaction that has failed.
Promise == INSTANCE Transactions WITH
    status <- [t \in Txns |-> IF t \in panicked THEN "ABORTED" ELSE status[t]],
    writes <- [t \in Txns |-> Range(lock_spans[t])],
    versions <- CommittedVersions

\* The database implements Transactions: a read that meets an uncommitted write
\* "ignores the intent" if its timestamp is bigger "and returns the key with the
\* biggest timestamp less than the read timestamp" (mdbook,
\* dealing_with_anomalies.md), and so on.  It does not: see the deviations.
ImplementsTransactions == Promise!Spec

\* A deviation: t ignores the intent of another transaction at k, which is above
\* its read timestamp, and the versions of k with it.
HidesVersion(t, k) ==
    /\ \E e \in DOMAIN store : /\ e = <<k, Intent>> /\ store[e].txn # t
                             /\ store[e].ts > read_timestamp[t]
    /\ Promise!Answers(t, k, {})

\* A deviation: k is behind all keys of the store, and t is given the value of the
\* final entry, which is not another transaction's intent.
ReadsLastKey(t, k) ==
    /\ DOMAIN store # {}
    /\ LET e == Final(DOMAIN store)
       IN  /\ e[1] < k
           /\ e[2] = Intent => store[e].txn = t
           /\ Promise!Answers(t, k, {<<store[e].txn, e[1]>>})

\* A deviation: a bump has lowered the write timestamp of t, and one of its keys has
\* a later version, or another transaction's at this very timestamp, which is lost.
CommitsBehind(t) ==
    /\ ~Promise!Passes(t, write_timestamp[t])
    /\ Promise!CommitsAt(t, write_timestamp[t])

\* But for the three deviations the database does implement Transactions: intents
\* and their resolution one by one, locks, latches, failed refreshes and panics are
\* atomic commits and private writes to the clients, and every other read finds the
\* latest version or the own write.
KeepsPromises ==
    /\ Promise!Init
    /\ [][\/ Promise!Next
          \/ \E t \in Txns :
                \/ CommitsBehind(t)
                \/ \E k \in Keys : HidesVersion(t, k) \/ ReadsLastKey(t, k)
         ]_(Promise!vars)

Committed == {t \in Txns : status[t] = "COMMITTED"}

InitialValue(k) == IF <<k, 1>> \in DOMAIN store THEN {<<None, k>>} ELSE {}

\* The value of key k after the first n transactions of the serial order s.
ValueAfter(s, n, k) ==
    LET writers == {i \in 1..n : k \in Range(lock_spans[s[i]])}
    IN  IF writers = {} THEN InitialValue(k) ELSE {<<s[Max(writers)], k>>}

\* Order s explains what its transactions have read, and what is left.
Explains(s) ==
    /\ \A i \in DOMAIN s : \A r \in reads[s[i]] :
           \/ r.value = ValueAfter(s, i - 1, r.key)
           \/ r.value = {<<s[i], r.key>>}
    /\ \A k \in Keys :
           {<<store[e].txn, k>> : e \in LatestVersion(store, k, clock + 1)} =
               ValueAfter(s, Len(s), k)

\* The committed transactions are serializable: some order of them, one after the
\* other, gives the same reads and the same final values.  It is what commit
\* timestamps, the oracle and the read refresh are there for.
Serializable ==
    \E s \in [1..Cardinality(Committed) -> Committed] :
        Range(s) = Committed /\ Explains(s)
=============================================================================
