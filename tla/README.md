# A verification of little-key-value-db

little-key-value-db is a transactional key-value store in Rust, built after the
design of CockroachDB: multi-version storage on RocksDB, hybrid timestamps,
latches for requests, locks for transactions, and detection of deadlocks by
pushing transactions. This directory holds TLA+ models of its concurrency
control and its storage, the TLC runs that check them on small instances, and TLAPS proofs of the
most important results for instances of any size.

## 1. The system

Paths are relative to the repository root.

| Component | State | Operations | Used by |
|---|---|---|---|
| Hybrid clock (`src/hlc`) | `latest_timestamp` | `get_timestamp`, `receive_timestamp` | `InternalDB::now_hlc`, `set_time` |
| Latch manager (`src/latch_manager/latch_manager.rs`) | the latch tree | `acquire`, `release` | `sequence_req`, `finish_req` |
| Latch tree (`latch_interval_btree.rs`) | a B+tree of keys with a lock per node | `insert`, `delete` | latch manager |
| Lock table (`src/lock_table/lock_table.rs`) | per key: holder, reservation, queued writers, waiting readers, last commit | `scan_and_enqueue`, `wait_for`, `dequeue`, `acquire_lock`, `update_locks` | concurrency manager, requests |
| Transaction wait queue (`src/txn_wait`) | per pushee: the pushes that wait for it | `enqueue_and_push`, `wait_for_push`, `finalize_txn` | lock table, requests |
| Task queue (`src/db/request_queue.rs`) | a channel of abort requests | spawns one task per request | transaction wait queue |
| Concurrency manager (`src/concurrency`) | latches and locks of each request | `sequence_req`, `finish_req`, `update_txn_locks` | executor |
| Executor and requests (`src/execute`) | per request, on the stack | BeginTxn, Put, Get, CommitTxn, AbortTxn | `InternalDB`, task queue |
| Timestamp oracle (`src/timestamp_oracle`, `src/interval`, `src/llrb`) | an interval tree of reads | `update_cache`, `get_max_timestamp` | executor |
| KVStore (`src/storage/mvcc*.rs`) | records, intents, versions | `mvcc_get`, `mvcc_put_raw`, `mvcc_resolve_intent`, ... | requests |
| Storage and keys (`src/storage/storage.rs`, `mvcc_key.rs`) | RocksDB | put, get, iterate | KVStore |
| DB API (`src/db/db.rs`) | transactions by id, the clock | `begin_txn`, `write`, `read`, `commit_txn`, `abort_txn`, `run_txn` | clients |

A request runs in a task of its own: `sequence_req` takes the latches of its
keys, scans the lock table with a new guard, and either goes on or gives the
latches back and waits for the guard's channel. After a second it pushes the
holders of its keys: it waits in the transaction wait queue until they are
finalized, and if it finds that a holder depends on its own transaction it has
the task queue abort that holder. Then it evaluates under its latches, releases
them, and only after that takes its guard out of the lock table.

What is hard in this:

- the lock table is changed under latches by scans, puts and releases, but
  *without* them by `request_done` and the `lock_is_free` that it calls, which sends
  messages between its reads and its writes;
- a victim of a deadlock is aborted by another task while its own client may be
  committing, writing or aborting it;
- timeouts end waits, and the work done until then stays where it is (queued
  guards) or is undone step by step (latches);
- the latch tree is locked node by node, and a thread has already left a node
  when it locks the next one;
- what a transaction reads, the timestamps its writes are moved to, and whether
  its commit can refresh its reads depend on the store, the lock table and the
  oracle together;
- every `panic!`, `unwrap` and `todo!()` ends a task in the middle of a protocol,
  with latches held and guards queued, while the other tasks go on.

What makes the components correct: the clock is strictly monotone and passes what
it receives; latches are exclusive, never orphaned, and granted in the end; a
transaction is finalized once; locks are held until then and released completely;
no waiting writer misses its wake-up, and its
wake-up always fits into its channel; the latch tree is a set of keys, whatever splits and merges it goes
through; reads see the own write or the latest committed version; transactions take effect as a whole or not at all, and
are serializable; the oracle forgets no read.

`PROJECT.json` lists the components with what is and is not modelled, the hazards
with the lines where they bite, and for every definition the lines it translates.

## 2. The modules

| Module | What it is |
|---|---|
| `HybridClock` | the clock and its timestamps; `MCHybridClock` its instances; `HybridClockProofs` |
| `Latches` | what the latch manager promises: all keys of a request are granted at once, exclusively, and released at once |
| `LatchManager` | how it does it, one key at a time on a set of keys, with timeouts and retries; implements `Latches`; `LatchManagerProofs` |
| `LatchTree` | the same on the B+tree that the code has; EXTENDS `LatchManager` and implements it; `MCLatchTree` |
| `Queues` | how a writer leaves the queue of a lock; `QueueProofs`, lemmas about queues in which nobody is twice |
| `LockTable` | the state of the lock table and its methods as operators; EXTENDS `Queues` |
| `Executor` | the life of requests; EXTENDS `LockTable`, INSTANCE `Latches`; `MCExecutor`, `ExecutorProofs`, `ExecutorLockProofs` |
| `MVCC` | the multi-version store as operators on a function from versioned keys to entries; `MVCCProofs` |
| `IntervalTree` | the interval tree of the oracle, a red-black tree, as operators; `IntervalTreeProofs` |
| `Transactions` | what the book and the tests promise the clients: atomic commits at one timestamp after the versions of their keys, private writes, one writer for each key, reads of the own write or the latest version |
| `Database` | what clients see: values, timestamps and refreshes; EXTENDS `MVCC`, `IntervalTree` and `Queues`; implements `Transactions` but for three stated deviations; `MCDatabase`, `DatabaseProofs` |

**HybridClock.** `GetTimestamp` and `ReceiveTimestamp` are the two calls, each made
under the write lock of the clock. The wall clock may show any time at any moment
(`SystemTimeClock` may be set back). `received` is a history variable.

**LatchManager.** `tree` is the set of keys in the latch tree, `taken` and `freed` are the
positions in the loops of `acquire` and `release`. The senders kept for waiters are never
used, so a wait ends only with `Timeout`; then the keys taken so far are deleted one by one
and the acquisition starts again. A contended key that is not the first of its leaf
panics (`InsertPanics`) and poisons the tree. Which leaf a key is in is left open.

**LatchTree.** `nodes` maps numbers to leaves and internal nodes (keys and edges), `root` is the current root and `poison`
the nodes whose lock a panic has poisoned; `tree` and `poisoned` of `LatchManager` are kept as what the nodes amount to. The
operators are named after the methods: `InsertHelper` with `InsertRange`, `SplitIfFull` and `InsertNode`; `DeleteHelper` with
`DeleteKey`, the four steals, the two merges and `DealWithUnderflow`. Each takes and returns a tree value with a result, one of
which is a panic and one (`stuck`) a thread that waits for a lock it holds itself. `TreeSpec` makes each insert and
delete one step, as on a runtime with one worker thread, because nothing in them awaits. `RacingSpec` is for a runtime
with several: a thread clones the root (`CloneRoot`), descends past safe nodes, which it unlocks before it locks the next one (`Descend`),
and does the rest under the locks it keeps (`Operate`). Numbers of nodes that nothing refers to are used again.

**LockTable and Executor.** A task is `<<t, n>>`: number 0 is the client of
transaction `t`, which makes the requests of its program one after the other, and the others
are the reapers that the task queue spawns to abort `t`. `pc` follows the code:

| `pc` | Code |
|---|---|
| `latch` | before `latch_manager.acquire` in `sequence_req` |
| `scan` | has latches: the loop over the keys in `scan_and_enqueue` |
| `wait` | `wait_for`, at the `select!` of the channel and the 1000 ms sleep |
| `push`, `enqueue`, `pushing`, `await` | the loop over the keys after the timeout; a holder was found, `enqueue_and_push` is next; in the loop of `wait_for_push`; waiting for a reaper |
| `eval` | sequenced, with latches: `execute` of the request |
| `commit`, `abort` | the record was read, and is about to be written |
| `delete`, `release`, `unlock` | an abort deletes its intents; `update_txn_locks` starts; its loop |
| `finalize` | `finalize_txn` has copied the pushes on the transaction: it sends to each and then removes them |
| `dequeue` | `finish_req` without latches: the loop over the keys in `dequeue` |
| `panicked` | the task is gone; its latches and guards stay |

Within `scan`, `unlock` and `dequeue` a task may be in a method of the `LockState` of the key `at`, and `lock_pc` is its place there. Any other task may take steps
in between, which matters because `request_done` has no latches:

| `lock_pc` | Code |
|---|---|
| `reserved`, `unreserved` | `try_active_wait` has read `is_reserved` (line 590); the reservation's transaction is read next, and the `unwrap` panics if the reservation has gone (`ScanUnwrapPanics`) |
| `conflict` | another transaction's reservation, or a holder, was found; `PassesHolder` looks at the holder again, and if it does not let the request pass the guard is queued (`ScanWaits`) |
| `claim` | neither was found: `claim_reservation`, then its signal |
| `leave` | the end of `request_done`: the two `retain` |
| `check` | `lock_is_free` looks for a holder and a reservation, and panics if there is one |
| `copy`, `wake` | it copies `waiting_readers` into `waking`; sends to each, once there is room in its channel, and then clears the list with those who have come since |
| `next` | it takes the first writer out of the queue |
| `reserve`, `signal` | `claim_reservation` for that writer; its signal, once there is room |

One step are only the parts in which nothing is awaited and in which a step in between would make no difference to the other tasks, or which have the read lock of what they depend on; the header of `Executor` lists them.

A guard is `<<task, n>>`, where `n` stands for the UUID that `LockTableGuard::new` draws.
A number is used again only when no queue, no reservation and no task in `lock_is_free` refers to the guard.

Abstractions of `Executor`, and why they are sound for what is checked:

- Latches are those of `Latches`. `LatchManagerImplementsLatches` justifies this; the panics
  of the latch tree are therefore not repeated in `Executor`, they only stop tasks.
- Acquiring latches is one step with drawing the guard of the scan, and the last action under the latches
  is one step with their release. While it has latches a task changes only locks it has latched, with the
  exceptions that are steps of their own: an abort whose transaction has got more lock spans since, and
  `request_done`.
- A put is one step: intent, `acquire_lock` and `append_lock_span`. Nothing is awaited in it, so on one worker thread nothing comes
  in between. With several, a bump of its transaction's write timestamp or a `request_done` of the same key could; the model has them before or after it.
- Spans are single keys, as all requests of the code have them. They are gone through in any order.
- Committed versions are left out. A read refresh may therefore succeed or fail whenever
  the transaction has read something; this includes what the code does. `Database` has the versions.
- The timestamp oracle is the largest read timestamp of each key. `OracleCoversReads` of `Database` shows that
  this is what the interval tree returns.
- The transaction wait queue is a set of pushes, `waiting_pushes`; `released` are those with a message in their channel, which takes one, and `releasing` those that
  a call of `finalize_txn` has still to send to. A push is named by its task and its pushee. A task that pushes the same transaction again gives that name to its new push;
  its earlier one, which nobody listens to, is forgotten. Dependents that a push has remembered from released pushes (`txn_wait_queue.rs`, lines 88-91 and 295-300) are not kept: a task that the code would abort
  for a cycle that is no longer there is not aborted in the model.
- A push that is enqueued after `finalize_txn` has made its copy is removed without a message. In the model, too, it then waits until it fails or panics.
- All transactions have begun. BeginTxn has no spans and waits for nothing; it is an action of `Database`.
- A push may panic at any time, which stands for the 26th turn of the loop in `wait_for_push`.

**MVCC.** A store is a function whose domain is a set of pairs of a key and a timestamp; timestamp 0 is the one of intents. `Before`
is `Storage::compare`. `SeekGe`, `GetCurrentKey` and `MvccGet` follow the iterator, the scanner and `mvcc_get`, with what happens at the end of the
store: an iterator that has found nothing stops at the final entry and is still valid, so the read of a key behind all others is
answered with another key's entry. Values are represented by who wrote them. `Encodable` says for which logical times `MVCCKey::to_string`
does not panic. Scanning several keys, which only tests do, is left out.

**IntervalTree.** The nodes are a sequence, as in the code's vector; the mirrored halves of the code are one definition with the side as a
parameter. `InsertNode` with `FixInsert` and `Rotate` is `insert_node` (`SetChild`, made of `Detach` and `Vacate`, is `set_left` and `set_right`; `TakePlace` the first half of a rotation), `GetOverlap` is the search, `GetMaxTimestamp` the oracle's question.

**Database.** One action per request (`Begin`, `Get`, `Put`, `Commit`, `Abort`) and per way it can end otherwise: a read that meets
an intent the lock table knows nothing of, a write that queues, a failed refresh, a commit that panics because the key of a version
cannot be encoded, an abort after the commit, the abort of a victim. It composes the store, the oracle and the state of the lock table with the
timestamps that each of them gives a write: the one after the last commit of the key when the lock is reserved, then the latest read of the key. The lock table has
one queue per key, and its guards are the transactions, since a transaction makes one request at a time; timeouts, pushes and the requests of
victims after their abort are left to `Executor`, and so is everything inside a request: latches make a request atomic for the keys it touches. The `LockState` of a key
is never removed in the code (the result of `update_locks` is ignored), so `last_committed_timestamp` stays.

**Transactions.** The same clients without locks, latches, intents and the oracle, after `mdbook/src/chapter_3/dealing_with_anomalies.md` and the tests of `db_test.rs`, not after the code. `versions` are the entries of the store that are not intents, with their writers; `writes` are the keys
that a transaction has written, and its status says whether they are private, versions or gone. A commit makes versions of all of them in one step, at one timestamp, and after all versions that their keys have (`Passes`); a read finds the own write, else the latest version at the read timestamp (`Value`), whatever others have yet to commit.

The code does not keep all of this. `ImplementsTransactions`, that it does, is violated (run `database_promise`). What `Database` does keep is `KeepsPromises`: each of its steps is a step of `Transactions` or one of three deviations, which are stated with the condition under which the code makes them:

- `HidesVersion`: a read meets an intent above its timestamp, ignores it and is answered with nothing, while the book says it "returns the key with the biggest timestamp less than the read timestamp". This is the finding of `database_promise`.
- `ReadsLastKey`: a read of a key behind all keys of the store is answered with the final entry, of another key (`seek_ge` leaves the iterator there). `mvcc.rs`, line 64, says that `mvcc_get` returns the most recent value of the key asked for.
- `CommitsBehind`: a commit at a timestamp that is not after the versions of its keys, because `bump_txn_write_timestamp` lowers write timestamps (`lock_table.rs`, line 539). The book says that a write has "to advance its timestamp past the committed write intent's timestamp". Such a commit may
  overwrite the version of another transaction.

A commit that panics while it resolves its intents leaves a record that says COMMITTED, no versions, and its keys latched for good; to the others, and so in `Transactions`, this is an abort. Which of the timestamps after the versions a commit gets is left open, so `Transactions` says nothing of serializability, which the code does not provide either.

## 3. The runs

| Run | Shows |
|---|---|
| `hybrid_clock` | as `set_time` and `now_hlc` drive it, the clock is strictly monotone and past every time it was set to, even if the wall clock is set back |
| `hybrid_clock_receive` | *violated:* for arbitrary incoming timestamps it may not pass what it received |
| `latch_manager` | on the B+tree with one worker thread: latches are exclusive and never orphaned, every latched key is found, `LatchManager` and `Latches` are implemented, and every request whose keys are in order is granted unless the tree is poisoned |
| `latch_manager_panic` | *violated:* a request that meets a latched key may panic instead of waiting |
| `latch_tree_race` | *violated:* with several worker threads two clients may have the same latch |
| `executor` | two transactions, every pair of four programs, and three that contend for a key, one of which may write on after its abort: types, final records, two-phase locking, complete release, guards in one queue at most, no lost or blocking wake-up of a writer, pushes released once and kept until then |
| `executor_victim_commits` | *violated:* the commit of a deadlock victim frees locks that others have reserved, and panics |
| `executor_abort_twice` | *violated:* the abort of a deadlock victim deletes the intent of the transaction that came after it |
| `executor_dequeue` | *violated:* a guard of an earlier scan stays queued after its request has ended |
| `database` | three transactions, every combination of four programs: reads find the latest version and never another one's intent, the commit step makes versions of its own of all writes, locks and intents agree, the oracle's tree is a red-black tree and has every read, and the promise of `Transactions` is broken in three ways only |
| `database_promise` | *violated:* a read that ignores an intent is answered with nothing instead of the version below it |
| `database_serializable` | *violated:* two transactions may commit with a write skew |

The violated properties quote a comment, a test or a page of the book; the findings
in `PROJECT.json` say where the code departs from it.

Every other property holds with a mutant of the code that breaks it: a dropped check, a
missing assignment, a swapped order. The mutants stand before the definitions they mutate, marked
`Mutant:`.

### Bounds

- `MaxLogical = 4`, wall times 1..4: all orders and ties of the three wall times that
  `receive_timestamp` compares occur, with logical times below, at and above each other.
- `LatchTree`: the order is 3, as in `LatchManager::new`. Three requests, four keys, spans of no to three keys in different orders: leaves
  split, steal from the left and from the right and merge, the root grows and shrinks, and two requests can hold a key each and wait
  for the other's with a third in between. Seven node names suffice, with those of the tree before and after a split. Four keys at once make
  two levels, and this is as far as the tree is correct: `deal_with_underflow` is given the wrong edge, which
  matters from the third level on. Filling an empty tree with five keys and deleting them in the order 2, 1, 3, 4, 5 makes a thread wait for itself, and after 4, 1, 2, 3 key 5
  cannot be found. `latch_tree_race` needs three keys, so that the root splits while another thread has a clone of it.
- `MaxGuards`: the guards of one task that are alive at once. A second guard appears when a writer
  rescans after a timeout. With 2 (3 in the violated runs) a task can be queued with its current guard while an old one is queued, has the reservation, or is in the
  hands of a task in `lock_is_free`. A task whose guards are all in use stops scanning. The proofs are for any number.
- `MaxReapers = 2` lets two pushers abort the same victim at once.
- Programs have up to four requests, on two keys: enough for a deadlock, for a victim that goes
  on writing, reading, committing or aborting after it was aborted, and for a
  transaction that takes its locks again.
- The third transaction of `executor` is idle with the pairs of programs, and contends in two more workloads: it queues behind a deadlock of the two others, and behind a commit for which a reader waits too.
  The run has 448,194 distinct states.
- `Database`: three transactions and three keys, so that one of them may wait behind two, the oracle's tree gets red uncles and both rotations, and there is a key
  before, between and behind the others. The transactions begin at time 1, with an empty store or two committed keys, or at time 126, where the
  second one meets the first logical time that cannot be encoded. `MaxReads = 2` bounds how often a read that meets an intent is tried again:
  each attempt only adds the same read to the oracle. The transactions differ in nothing but their programs, all combinations of which are
  initial states, so the run uses their symmetry; its properties are invariants and action properties that treat all transactions alike. It has 108,843 distinct states.

Deadlock is not checked where tasks may end: programs run out and tasks panic.

### Fairness

Only `LatchManager` states fairness (`TreeSpec` of `LatchTree` takes it over), and only `EventuallyGranted` needs it: weak fairness of each
request's own steps. Tokio runs every task that is ready, timers fire, and the owner of a guard
executes its request and releases it without waiting for other latches (waiting for a lock happens without latches). A
client need not make a request, and no panic has to happen. Each client makes one request,
so contention ends; the property is about timeouts and back-off
losing nothing, not about fairness among endlessly many requests. Requests whose keys are in opposite
orders may retry forever, which the code notes in a TODO; hence the premise `[]Ascending`.

## 4. The proofs

`HybridClockProofs` proves, for all sets of wall times and all bounds, type correctness,
strict monotonicity, and, if all incoming timestamps have logical time 0, that the clock passes each. The case analysis of
`receive_timestamp` is in one lemma (`ReceiveEventAdvances`).

`LatchManagerProofs` proves `IInv == TypeOK /\ Progress /\ TreeIsOwned /\ OwnersExclusive` inductive for
any clients, keys and duplicate-free spans (`dedupe_spanset`). Exclusion alone is not inductive:
an insert that succeeds shows only that the key is not in the tree, and `TreeIsOwned` turns this into "nobody
owns it"; a delete must not remove a key of another owner, which needs exclusion. `Progress` ties the positions in the loops to the
program counters. The refinement maps `held` to the spans of granted requests: `Grant` is `Acquire`,
`Release` is `Release`, all else stutters.

`ExecutorProofs` proves for any transactions, keys, programs and bounds:

- `HoldersAreSpanned`: the holder of a lock has the key in its lock spans;
- `FinalizedOnce`: no record changes once it is committed or aborted;
- `TwoPhaseLocking`: no lock is taken from a pending transaction.

The invariant is `IInv` of that module. Commit and abort read the record and write it in separate steps, so the argument
is about latches: a reaper exists only because its victim was found holding a lock, so the victim's spans were not
empty then (`PushInv`); lock spans and read sets only grow, and a client's commit collects all of them (`SpansInv`);
so a commit and a reaper's abort have a key in common and `LatchInv` keeps them
apart (`CommitExcludesAbort`). `StatusInv` then says that what a task has read of the record is still true when it writes, and
that a task that releases locks works for a finalized transaction. The abort of a client cannot meet its own commit, since a client makes one request at a time. The same
invariant was checked with TLC for two and three transactions before it was proved.

`ExecutorLockProofs` goes on from there, again for all constants. `TInv` gives every variable its type (`ExecutorTypes`), says that the guard
of a task is the task's own, and what a task has in hand at each place of a method of a lock. `QInv` is the invariant of the queues. Its main part, `Apart`, says where a guard is: in one queue, once; or with a scan that
has not queued it; or, taken from its queue, with one task that is about to signal it. Four results need each other here:

- `GuardsQueueOnce` (`QueuedOnce`): without it no statement about wake-ups is inductive: a guard that `lock_is_free` takes from a queue could still be in a second one and be woken again, and `retain` in `request_done`, which is `Without` in
  the model, would have more than one place to leave out. It holds because every scan draws a new guard and stops at the first key at which it queues (`scan_and_enqueue`).
- `WriterWakeupsFit` (`WriterWakeupFits`): a writer in a queue, or taken from it and not yet signalled, has no message in its channel.
- `WritersAreNotForgotten` (`WritersAreWoken`): a put that waits is queued at its key, has its message, or is in the hands of a task between `remove_first_writer` and the signal, however the steps of several
  `lock_is_free` interleave. `remove_first_writer` is under one write lock, so two tasks never have the same writer; `request_done` takes out the guard of its own request, which does not wait.

For readers there is no such result, since `lock_is_free` reads their list and clears it later. In the model, as in the code, a reader that queues in between is dropped without a message (its timeout of a second lets it scan again), and a reader that two overlapping calls have
copied is sent two messages. That whoever queues is behind a holder or a reservation is not true either: a writer may be queued after the lock it has looked at was freed. And a lock may have a holder and a reservation at once, against the comment of `LockState`
(`lock_table.rs`, lines 81-82). TLC shows the first and the last with programs `<<Put k1, Put k2, Abort, Get k1>>`, `<<Put k2, Put k1>>` and `<<Put k1>>`. The second message to a reader that has timed out meanwhile even keeps its sender waiting, with the latches it may have. The book promises nothing of this either way, so that only what holds, for writers, is a property.

The same module proves `CommitReleases`. `CInv` says that a client in its commit has no requests left (`TodoInv`), that the intent of a transaction
is at a key of its lock spans (`IntentIsSpanned`), and which locks and intents a commit has still to go through (`LeftInv`). `ASSUME CommitIsLast` is needed: a client that wrote after its commit would leave a lock
behind. `DB::run_txn` commits last, and starts over with another transaction.

Its last part is about the transaction wait queue. `ReleasesFit`: `finalize_txn`, which has latches, is never stuck at the channel of a push. A push stays in the queue when its task has given up or panicked, and then nobody takes
the message out, so a second message would wait for ever. Several tasks may finalize one transaction, the client and reapers; `ReapersMeet` extends the argument of `CommitExcludesAbort` to two reapers (each new one wants all spans
of its transaction, among them those of the earlier ones), so that they come to `finalize_txn` one after the other (`FinalizeAlone`). `SentInv` says that a push which has its message and is still in the queue is one that the task in `finalize_txn`
now has gone through. `PushesKept`: only a finalized transaction releases and removes pushes, and only those on itself, so a push on a pending transaction is always there for `get_transitive_dependents` to find.

`MVCCProofs` proves what `seek_ge`, `mvcc_get_uncommited_value` and `mvcc_get` find in any finite store: `Storage::compare` is a strict total order
(`BeforeIsTotal`), so every set of entries has a first and a final one (`FirstAndFinalExist`). The library's induction theorems have operator parameters and are of no use here; the lemma
`FiniteOrderHasFirst` takes a smallest set without a first element instead, which exists since the finite subsets are well-founded.

`IntervalTreeProofs` proves what `insert_node` and `get_overlap` do to any red-black tree of any size. Its parts:

- Induction. The operators are recursive functions over nodes or over the turns of a loop. A family of finite sets has a smallest one (`SmallestSet`), and from this follow induction along numbers
  (`CountingUp`) and along a tree (`TreeInduction`), and that the functions exist (`FunctionByCounting`, `FunctionByTree`): a recursive function of TLA+ is a CHOOSE, so nothing may be said of its values before that.
- Shape and order. `Shape` has `sub[n]`, the nodes below `n`, as a function next to the links, so that facts about paths become facts about sets: the children of a node have disjoint sets without it, and parents are the inverse of children. `RotateShape` and
  `RotateOrdered` show for one side, and by `ShapeMirror` for the other, that a rotation keeps them; `RotateFacts` that the assignments of `right_rotate` and `left_rotate`, which detach nodes one by one, are a rotation.
- Colours. `Fixing` is the invariant of the loop of `fix_insert`: black heights agree, and the only red node that may have a red parent is the one the loop is at. `UpTurn`, `InnerTurn` and `OuterTurn` are its three cases. The loop
  ends: each turn goes up to a node with a larger `sub`, or leaves no red parent (`FixInsertFacts`).
- `InsertNodeFacts`: the result of `insert_node` is a red-black tree with the old nodes and the new one. `GetOverlapFacts`: the walk returns all nodes that overlap and no others, though it stops at the first one that starts after the range.
- `RedBlackTree` and `OracleMax` give this in the terms of the invariants of `Database`.

`DatabaseProofs` proves `TypeOK`, `GetIsLatest`, `NoDirtyReads`, `AllOrNothing`, `OracleCoversReads`, `OracleIsRedBlack`, `LocksMatchIntents` and `KeepsPromises` for any transactions, keys, programs and beginnings. In its invariant
`SpanInv` says that a pending transaction has its own intent at every key of its lock spans, so that `mvcc_delete` of an abort, which does not look at the
owner, deletes nobody else's; `IntentInv` that every intent is at a lock span of its transaction, so that nothing is left after a commit or abort; `VersionInv` that every
version is of a committed transaction or was there before. A put finds out from the store, not only from the lock table, that no other intent is at its key (`UncommittedValueIsIntent`), and this is what keeps `SpanInv`. That a deadlock victim is pending and has no reservation
(`VictimIsPending`) needs the lock table: holders are pending or have panicked (`HolderInv`), and whoever is queued or has a reservation is about to write that very key (`QueueInv`). `EndInv` says that a
finalized transaction has no writes to come, which is `ProgramsAssumption`. (In `Executor`, victims do go on writing after their abort: what goes wrong then is in its violated runs.) `OracleInv` says that
the oracle's tree is a red-black tree and has a node for every read of every transaction. It is what makes the timestamps of writes natural numbers, so the other parts of the invariant need it. That a transaction which has not begun has read nothing
is part of it, since `Begin` sets the read timestamp.

`CommitsAreAtomic` is about steps. In the step that commits a transaction every lock span has its intent (`SpanInv`), and resolving it makes a version of its own at its write timestamp; that a transaction has intents only while it is pending and versions only
once it has committed is `IntentInv` and `VersionInv`. That the versions stay cannot be proved: another commit may overwrite them (`CommitsBehind`).

Two more results rest on this invariant. `LocksAreIntents`: a lock that is held has its holder's intent by `HolderInv` and `SpanInv`; for the converse, that the writer of an intent holds the lock with the intent's timestamp,
`IntentsLocked` is inductive: a put makes both, and `update_locks` frees only locks of a transaction whose intents are gone (`EndLocks`). Intents that a panicked commit leaves stay locked.
`DatabaseKeepsPromises` maps `writes` to the lock spans and `versions` to the store without its intents. An uncommitted write is then an intent (from `SpanInv` and
`IntentInv`); a commit resolves all its lock spans, since all of them are its own intents, at a timestamp that is after the versions of its keys or makes it a `CommitsBehind`; aborts and panics delete intents only; a put finds no
intent of another transaction, so the key has no other writer. A read finds by `MvccGetIsLatest` the own intent, the latest version, or an intent of another transaction that it ignores, which is `HidesVersion`. If the key has no entry and is behind all others,
`MvccGetPastEnd` shows that the answer is the final entry (`ReadsLastKey`). That transactions begin one after the other needs that no read timestamp is ahead of the clock (`ClockInv`), and `dedupe_spanset` loses no key (`DedupedType`).

Assumptions, all evaluated by TLC in the runs: `WallTimesAssumption`, `IncomingAssumption`, `MaxLogicalAssumption`;
`KeysAssumption`, `SpanSetsAssumption`; `NoneAssumption`, `TimestampAssumption`, `BoundsAssumption`,
`WorkloadsAssumption`, `CommitIsLast`, `LockLabelsAssumption`; `BeginningsAssumption`, `ProgramsAssumption`. `KeysAssumption` of `Database` only numbers the keys. The invariants of the proofs were checked with TLC before they were proved, that of the tree in the form of `OracleIsRedBlack` and `OracleCoversReads`.

Only model-checked: `EventuallyGranted` (liveness under fairness is out of the prover's reach); `Searchable` and the refinements of `LatchTree`, whose operators follow the
recursion of the code (RECURSIVE operators are out of the prover's reach as well).

## 5. Not modelled, and what is left

Not modelled:

- RocksDB and serialization are I/O. Of the encoding of keys only the order and the keys that cannot be encoded are modelled.
- A restart. `Storage::new` opens an existing database, but nothing in the code recovers: intents and pending records of a database that is opened again stay as
  they are, with an empty lock table, an empty oracle and a new clock. There is no recovery to verify.
- Scans of several keys, writes without a transaction, `add_discovered_lock` and `register_guard`: only tests call them.
- Printing of trees and lock states.
- The overflow of 64-bit wall times and 32-bit logical times, which is out of reach of a running system.
- The dependents that a push has collected before. Since locks are held until their holder is finalized, collected dependents go
  stale only when one of the transactions is finalized.

What is left: a put as steps of its own, for a runtime with several worker threads; collected dependents; a liveness property of waiting requests, whose timeouts make up for lost wake-ups of readers.
