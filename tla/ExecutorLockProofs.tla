-------------------------- MODULE ExecutorLockProofs --------------------------
(***************************************************************************)
(* Proofs, for every set of transactions and keys, every workload and      *)
(* every bound, that a guard is in one queue at most, that no wake-up of   *)
(* a writer is lost or finds its channel full, that a commit leaves        *)
(* neither a lock nor an intent of its transaction behind, if it is the    *)
(* last request, that finalize_txn is never stuck, and that no push on a   *)
(* pending transaction is lost.                                            *)
(*                                                                         *)
(* TInv gives every variable its type, every task guards that are no       *)
(* other task's, and every place in a method of a lock what the task has   *)
(* in hand there.  QInv is about the guards.  Its part Apart says where    *)
(* each one is: in one queue, or with a scan that has not queued it, or    *)
(* with one task that has taken it from its queue and is about to signal   *)
(* it.  That the channel of a writer is empty until then, and that a       *)
(* waiting writer is in one of those places or has its message, follow     *)
(* from each other's parts.  CInv is about the locks and intents that a    *)
(* commit has still to go through, RInv and KInv about the pushes that a   *)
(* finalized transaction has still to release.                             *)
(***************************************************************************)
EXTENDS ExecutorProofs, QueueProofs

\* TypeOK in three parts: the lock table, ...
LockTypes ==
    /\ locks \subseteq Keys
    /\ lock_holder \in [Keys -> Txns \cup {None}]
    /\ holder_timestamp \in [Keys -> Nat]
    /\ reservation \in [Keys -> Guards \cup {None}]
    /\ queued_writers \in [Keys -> Seq(Guards)]
    /\ waiting_readers \in [Keys -> SUBSET Guards]
    /\ last_committed_timestamp \in [Keys -> Nat]
    /\ signalled \subseteq Guards
    /\ waking \in [Tasks -> SUBSET Guards]
    /\ write_timestamp \in [Txns -> Nat]

\* ... the transactions and the store, ...
TxnTypes ==
    /\ status \in [Txns -> Statuses]
    /\ commit_timestamp \in [Txns -> Nat]
    /\ lock_spans \in [Txns -> SUBSET Keys]
    /\ read_set \in [Txns -> SUBSET Keys]
    /\ intent \in [Keys -> Intents \cup {None}]
    /\ max_read \in [Keys -> Nat]

\* ... and the tasks.
TaskTypes ==
    /\ todo \in [Txns -> Seq(Requests)]
    /\ waiting_pushes \subseteq Tasks \X Txns
    /\ released \subseteq Tasks \X Txns
    /\ pc \in [Tasks -> Labels]
    /\ lock_pc \in [Tasks -> LockLabels \cup {None}]
    /\ request \in [Tasks -> Requests \cup {None}]
    /\ spans \in [Tasks -> SUBSET Keys]
    /\ held \in [Tasks -> SUBSET Keys]
    /\ guard \in [Tasks -> Guards \cup {None}]
    /\ keys \in [Tasks -> SUBSET Keys]
    /\ togo \in [Tasks -> SUBSET Keys]
    /\ at \in [Tasks -> Keys \cup {None}]
    /\ pushee \in [Tasks -> Txns \cup {None}]
    /\ awaited \in [Tasks -> Tasks \cup {None}]
    /\ releasing \in [Tasks -> SUBSET (Tasks \X Txns)]
    /\ result \in [Tasks -> Results \cup {None}]

\* A task that has begun to scan has a guard of its own, and one that pushes, or
\* is in a method of the lock, has the key of it.
GuardInv ==
    \A a \in Tasks :
        /\ guard[a] \in GuardsOf(a) \cup {None}
        /\ AtWork(a) /\ pc[a] # "latch" => guard[a] \in GuardsOf(a)
        /\ pc[a] \in {"enqueue", "pushing", "await"} => at[a] \in Keys
        /\ lock_pc[a] # None => at[a] \in Keys

\* Only a task that scans, frees or dequeues is in a method of a lock, and only
\* lock_is_free has guards to signal; a put scans its key and no other.
PlaceInv ==
    \A a \in Tasks :
        /\ pc[a] \notin {"scan", "unlock", "dequeue", "panicked"} => lock_pc[a] = None
        /\ pc[a] = "scan" /\ lock_pc[a] # None => at[a] \in togo[a]
        /\ pc[a] = "scan" /\ ~ReadOnly(request[a]) => togo[a] \subseteq {request[a].key}
        /\ waking[a] # {} => /\ pc[a] \in {"unlock", "dequeue"}
                            /\ lock_pc[a] \in {"wake", "reserve", "signal"}
        /\ lock_pc[a] \in {"reserve", "signal"} =>
             pc[a] \in {"unlock", "dequeue"} /\ \E g \in Guards : waking[a] = {g}

\* The types, the guards and the places.
TInv == LockTypes /\ TxnTypes /\ TaskTypes /\ GuardInv /\ PlaceInv

USE DEF Labels, AtWork, Inside

\* The guards of the tasks.
LEMMA GuardFacts ==
    /\ \A a \in Tasks : \A g \in GuardsOf(a) :
          g \in Guards /\ g # None /\ g[1] = a /\ GuardTxn(g) \in Txns
    /\ \A a, b \in Tasks : \A g \in GuardsOf(a) : g \in GuardsOf(b) => a = b
    /\ \A g \in Guards : g # None /\ g[1] \in Tasks /\ GuardTxn(g) \in Txns
BY NoneAssumption DEF GuardsOf, Guards, Tasks, GuardTxn

\* A step that leaves the lock table, or the transactions, alone.
LEMMA TypesUnchanged ==
    /\ LockTypes /\ UNCHANGED lockVars => LockTypes'
    /\ TxnTypes /\ UNCHANGED txnVars => TxnTypes'
BY DEF LockTypes, TxnTypes, lockVars, stateVars, methodVars, txnVars

\* A client that makes a request keeps the types.
LEMMA TypesStepIssue ==
    ASSUME IInv, TInv, NEW t \in Txns, Issue(t)
    PROVE  TInv'
<1> DEFINE a == Client(t)
           r == Head(todo[t])
<1>1. r \in Requests /\ Tail(todo[t]) \in Seq(Requests)
  BY DEF Issue, TInv, TaskTypes
<1>2. a \in Tasks /\ CollectSpans(t, r) \in SUBSET Keys
  BY <1>1, TaskFacts, SpansFacts DEF IInv
<1>3. /\ pc[a] = "idle" /\ pc' = [pc EXCEPT ![a] = "latch"]
      /\ todo' = [todo EXCEPT ![t] = Tail(@)]
      /\ request' = [request EXCEPT ![a] = r]
      /\ spans' = [spans EXCEPT ![a] = CollectSpans(t, r)]
      /\ UNCHANGED <<lockVars, txnVars, loopVars, queueVars, held>>
  BY DEF Issue, Goto
<1> HIDE DEF a, r
<1>4. LockTypes' /\ TxnTypes'
  BY <1>3, TypesUnchanged DEF TInv
<1>5. TaskTypes'
  BY <1>1, <1>2, <1>3 DEF TInv, TaskTypes, loopVars, queueVars, lockVars, methodVars
<1>6. GuardInv' /\ PlaceInv'
  BY <1>1, <1>2, <1>3
     DEF TInv, TaskTypes, GuardInv, PlaceInv, loopVars, lockVars, methodVars
<1> QED
  BY <1>4, <1>5, <1>6 DEF TInv

\* So does a task that waits or pushes.
LEMMA TypesStepWait ==
    ASSUME IInv, TInv, NEW a \in Tasks, Wait(a)
    PROVE  TInv'
<1> USE TaskFacts DEF TaskTypes, GuardInv, PlaceInv, Goto, Ends, Panics,
    loopVars, queueVars, lockVars, methodVars
<1>0. Txn(a) \in Txns
  OBVIOUS
<1>1. CASE WaitEnds(a)
  BY <1>1, TypesUnchanged DEF TInv, WaitEnds, LockTypes, stateVars
<1>2. CASE WaitTimesOut(a)
  BY <1>2, TypesUnchanged DEF TInv, WaitTimesOut
<1>3. CASE PushSkips(a)
  BY <1>3, TypesUnchanged DEF TInv, PushSkips
<1>4. CASE PushUnwrapPanics(a)
  BY <1>4, TypesUnchanged DEF TInv, PushUnwrapPanics
<1>5. CASE PushStarts(a)
  <2>1. PICK k \in togo[a] :
          /\ lock_holder[k] # None
          /\ at' = [at EXCEPT ![a] = k]
          /\ pushee' = [pushee EXCEPT ![a] = lock_holder[k]]
    BY <1>5 DEF PushStarts
  <2>2. k \in Keys /\ lock_holder[k] \in Txns
    BY <2>1 DEF TInv, LockTypes
  <2> QED
    BY <1>5, <2>1, <2>2, TypesUnchanged DEF TInv, PushStarts
<1>6. CASE PushesEnd(a)
  BY <1>6, TypesUnchanged DEF TInv, PushesEnd
<1>7. CASE PushReleased(a)
  BY <1>7, TypesUnchanged DEF TInv, PushReleased
<1>8. CASE PushFails(a)
  <2>1. LockTypes' /\ TxnTypes'
    BY <1>8, TypesUnchanged DEF TInv, PushFails
  <2>2. status[Txn(a)] \in Results /\ at[a] \in Keys
    BY <1>0, <1>8 DEF TInv, PushFails, TxnTypes, Statuses, Results
  <2>3. TaskTypes' /\ GuardInv' /\ PlaceInv'
    BY <1>8, <2>2 DEF TInv, PushFails
  <2> QED
    BY <2>1, <2>3 DEF TInv
<1>9. CASE PushFindsCycle(a)
  <2>1. pushee[a] \in Txns
    BY <1>9 DEF PushFindsCycle, IInv, PushInv
  <2>2. PICK b \in Reapers(pushee[a]) :
          /\ pc[b] = "idle"
          /\ pc' = [pc EXCEPT ![a] = "await", ![b] = "latch"]
          /\ awaited' = [awaited EXCEPT ![a] = b]
          /\ request' = [request EXCEPT ![b] = AbortTxn]
          /\ spans' = [spans EXCEPT ![b] = CollectSpans(pushee[a], AbortTxn)]
    BY <1>9 DEF PushFindsCycle, IsNewReaper
  <2>3. b \in Tasks /\ AbortTxn \in Requests
        /\ CollectSpans(pushee[a], AbortTxn) \in SUBSET Keys
    BY <2>1, RequestFacts, SpansFacts DEF IInv
  <2>4. /\ pc[a] = "pushing"
        /\ UNCHANGED <<lockVars, txnVars, guard, keys, togo, at, pushee, result,
                       todo, waiting_pushes, released, releasing, held>>
    BY <1>9 DEF PushFindsCycle
  <2> QED
    <3>1. LockTypes' /\ TxnTypes' /\ TaskTypes'
      BY <2>2, <2>3, <2>4, TypesUnchanged DEF TInv
    <3>2. GuardInv'
      BY <2>2, <2>3, <2>4 DEF TInv
    <3>3. PlaceInv'
      BY <2>2, <2>3, <2>4 DEF TInv
    <3> QED
      BY <3>1, <3>2, <3>3 DEF TInv
<1>10. CASE PushPanics(a)
  BY <1>10, TypesUnchanged DEF TInv, PushPanics
<1>11. CASE EnqueueAndPush(a)
  <2>1. pushee[a] \in Txns
    BY <1>11 DEF EnqueueAndPush, IInv, PushInv
  <2> QED
    BY <1>11, <2>1, TypesUnchanged DEF TInv, EnqueueAndPush
<1> QED
  BY <1>1, <1>2, <1>3, <1>4, <1>5, <1>6, <1>7, <1>8, <1>9, <1>10, <1>11 DEF Wait

\* The requests that a task evaluates name a key.
LEMMA EvalFacts ==
    ASSUME IInv, NEW a \in Tasks, pc[a] = "eval"
    PROVE  /\ request[a] \in Requests
           /\ request[a].op \in {"put", "get"} => request[a].key \in Keys
           /\ CollectSpans(Txn(a), request[a]) \in SUBSET Keys
<1>1. request[a] \in Requests
  BY DEF IInv, RequestInv
<1> QED
  BY <1>1, TaskFacts, RequestFacts, SpansFacts DEF IInv

\* claim_reservation keeps the types.
LEMMA ClaimTypes ==
    ASSUME LockTypes, NEW k \in Keys, NEW g \in Guards, ClaimReservation(k, g)
    PROVE  /\ reservation' \in [Keys -> Guards \cup {None}]
           /\ write_timestamp' \in [Txns -> Nat]
BY GuardFacts DEF LockTypes, ClaimReservation, BumpTxnWriteTimestamp

\* So does the entry in a queue.
LEMMA EnqueueTypes ==
    ASSUME LockTypes, NEW k \in Keys, NEW g \in Guards, NEW ro, Enqueue(k, g, ro)
    PROVE  /\ queued_writers' \in [Keys -> Seq(Guards)]
           /\ waiting_readers' \in [Keys -> SUBSET Guards]
<1>1. Append(queued_writers[k], g) \in Seq(Guards)
  BY DEF LockTypes
<1> QED
  <2>1. CASE ro
    <3>1. /\ waiting_readers' = [waiting_readers EXCEPT ![k] = @ \cup {g}]
          /\ queued_writers' = queued_writers
      BY <2>1 DEF Enqueue
    <3> QED
      BY <3>1 DEF LockTypes
  <2>2. CASE ~ro
    <3>1. /\ queued_writers' = [queued_writers EXCEPT ![k] = Append(@, g)]
          /\ waiting_readers' = waiting_readers
      BY <2>2 DEF Enqueue
    <3> QED
      BY <1>1, <3>1 DEF LockTypes
  <2> QED
    BY <2>1, <2>2

\* So does a scan, which gives the task a guard of its own.
LEMMA TypesStepSequence ==
    ASSUME IInv, TInv, NEW a \in Tasks, Sequence(a)
    PROVE  TInv'
<1> USE TaskFacts DEF Goto, Scans, loopVars, queueVars, lockVars, methodVars
<1>1. CASE ScanStarts(a)
  <2>1. PICK g \in GuardsOf(a) :
          /\ pc[a] = "latch"
          /\ signalled' = signalled \ {g}
          /\ guard' = [guard EXCEPT ![a] = g]
          /\ keys' = [keys EXCEPT ![a] = CollectSpans(Txn(a), request[a])]
          /\ held' = [held EXCEPT ![a] = spans[a]]
          /\ togo' = [togo EXCEPT ![a] = CollectSpans(Txn(a), request[a])]
          /\ pc' = [pc EXCEPT ![a] = "scan"]
          /\ UNCHANGED <<stateVars, methodVars, write_timestamp, txnVars, at,
                         pushee, result, todo, queueVars, request, spans>>
    BY <1>1 DEF ScanStarts, Sequences
  <2>2. /\ g \in Guards /\ request[a] \in Requests
        /\ CollectSpans(Txn(a), request[a]) \in SUBSET Keys
        /\ ~ReadOnly(request[a]) =>
              CollectSpans(Txn(a), request[a]) = {request[a].key}
    BY <2>1, GuardFacts, SpansFacts
       DEF IInv, RequestInv, CollectSpans, ReadOnly
  <2>3. LockTypes' /\ TxnTypes'
    BY <2>1, TypesUnchanged DEF TInv, LockTypes, stateVars
  <2>4. TaskTypes'
    BY <2>1, <2>2 DEF TInv, TaskTypes
  <2>5. GuardInv' /\ PlaceInv'
    BY <2>1, <2>2 DEF TInv, TaskTypes, GuardInv, PlaceInv
  <2> QED
    BY <2>3, <2>4, <2>5 DEF TInv
<1> USE DEF otherVars
<1>2. CASE ScanSkips(a)
  BY <1>2, TypesUnchanged
     DEF ScanSkips, Passes, TInv, LockTypes, TaskTypes, GuardInv, PlaceInv, stateVars
<1>3. CASE ScanLooks(a)
  <2>1. PICK k \in togo[a] :
          /\ at' = [at EXCEPT ![a] = k]
          /\ lock_pc' = [lock_pc EXCEPT ![a] = IF reservation[k] # None
                                              THEN "reserved" ELSE "unreserved"]
    BY <1>3 DEF ScanLooks
  <2>2. k \in Keys
    BY DEF TInv, TaskTypes
  <2>3. LockTypes' /\ TxnTypes'
    BY <1>3, TypesUnchanged DEF ScanLooks, TInv, LockTypes, stateVars
  <2>4. TaskTypes' /\ GuardInv'
    BY <1>3, <2>1, <2>2 DEF ScanLooks, TInv, TaskTypes, GuardInv, LockLabels
  <2>5. PlaceInv'
    BY <1>3, <2>1, <2>2, LockLabelsAssumption
       DEF ScanLooks, TInv, TaskTypes, PlaceInv, LockLabels
  <2> QED
    BY <2>3, <2>4, <2>5 DEF TInv
<1>4. CASE ScanUnwrapPanics(a)
  BY <1>4, TypesUnchanged
     DEF ScanUnwrapPanics, Panics, TInv, TaskTypes, GuardInv, PlaceInv
<1> USE LockLabelsAssumption DEF LockLabels
<1>5. CASE ScanConflicts(a)
  BY <1>5, TypesUnchanged
     DEF ScanConflicts, TInv, LockTypes, TaskTypes, GuardInv, PlaceInv, stateVars
<1>6. CASE ScanPasses(a)
  <2>1. /\ Passes(a, at[a]) /\ pc[a] = "scan"
        /\ UNCHANGED <<stateVars, waking, signalled, write_timestamp, otherVars,
                       pc, held>>
    BY <1>6 DEF ScanPasses
  <2>2. LockTypes' /\ TxnTypes'
    BY <2>1, TypesUnchanged DEF TInv, LockTypes, stateVars
  <2>3. TaskTypes' /\ GuardInv'
    BY <2>1 DEF Passes, TInv, TaskTypes, GuardInv
  <2>4. PlaceInv'
    BY <2>1 DEF Passes, TInv, TaskTypes, PlaceInv
  <2> QED
    BY <2>2, <2>3, <2>4 DEF TInv
<1>7. CASE ScanFindsFree(a)
  BY <1>7, TypesUnchanged
     DEF ScanFindsFree, TInv, LockTypes, TaskTypes, GuardInv, PlaceInv, stateVars
<1>8. CASE ScanReserves(a)
  <2>1. at[a] \in Keys /\ guard[a] \in Guards
    BY <1>8, GuardFacts DEF ScanReserves, TInv, GuardInv
  <2>2. /\ reservation' \in [Keys -> Guards \cup {None}]
        /\ write_timestamp' \in [Txns -> Nat]
    BY <1>8, <2>1, ClaimTypes DEF ScanReserves, TInv
  <2>3. LockTypes' /\ TxnTypes'
    BY <1>8, <2>1, <2>2, TypesUnchanged DEF ScanReserves, TInv, LockTypes
  <2>4. TaskTypes' /\ GuardInv' /\ PlaceInv'
    BY <1>8 DEF ScanReserves, Passes, TInv, TaskTypes, GuardInv, PlaceInv
  <2> QED
    BY <2>3, <2>4 DEF TInv
<1>9. CASE ScanWaits(a)
  <2>1. at[a] \in Keys /\ guard[a] \in Guards
    BY <1>9, GuardFacts DEF ScanWaits, TInv, GuardInv
  <2>2. /\ queued_writers' \in [Keys -> Seq(Guards)]
        /\ waiting_readers' \in [Keys -> SUBSET Guards]
    BY <1>9, <2>1, EnqueueTypes DEF ScanWaits, TInv
  <2>3. LockTypes' /\ TxnTypes'
    BY <1>9, <2>2, TypesUnchanged DEF ScanWaits, TInv, LockTypes
  <2>4. TaskTypes' /\ GuardInv' /\ PlaceInv'
    BY <1>9 DEF ScanWaits, TInv, TaskTypes, GuardInv, PlaceInv
  <2> QED
    BY <2>3, <2>4 DEF TInv
<1>10. CASE ScanEnds(a)
  BY <1>10, TypesUnchanged DEF ScanEnds, TInv, TaskTypes, GuardInv, PlaceInv
<1> QED
  BY <1>1, <1>2, <1>3, <1>4, <1>5, <1>6, <1>7, <1>8, <1>9, <1>10 DEF Sequence

\* The timestamp of a put, and what the oracle sees of a read, are timestamps.
LEMMA TimestampTypes ==
    ASSUME TInv, NEW a \in Tasks
    PROVE  /\ request[a].key \in Keys => PutTimestamp(a) \in Nat
           /\ request[a].key \in Keys /\ BumpForPut(a) =>
                 write_timestamp' \in [Txns -> Nat]
           /\ \A S : UpdateCache(Txn(a), S) => max_read' \in [Keys -> Nat]
<1>1. Txn(a) \in Txns /\ read_timestamp[Txn(a)] \in Nat
  BY TaskFacts, TimestampAssumption
<1>2. request[a].key \in Keys => PutTimestamp(a) \in Nat
  BY <1>1 DEF TInv, LockTypes, TxnTypes, PutTimestamp
<1>3. ASSUME request[a].key \in Keys, BumpForPut(a)
      PROVE  write_timestamp' \in [Txns -> Nat]
  BY <1>1, <1>2, <1>3 DEF TInv, LockTypes, BumpForPut
<1>4. ASSUME NEW S, UpdateCache(Txn(a), S)
      PROVE  max_read' \in [Keys -> Nat]
  BY <1>1, <1>4 DEF TInv, TxnTypes, UpdateCache
<1> QED
  BY <1>2, <1>3, <1>4

\* So does the evaluation of a request.
LEMMA TypesStepExecute ==
    ASSUME IInv, TInv, NEW a \in Tasks, Execute(a)
    PROVE  TInv'
<1> USE TaskFacts DEF Goto, Ends, Panics, AtUnlock, loopVars, queueVars, lockVars,
        methodVars
<1>0. Txn(a) \in Txns
  OBVIOUS
<1>1. CASE PutMeetsIntent(a)
  <2>1. pc[a] = "eval" /\ request[a].key \in Keys
    BY <1>1, EvalFacts DEF PutMeetsIntent, AtPut
  <2>2. intent[request[a].key].txn \in Txns
    BY <1>1, <2>1 DEF PutMeetsIntent, ForeignIntent, TInv, TxnTypes, Intents
  <2>3. LockTypes' /\ TxnTypes'
    BY <1>1, <2>1, TimestampTypes, TypesUnchanged
       DEF PutMeetsIntent, TInv, LockTypes, stateVars
  <2>4. TaskTypes' /\ GuardInv' /\ PlaceInv'
    BY <1>1, <2>1, <2>2
       DEF PutMeetsIntent, FinishReq, TInv, TaskTypes, GuardInv, PlaceInv, Results
  <2> QED
    BY <2>3, <2>4 DEF TInv
<1>2. CASE PutIntentPanics(a)
  <2>1. pc[a] = "eval" /\ request[a].key \in Keys
    BY <1>2, EvalFacts DEF PutIntentPanics, AtPut
  <2>2. LockTypes' /\ TxnTypes'
    BY <1>2, <2>1, TimestampTypes, TypesUnchanged
       DEF PutIntentPanics, TInv, LockTypes, stateVars
  <2>3. TaskTypes'
    BY <1>2 DEF PutIntentPanics, TInv, TaskTypes
  <2>4. GuardInv' /\ PlaceInv'
    BY <1>2, <2>1 DEF PutIntentPanics, TInv, TaskTypes, GuardInv, PlaceInv
  <2> QED
    BY <2>2, <2>3, <2>4 DEF TInv
<1>3. CASE PutLockPanics(a)
  <2>1. pc[a] = "eval" /\ request[a].key \in Keys
    BY <1>3, EvalFacts DEF PutLockPanics, AtPut
  <2>2. LockTypes'
    BY <1>3, <2>1, TimestampTypes DEF PutLockPanics, TInv, LockTypes, stateVars
  <2>3. TxnTypes'
    BY <1>3, <2>1, TimestampTypes
       DEF PutLockPanics, WriteIntent, TInv, TxnTypes, Intents
  <2>4. TaskTypes'
    BY <1>3 DEF PutLockPanics, TInv, TaskTypes
  <2>5. GuardInv' /\ PlaceInv'
    BY <1>3, <2>1 DEF PutLockPanics, TInv, TaskTypes, GuardInv, PlaceInv
  <2> QED
    BY <2>2, <2>3, <2>4, <2>5 DEF TInv
<1>4. CASE Put(a)
  <2>1. pc[a] = "eval" /\ request[a].key \in Keys
    BY <1>4, EvalFacts DEF Put, AtPut
  <2>2. LockTypes'
    BY <1>4, <2>1, TimestampTypes DEF Put, AcquireLock, TInv, LockTypes
  <2>3. TxnTypes'
    BY <1>4, <2>1, TimestampTypes
       DEF Put, WriteIntent, AppendLockSpan, TInv, TxnTypes, Intents
  <2>4. TaskTypes' /\ GuardInv' /\ PlaceInv'
    BY <1>4, <2>1 DEF Put, FinishReq, TInv, TaskTypes, GuardInv, PlaceInv, Results
  <2> QED
    BY <2>2, <2>3, <2>4 DEF TInv
<1>5. CASE GetMeetsIntent(a)
  <2>1. pc[a] = "eval" /\ request[a].key \in Keys
    BY <1>5, EvalFacts DEF GetMeetsIntent, AtGet
  <2>2. intent[request[a].key].txn \in Txns
    BY <1>5, <2>1 DEF GetMeetsIntent, ForeignIntent, TInv, TxnTypes, Intents
  <2>3. LockTypes' /\ TxnTypes'
    BY <1>5, TimestampTypes, TypesUnchanged
       DEF GetMeetsIntent, TInv, TxnTypes
  <2>4. TaskTypes' /\ GuardInv' /\ PlaceInv'
    BY <1>5, <2>1, <2>2
       DEF GetMeetsIntent, FinishReq, TInv, TaskTypes, GuardInv, PlaceInv, Results
  <2> QED
    BY <2>3, <2>4 DEF TInv
<1>6. CASE Get(a)
  <2>1. pc[a] = "eval" /\ request[a].key \in Keys
    BY <1>6, EvalFacts DEF Get, AtGet
  <2>3. LockTypes' /\ TxnTypes'
    BY <1>6, <2>1, TimestampTypes, TypesUnchanged DEF Get, TInv, TxnTypes
  <2>4. TaskTypes' /\ GuardInv' /\ PlaceInv'
    BY <1>6, <2>1 DEF Get, FinishReq, TInv, TaskTypes, GuardInv, PlaceInv, Results
  <2> QED
    BY <2>3, <2>4 DEF TInv
<1>7. CASE CommitFindsAborted(a)
  BY <1>7, TypesUnchanged
     DEF CommitFindsAborted, AtCommit, TInv, TaskTypes, GuardInv, PlaceInv, Results
<1>8. CASE CommitCannotRefresh(a)
  <2>3. LockTypes' /\ TxnTypes'
    BY <1>8, TimestampTypes, TypesUnchanged DEF CommitCannotRefresh, TInv, TxnTypes
  <2>4. TaskTypes' /\ GuardInv' /\ PlaceInv'
    BY <1>8 DEF CommitCannotRefresh, AtCommit, FinishReq, TInv, TaskTypes,
                GuardInv, PlaceInv, Results
  <2> QED
    BY <2>3, <2>4 DEF TInv
<1>9. CASE CommitRefreshes(a)
  <2>3. LockTypes' /\ TxnTypes'
    BY <1>9, TypesUnchanged DEF CommitRefreshes, TInv, TxnTypes, LockTypes
  <2>4. TaskTypes' /\ GuardInv' /\ PlaceInv'
    BY <1>9 DEF CommitRefreshes, AtCommit, TInv, TaskTypes, GuardInv, PlaceInv
  <2> QED
    BY <2>3, <2>4 DEF TInv
<1>10. CASE Commit(a)
  <2>3. LockTypes' /\ TxnTypes'
    BY <1>10, TypesUnchanged DEF Commit, DeleteIntents, TInv, TxnTypes, Statuses
  <2>4. TaskTypes' /\ GuardInv' /\ PlaceInv'
    BY <1>10 DEF Commit, TInv, TaskTypes, GuardInv, PlaceInv, Results
  <2> QED
    BY <2>3, <2>4 DEF TInv
<1>11. CASE AbortFindsCommitted(a)
  <2>3. LockTypes' /\ TxnTypes'
    BY <1>11, TimestampTypes, TypesUnchanged DEF AbortFindsCommitted, TInv, TxnTypes
  <2>4. TaskTypes' /\ GuardInv' /\ PlaceInv'
    BY <1>11 DEF AbortFindsCommitted, AtAbort, FinishReq, TInv, TaskTypes,
                GuardInv, PlaceInv, Results
  <2> QED
    BY <2>3, <2>4 DEF TInv
<1>12. CASE AbortProceeds(a)
  BY <1>12, TypesUnchanged DEF AbortProceeds, AtAbort, TInv, TaskTypes,
      GuardInv, PlaceInv
<1>13. CASE Abort(a)
  BY <1>13, TypesUnchanged
     DEF Abort, TInv, TxnTypes, TaskTypes, GuardInv, PlaceInv, Statuses, Results
<1>14. CASE AbortIntents(a)
  BY <1>14, TypesUnchanged
     DEF AbortIntents, DeleteIntents, TInv, TxnTypes, TaskTypes, GuardInv, PlaceInv
<1>15. CASE UpdateTxnLocks(a)
  BY <1>15, TypesUnchanged
     DEF UpdateTxnLocks, TInv, TxnTypes, TaskTypes, GuardInv, PlaceInv
<1>16. CASE UnlockSkips(a)
  BY <1>16, TypesUnchanged DEF UnlockSkips, TInv, TaskTypes, GuardInv, PlaceInv
<1>17. CASE Unlock(a)
  <2>1. PICK k \in togo[a] :
           /\ ReleaseLock(a, k)
           /\ at' = [at EXCEPT ![a] = k]
    BY <1>17 DEF Unlock
  <2>2. k \in Keys
    BY DEF TInv, TaskTypes
  <2>3. LockTypes' /\ TxnTypes'
    BY <1>17, <2>1, <2>2, TypesUnchanged
       DEF Unlock, ReleaseLock, TInv, LockTypes, TxnTypes, otherVars
  <2>4. TaskTypes' /\ GuardInv' /\ PlaceInv'
    BY <1>17, <2>1, <2>2, LockLabelsAssumption
       DEF Unlock, AtUnlock, otherVars, LockLabels, TInv, TaskTypes, GuardInv, PlaceInv
  <2> QED
    BY <2>3, <2>4 DEF TInv
<1>18. CASE FinalizeFindsNone(a)
  <2>3. LockTypes' /\ TxnTypes'
    BY <1>18, TimestampTypes, TypesUnchanged DEF FinalizeFindsNone, TInv, TxnTypes
  <2>4. TaskTypes' /\ GuardInv' /\ PlaceInv'
    BY <1>18 DEF FinalizeFindsNone, FinishReq, TInv, TaskTypes, GuardInv, PlaceInv
  <2> QED
    BY <2>3, <2>4 DEF TInv
<1>19. CASE Finalize(a)
  <2>1. LockTypes' /\ TxnTypes' /\ TaskTypes'
    BY <1>19, TypesUnchanged DEF Finalize, PushesOn, TInv, TaskTypes
  <2>2. /\ pc[a] = "unlock" /\ lock_pc[a] = None
        /\ pc' = [pc EXCEPT ![a] = "finalize"]
        /\ UNCHANGED <<lock_pc, waking, guard, at, togo, request>>
    BY <1>19 DEF Finalize
  <2>3. waking[a] = {}
    BY <2>2, LockLabelsAssumption DEF LockLabels, TInv, PlaceInv
  <2>4. GuardInv'
    BY <2>2 DEF TInv, TaskTypes, GuardInv
  <2>5. PlaceInv'
    BY <2>2, <2>3, LockLabelsAssumption DEF LockLabels, TInv, TaskTypes, PlaceInv
  <2> QED
    BY <2>1, <2>4, <2>5 DEF TInv
<1>20. CASE ReleasePush(a)
  <2>1. LockTypes' /\ TxnTypes'
    BY <1>20, TypesUnchanged DEF ReleasePush, TInv
  <2>2. PICK p \in releasing[a] :
          /\ released' = released \cup {p}
          /\ releasing' = [releasing EXCEPT ![a] = @ \ {p}]
    BY <1>20 DEF ReleasePush
  <2>3. /\ released' \subseteq Tasks \X Txns
        /\ releasing' \in [Tasks -> SUBSET (Tasks \X Txns)]
    BY <2>2 DEF TInv, TaskTypes
  <2>4. TaskTypes' /\ GuardInv' /\ PlaceInv'
    BY <1>20, <2>3 DEF ReleasePush, TInv, TaskTypes, GuardInv, PlaceInv
  <2> QED
    BY <2>1, <2>4 DEF TInv
<1>21. CASE FinalizeEnds(a)
  <2>3. LockTypes' /\ TxnTypes'
    BY <1>21, TimestampTypes, TypesUnchanged DEF FinalizeEnds, TInv, TxnTypes
  <2>4. TaskTypes' /\ GuardInv' /\ PlaceInv'
    BY <1>21 DEF FinalizeEnds, RemovePushee, FinishReq, TInv, TaskTypes,
        GuardInv, PlaceInv
  <2> QED
    BY <2>3, <2>4 DEF TInv
<1> QED
  BY <1>1, <1>2, <1>3, <1>4, <1>5, <1>6, <1>7, <1>8, <1>9, <1>10,
     <1>11, <1>12, <1>13, <1>14, <1>15, <1>16, <1>17, <1>18,
     <1>19, <1>20, <1>21 DEF Execute

\* lock_is_free returns with nobody left to signal.
LEMMA FreeReturns ==
    ASSUME TInv, NEW a \in Tasks, pc[a] \in {"unlock", "dequeue"}, lock_pc[a] # None,
           LockIsFreeReturns(a), UNCHANGED <<otherVars, pc, held>>,
           waking'[a] = {}, \A b \in Tasks : b # a => waking'[b] = waking[b]
    PROVE  TaskTypes' /\ GuardInv' /\ PlaceInv'
<1> USE LockLabelsAssumption DEF LockLabels, otherVars, queueVars
<1>1. CASE pc[a] = "dequeue"
  <2>1. lock_pc' = [lock_pc EXCEPT ![a] = "leave"] /\ UNCHANGED <<togo, at>>
    BY <1>1 DEF LockIsFreeReturns
  <2>2. TaskTypes'
    BY <2>1 DEF TInv, TaskTypes
  <2>3. GuardInv'
    BY <2>1 DEF TInv, TaskTypes, GuardInv
  <2>4. PlaceInv'
    BY <1>1, <2>1 DEF TInv, TaskTypes, PlaceInv
  <2> QED
    BY <2>2, <2>3, <2>4
<1>2. CASE pc[a] = "unlock"
  <2>1. /\ togo' = [togo EXCEPT ![a] = @ \ {at[a]}]
        /\ at' = [at EXCEPT ![a] = None]
        /\ lock_pc' = [lock_pc EXCEPT ![a] = None]
    BY <1>2 DEF LockIsFreeReturns, Passes
  <2>2. TaskTypes'
    BY <2>1 DEF TInv, TaskTypes
  <2>3. GuardInv'
    BY <1>2, <2>1 DEF TInv, TaskTypes, GuardInv
  <2>4. PlaceInv'
    <3>1. lock_pc'[a] = None /\ pc' = pc /\ request' = request
      BY <2>1 DEF TInv, TaskTypes
    <3>2. \A b \in Tasks : b # a =>
             lock_pc'[b] = lock_pc[b] /\ at'[b] = at[b] /\ togo'[b] = togo[b]
      BY <2>1 DEF TInv, TaskTypes
    <3> QED
      BY <1>2, <3>1, <3>2 DEF TInv, PlaceInv
  <2> QED
    BY <2>2, <2>3, <2>4
<1> QED
  BY <1>1, <1>2

\* So does lock_is_free.
LEMMA TypesStepFree ==
    ASSUME IInv, TInv, NEW a \in Tasks, LockIsFree(a)
    PROVE  TInv'
<1> USE TaskFacts, LockLabelsAssumption
    DEF LockLabels, Frees, loopVars, queueVars, lockVars, methodVars, otherVars
<1>1. CASE CheckFree(a)
  BY <1>1, TypesUnchanged
     DEF CheckFree, TInv, LockTypes, TaskTypes, GuardInv, PlaceInv, stateVars
<1>2. CASE CheckPanics(a)
  BY <1>2, TypesUnchanged
     DEF CheckPanics, Panics, TInv, TaskTypes, GuardInv, PlaceInv
<1>3. CASE CopyReaders(a)
  <2>1. waiting_readers[at[a]] \in SUBSET Guards
    BY <1>3 DEF CopyReaders, TInv, GuardInv, LockTypes
  <2> QED
    BY <1>3, <2>1, TypesUnchanged
       DEF CopyReaders, TInv, LockTypes, TaskTypes, GuardInv, PlaceInv, stateVars
<1>4. CASE WakeReader(a)
  <2>1. PICK r \in waking[a] :
           /\ signalled' = signalled \cup {r}
           /\ waking' = [waking EXCEPT ![a] = @ \ {r}]
    BY <1>4 DEF WakeReader
  <2>2. r \in Guards
    BY DEF TInv, LockTypes
  <2> QED
    BY <1>4, <2>1, <2>2, TypesUnchanged
       DEF WakeReader, TInv, LockTypes, TaskTypes, GuardInv, PlaceInv, stateVars
<1>5. CASE ClearReaders(a)
  <2>1. waiting_readers' \in [Keys -> SUBSET Guards]
    BY <1>5 DEF ClearReaders, TInv, LockTypes
  <2> QED
    <3>1. LockTypes' /\ TxnTypes' /\ TaskTypes'
      BY <1>5, <2>1, TypesUnchanged DEF ClearReaders, TInv, LockTypes, TaskTypes
    <3>2. GuardInv' /\ PlaceInv'
      BY <1>5 DEF ClearReaders, TInv, TaskTypes, GuardInv, PlaceInv
    <3> QED
      BY <3>1, <3>2 DEF TInv
<1>6. CASE NextIsNone(a)
  <2>1. LockTypes' /\ TxnTypes'
    BY <1>6, TypesUnchanged DEF NextIsNone, TInv, LockTypes, stateVars
  <2>2. waking[a] = {} /\ waking' = waking
    BY <1>6 DEF NextIsNone, TInv, PlaceInv
  <2> QED
    BY <1>6, <2>1, <2>2, FreeReturns DEF NextIsNone, TInv
<1>7. CASE NextWriter(a)
  <2> DEFINE q == queued_writers[at[a]]
  <2>1. /\ at[a] \in Keys /\ q \in Seq(Guards) /\ q # <<>>
        /\ queued_writers' = [queued_writers EXCEPT ![at[a]] = Tail(q)]
        /\ waking' = [waking EXCEPT ![a] = {Head(q)}]
    BY <1>7 DEF NextWriter, RemoveFirstWriter, TInv, GuardInv, LockTypes
  <2>2. Head(q) \in Guards /\ Tail(q) \in Seq(Guards)
    BY <2>1
  <2> HIDE DEF q
  <2>3. LockTypes' /\ TxnTypes'
    BY <1>7, <2>1, <2>2, TypesUnchanged DEF NextWriter, TInv, LockTypes
  <2>4. TaskTypes' /\ GuardInv'
    BY <1>7 DEF NextWriter, TInv, TaskTypes, GuardInv
  <2>5. PlaceInv'
    BY <1>7, <2>1, <2>2 DEF NextWriter, TInv, LockTypes, TaskTypes, PlaceInv
  <2> QED
    BY <2>3, <2>4, <2>5 DEF TInv
<1>8. CASE ReserveNext(a)
  <2>1. PICK g \in waking[a] : ClaimReservation(at[a], g)
    BY <1>8 DEF ReserveNext
  <2>2. at[a] \in Keys /\ g \in Guards
    BY <1>8 DEF ReserveNext, TInv, GuardInv, LockTypes
  <2>3. LockTypes' /\ TxnTypes'
    BY <1>8, <2>1, <2>2, ClaimTypes, TypesUnchanged DEF ReserveNext, TInv, LockTypes
  <2>4. TaskTypes' /\ GuardInv' /\ PlaceInv'
    BY <1>8 DEF ReserveNext, TInv, TaskTypes, GuardInv, PlaceInv
  <2> QED
    BY <2>3, <2>4 DEF TInv
<1>9. CASE SignalNext(a)
  <2>1. signalled' \subseteq Guards /\ waking' \in [Tasks -> SUBSET Guards]
    BY <1>9 DEF SignalNext, TInv, LockTypes
  <2>2. LockTypes' /\ TxnTypes'
    BY <1>9, <2>1, TypesUnchanged DEF SignalNext, TInv, LockTypes, stateVars
  <2>3. waking'[a] = {} /\ \A b \in Tasks : b # a => waking'[b] = waking[b]
    BY <1>9 DEF SignalNext, TInv, LockTypes
  <2> QED
    BY <1>9, <2>2, <2>3, FreeReturns DEF SignalNext, TInv
<1> QED
  BY <1>1, <1>2, <1>3, <1>4, <1>5, <1>6, <1>7, <1>8, <1>9 DEF LockIsFree

\* A guard leaves the queues of a key.
LEMMA LeaveTypes ==
    ASSUME LockTypes, QueuedOnce, NEW k \in Keys, NEW g, Leave(k, g)
    PROVE  /\ queued_writers' \in [Keys -> Seq(Guards)]
           /\ waiting_readers' \in [Keys -> SUBSET Guards]
<1>1. Without(queued_writers[k], g) \in Seq(Guards)
  BY WithoutFacts DEF LockTypes, QueuedOnce
<1> QED
  BY <1>1 DEF LockTypes, Leave

\* So does the end of a request; leaving a queue needs QueuedOnce.
LEMMA TypesStepAnswer ==
    ASSUME IInv, TInv, QueuedOnce, NEW a \in Tasks, Answer(a)
    PROVE  TInv'
<1> USE TaskFacts DEF Goto, Ends, Panics, AtReturn, Dequeues, otherVars, loopVars,
        queueVars, lockVars, methodVars
<1>1. CASE Dequeue(a)
  <2>1. PICK k \in togo[a] : at' = [at EXCEPT ![a] = k]
    BY <1>1 DEF Dequeue
  <2>2. k \in Keys
    BY DEF TInv, TaskTypes
  <2>3. LockTypes' /\ TxnTypes'
    BY <1>1, TypesUnchanged DEF Dequeue, TInv, LockTypes, stateVars
  <2>4. TaskTypes' /\ GuardInv'
    BY <1>1, <2>1, <2>2 DEF Dequeue, LockLabels, TInv, TaskTypes, GuardInv
  <2>5. PlaceInv'
    BY <1>1, <2>1, <2>2, LockLabelsAssumption
       DEF Dequeue, LockLabels, TInv, TaskTypes, PlaceInv
  <2> QED
    BY <2>3, <2>4, <2>5 DEF TInv
<1>2. CASE DequeueReserved(a)
  <2>1. PICK k \in togo[a] :
           /\ reservation' = [reservation EXCEPT ![k] = None]
           /\ at' = [at EXCEPT ![a] = k]
    BY <1>2 DEF DequeueReserved
  <2>2. k \in Keys
    BY DEF TInv, TaskTypes
  <2>3. LockTypes' /\ TxnTypes'
    BY <1>2, <2>1, TypesUnchanged DEF DequeueReserved, TInv, LockTypes
  <2>4. TaskTypes' /\ GuardInv' /\ PlaceInv'
    BY <1>2, <2>1, <2>2, LockLabelsAssumption
       DEF DequeueReserved, LockLabels, TInv, TaskTypes, GuardInv, PlaceInv
  <2> QED
    BY <2>3, <2>4 DEF TInv
<1>3. CASE LeaveQueues(a)
  <2>1. at[a] \in Keys
    BY <1>3, LockLabelsAssumption DEF LeaveQueues, LockLabels, TInv, GuardInv
  <2>2. LockTypes' /\ TxnTypes'
    BY <1>3, <2>1, LeaveTypes, TypesUnchanged DEF LeaveQueues, TInv, LockTypes
  <2>3. TaskTypes' /\ GuardInv' /\ PlaceInv'
    BY <1>3, LockLabelsAssumption
       DEF LeaveQueues, LockLabels, Passes, TInv, TaskTypes, GuardInv, PlaceInv
  <2> QED
    BY <2>2, <2>3 DEF TInv
<1>4. CASE Return(a)
  <2>1. LockTypes' /\ TxnTypes'
    BY <1>4, TypesUnchanged DEF Return, TInv
  <2> DEFINE waiter == {b \in Tasks : pc[b] = "await" /\ awaited[b] = a}
  <2>2. /\ pc' = [b \in Tasks |-> IF b = a THEN "idle"
                                 ELSE IF b \in waiter THEN "push" ELSE pc[b]]
        /\ togo' = [b \in Tasks |->
                      IF b \in waiter THEN togo[b] \ {at[b]} ELSE togo[b]]
        /\ awaited' = [b \in Tasks |->
                         IF b \in waiter THEN None ELSE awaited[b]]
    BY <1>4 DEF Return
  <2>3. /\ pc' \in [Tasks -> Labels] /\ pc'[a] = "idle"
        /\ \A b \in Tasks : b # a =>
              pc'[b] = pc[b] \/ (pc[b] = "await" /\ pc'[b] = "push")
    BY <2>2 DEF TInv, TaskTypes
  <2>4. togo' \in [Tasks -> SUBSET Keys] /\ awaited' \in [Tasks -> Tasks \cup {None}]
    BY <2>2 DEF TInv, TaskTypes
  <2>5. /\ ForgetRequest(a)
        /\ UNCHANGED <<todo, waiting_pushes, released, releasing, held>>
    BY <1>4 DEF Return
  <2>6. UNCHANGED <<lock_pc, waking>> /\ pc[a] = "dequeue" /\ lock_pc[a] = None
    BY <1>4 DEF Return
  <2>7. TaskTypes' /\ GuardInv'
    BY <2>3, <2>4, <2>5, <2>6 DEF ForgetRequest, TInv, TaskTypes, GuardInv
  <2>8. PlaceInv'
    <3>1. \A b \in Tasks : b # a => at'[b] = at[b] /\ request'[b] = request[b]
      BY <2>5 DEF ForgetRequest, TInv, TaskTypes
    <3>2. waking[a] = {}
      BY <2>6, LockLabelsAssumption DEF LockLabels, TInv, PlaceInv
    <3>3. \A b \in Tasks : pc'[b] = "scan" => togo'[b] = togo[b]
      BY <2>2, <2>3
    <3> QED
      BY <2>3, <2>6, <3>1, <3>2, <3>3, LockLabelsAssumption
         DEF LockLabels, TInv, PlaceInv
  <2> QED
    BY <2>1, <2>7, <2>8 DEF TInv
<1>5. CASE ReturnPanics(a)
  <2>1. LockTypes' /\ TxnTypes' /\ TaskTypes'
    BY <1>5, TypesUnchanged DEF ReturnPanics, TInv, TaskTypes
  <2>2. GuardInv' /\ PlaceInv'
    BY <1>5, LockLabelsAssumption
       DEF ReturnPanics, LockLabels, TInv, TaskTypes, GuardInv, PlaceInv
  <2> QED
    BY <2>1, <2>2 DEF TInv
<1>6. CASE Retry(a)
  <2>1. LockTypes' /\ TxnTypes' /\ TaskTypes'
    BY <1>6, TypesUnchanged DEF Retry, DeleteIntents, TInv, TxnTypes, TaskTypes
  <2>2. GuardInv' /\ PlaceInv'
    BY <1>6, LockLabelsAssumption
       DEF Retry, LockLabels, TInv, TaskTypes, GuardInv, PlaceInv
  <2> QED
    BY <2>1, <2>2 DEF TInv
<1> QED
  BY <1>1, <1>2, <1>3, <1>4, <1>5, <1>6 DEF Answer
-----------------------------------------------------------------------------
(* Queues and wake-ups *)

AtWriter(a) == lock_pc[a] \in {"reserve", "signal"}

\* The guard of a scan is in no queue yet, and nobody is about to signal it.
ScannersApart ==
    \A a \in Tasks : pc[a] = "scan" =>
        /\ \A k \in Keys : ~Queued(guard[a], k)
        /\ \A b \in Tasks : guard[a] \notin waking[b]

\* A writer that has been taken from its queue is in no other, and no other task
\* is about to signal it.
WritersApart ==
    \A a \in Tasks : AtWriter(a) => \A g \in waking[a] :
        /\ \A k \in Keys : ~Queued(g, k)
        /\ \A b \in Tasks : b # a => g \notin waking[b]

\* A reader that has been copied is in no queue of writers.
ReadersApart ==
    \A a \in Tasks : lock_pc[a] = "wake" => \A g \in waking[a] :
        \A k \in Keys : g \notin Range(queued_writers[k])

\* Where the guards are.
Apart == QueuedOnce /\ ScannersApart /\ WritersApart /\ ReadersApart

\* The guard of a put that has its key still to scan has its channel empty.
ScanningPutsFit ==
    \A a \in Tasks : pc[a] = "scan" /\ ~ReadOnly(request[a]) /\ togo[a] # {} =>
        guard[a] \notin signalled

\* The inductive invariant about the queues.
QInv == Apart /\ WriterWakeupFits /\ ScanningPutsFit /\ WritersAreWoken

\* No guard comes into a queue or is handed to a task that will signal it, and no
\* task starts to scan.
Fewer ==
    /\ \A k \in Keys : /\ IsInjective(queued_writers'[k])
                       /\ Range(queued_writers'[k]) \subseteq Range(queued_writers[k])
                       /\ waiting_readers'[k] \subseteq waiting_readers[k]
    /\ \A a \in Tasks : /\ waking'[a] \subseteq waking[a]
                        /\ AtWriter(a)' => AtWriter(a)
                        /\ lock_pc'[a] = "wake" => lock_pc[a] = "wake"
    /\ \A a \in Tasks : pc'[a] = "scan" =>
          /\ pc[a] = "scan" /\ guard'[a] = guard[a] /\ request'[a] = request[a]
          /\ togo'[a] \subseteq togo[a]

\* No task starts to wait, and one that waits keeps its guard and its request.
WaitersKept ==
    \A a \in Tasks : pc'[a] = "wait" =>
        pc[a] = "wait" /\ guard'[a] = guard[a] /\ request'[a] = request[a]

\* A task that has a writer to signal still has.
WritersKept ==
    \A a \in Tasks : AtWriter(a) =>
        AtWriter(a)' /\ UNCHANGED <<pc[a], at[a], waking[a]>>

\* Guards stay apart as long as none is added.
LEMMA FewerStep ==
    ASSUME Apart, Fewer
    PROVE  Apart'
<1>1. \A g : \A k \in Keys : Queued(g, k)' => Queued(g, k)
  BY DEF Fewer, Queued
<1>2. QueuedOnce'
  BY <1>1 DEF Apart, QueuedOnce, Fewer
<1>3. ScannersApart'
  BY <1>1 DEF Apart, ScannersApart, Fewer
<1>4. WritersApart'
  BY <1>1 DEF Apart, WritersApart, Fewer
<1>5. ReadersApart'
  BY DEF Apart, ReadersApart, Fewer
<1> QED
  BY <1>2, <1>3, <1>4, <1>5 DEF Apart

\* A message of a guard that is neither queued nor about to be signalled, nor the
\* guard of a put with its key still to scan, finds room, and takes nobody's.
LEMMA FitStep ==
    ASSUME TInv, WriterWakeupFits, ScanningPutsFit, Fewer, NEW g,
           signalled' \subseteq signalled \cup {g},
           \/ signalled' \subseteq signalled
           \/ /\ \A k \in Keys : g \notin Range(queued_writers'[k])
              /\ \A a \in Tasks : AtWriter(a)' => g \notin waking'[a]
              /\ \A a \in Tasks : pc'[a] = "scan" /\ ~ReadOnly(request'[a])
                                      /\ togo'[a] # {} => g # guard'[a]
    PROVE  WriterWakeupFits' /\ ScanningPutsFit'
<1>1. \A a \in Tasks : AtWriter(a) => waking[a] \cap signalled = {}
  BY DEF WriterWakeupFits, TInv, PlaceInv, Frees, AtWriter
<1>2. \A k \in Keys : Range(queued_writers'[k]) \cap signalled' = {}
  BY DEF WriterWakeupFits, Fewer
<1>3. \A a \in Tasks : AtWriter(a)' => waking'[a] \cap signalled' = {}
  BY <1>1 DEF Fewer
<1>4. WriterWakeupFits'
  BY <1>2, <1>3 DEF WriterWakeupFits, Frees, AtWriter
<1>5. ScanningPutsFit'
  BY DEF ScanningPutsFit, Fewer
<1> QED
  BY <1>4, <1>5

\* Who waits keeps its place or its message.
LEMMA WokenStep ==
    ASSUME WritersAreWoken, WaitersKept, WritersKept,
           UNCHANGED queued_writers, signalled \subseteq signalled'
    PROVE  WritersAreWoken'
<1> SUFFICES ASSUME NEW a \in Tasks, pc'[a] = "wait", ~ReadOnly(request'[a])
             PROVE  \/ guard'[a] \in signalled'
                                  \cup Range(queued_writers'[request'[a].key])
                    \/ \E b \in Tasks :
                          /\ Frees(b, "reserve")' \/ Frees(b, "signal")'
                          /\ at'[b] = request'[a].key /\ guard'[a] \in waking'[b]
  BY DEF WritersAreWoken
<1>1. pc[a] = "wait" /\ guard'[a] = guard[a] /\ request'[a] = request[a]
  BY DEF WaitersKept
<1>2. CASE guard[a] \in signalled \cup Range(queued_writers[request[a].key])
  BY <1>1, <1>2
<1>3. ASSUME NEW b \in Tasks, Frees(b, "reserve") \/ Frees(b, "signal"),
             at[b] = request[a].key, guard[a] \in waking[b]
      PROVE  /\ Frees(b, "reserve")' \/ Frees(b, "signal")'
             /\ at'[b] = request'[a].key /\ guard'[a] \in waking'[b]
  BY <1>1, <1>3 DEF WritersKept, AtWriter, Frees
<1> QED
  BY <1>1, <1>2, <1>3 DEF WritersAreWoken

\* A step that leaves the queues and the messages alone.
Quiet ==
    /\ UNCHANGED <<queued_writers, waiting_readers, waking, signalled>>
    /\ Fewer /\ WaitersKept /\ WritersKept

\* Most steps are quiet, and preserve the invariant.
LEMMA QuietStep ==
    ASSUME TInv, QInv, Quiet
    PROVE  QInv'
<1>1. Apart'
  BY FewerStep DEF QInv, Quiet
<1>2. WriterWakeupFits' /\ ScanningPutsFit'
  BY FitStep DEF QInv, Quiet
<1>3. WritersAreWoken'
  BY WokenStep DEF QInv, Quiet
<1> QED
  BY <1>1, <1>2, <1>3 DEF QInv

\* What a step has to leave alone to be quiet.
Still ==
    /\ UNCHANGED <<queued_writers, waiting_readers, waking, signalled>>
    /\ \A a \in Tasks : pc'[a] = "scan" =>
          /\ pc[a] = "scan" /\ guard'[a] = guard[a] /\ request'[a] = request[a]
          /\ togo'[a] \subseteq togo[a]
    /\ WaitersKept
    /\ \A a \in Tasks :
          \/ UNCHANGED <<pc[a], lock_pc[a], at[a]>>
          \/ lock_pc'[a] # "wake" /\ ~AtWriter(a) /\ ~AtWriter(a)'
          \/ AtWriter(a) /\ AtWriter(a)' /\ UNCHANGED <<pc[a], at[a]>>
          \/ lock_pc[a] = None /\ lock_pc'[a] = None

\* It is quiet then.
LEMMA StillIsQuiet ==
    ASSUME QInv, Still
    PROVE  Quiet
<1>1. Fewer
  BY LockLabelsAssumption
     DEF Still, Fewer, QInv, Apart, QueuedOnce, AtWriter, LockLabels
<1>2. WritersKept
  BY LockLabelsAssumption DEF Still, WritersKept, AtWriter, LockLabels
<1> QED
  BY <1>1, <1>2 DEF Quiet, Still

\* Still is a client that makes a request, ...
LEMMA StillIssue ==
    ASSUME TInv, NEW t \in Txns, Issue(t)
    PROVE  Still
<1> DEFINE a == Client(t)
<1>1. a \in Tasks /\ pc[a] = "idle" /\ pc' = [pc EXCEPT ![a] = "latch"]
  BY TaskFacts DEF Issue, Goto
<1>2. request' = [request EXCEPT ![a] = Head(todo[t])]
  BY DEF Issue
<1>3. UNCHANGED <<lockVars, loopVars>>
  BY DEF Issue
<1> HIDE DEF a
<1>4. lock_pc[a] = None
  BY <1>1 DEF TInv, PlaceInv
<1> QED
  BY <1>1, <1>2, <1>3, <1>4, LockLabelsAssumption
     DEF TInv, TaskTypes, Still, WaitersKept, AtWriter, LockLabels, lockVars,
         stateVars, methodVars, loopVars

\* ... a task that waits or pushes, except when it takes its message, ...
LEMMA StillWait ==
    ASSUME IInv, TInv, NEW a \in Tasks, Wait(a), ~WaitEnds(a)
    PROVE  Still
<1> USE TaskFacts, LockLabelsAssumption DEF TInv, TaskTypes, PlaceInv, Still,
    WaitersKept, AtWriter,
    LockLabels, Goto, Ends, Panics, lockVars, stateVars, methodVars, loopVars
<1>1. CASE WaitTimesOut(a)
  BY <1>1 DEF WaitTimesOut
<1>2. CASE PushSkips(a)
  BY <1>2 DEF PushSkips
<1>3. CASE PushUnwrapPanics(a)
  BY <1>3 DEF PushUnwrapPanics
<1>4. CASE PushStarts(a)
  BY <1>4 DEF PushStarts
<1>5. CASE PushesEnd(a)
  BY <1>5 DEF PushesEnd
<1>6. CASE PushReleased(a)
  BY <1>6 DEF PushReleased
<1>7. CASE PushFails(a)
  BY <1>7 DEF PushFails
<1>8. CASE PushPanics(a)
  BY <1>8 DEF PushPanics
<1>9. CASE EnqueueAndPush(a)
  BY <1>9 DEF EnqueueAndPush
<1>10. CASE PushFindsCycle(a)
  <2>1. pushee[a] \in Txns
    BY <1>10 DEF PushFindsCycle, IInv, PushInv
  <2>2. PICK b \in Reapers(pushee[a]) :
          /\ pc[b] = "idle" /\ pc' = [pc EXCEPT ![a] = "await", ![b] = "latch"]
          /\ request' = [request EXCEPT ![b] = AbortTxn]
    BY <1>10 DEF PushFindsCycle, IsNewReaper
  <2>3. b \in Tasks /\ pc[a] = "pushing"
    BY <1>10, <2>1, <2>2 DEF PushFindsCycle
  <2>4. /\ pc'[a] = "await" /\ pc'[b] = "latch"
        /\ \A c \in Tasks : c # a /\ c # b => pc'[c] = pc[c]
    BY <2>2, <2>3
  <2>5. /\ UNCHANGED <<queued_writers, waiting_readers, waking, signalled, lock_pc,
                       guard, togo, at>>
        /\ \A c \in Tasks : c # b => request'[c] = request[c]
    BY <1>10, <2>2 DEF PushFindsCycle
  <2> QED
    BY <2>2, <2>3, <2>4, <2>5
<1> QED
  BY <1>1, <1>2, <1>3, <1>4, <1>5, <1>6, <1>7, <1>8, <1>9, <1>10 DEF Wait

\* ... a scan between its first and its last step, unless it makes a
\* reservation, ...
LEMMA StillSequence ==
    ASSUME TInv, NEW a \in Tasks, Sequence(a),
           ~ScanStarts(a), ~ScanReserves(a), ~ScanWaits(a)
    PROVE  Still
<1> USE TaskFacts, LockLabelsAssumption DEF TInv, TaskTypes, PlaceInv, Still,
    WaitersKept, AtWriter,
    LockLabels, Goto, Panics, lockVars, stateVars, methodVars, loopVars,
    otherVars, Scans
<1>1. CASE ScanSkips(a)
  BY <1>1 DEF ScanSkips, Passes
<1>2. CASE ScanLooks(a)
  BY <1>2 DEF ScanLooks
<1>3. CASE ScanUnwrapPanics(a)
  BY <1>3 DEF ScanUnwrapPanics
<1>4. CASE ScanConflicts(a)
  BY <1>4 DEF ScanConflicts
<1>5. CASE ScanPasses(a)
  BY <1>5 DEF ScanPasses, Passes
<1>6. CASE ScanFindsFree(a)
  BY <1>6 DEF ScanFindsFree
<1>7. CASE ScanEnds(a)
  BY <1>7 DEF ScanEnds
<1> QED
  BY <1>1, <1>2, <1>3, <1>4, <1>5, <1>6, <1>7 DEF Sequence

\* ... the evaluation of a request, ...
LEMMA StillExecute ==
    ASSUME TInv, NEW a \in Tasks, Execute(a)
    PROVE  Still
<1> USE TaskFacts, LockLabelsAssumption DEF TInv, TaskTypes, PlaceInv, Still,
    WaitersKept, AtWriter,
    LockLabels, Goto, Ends, Panics, lockVars, stateVars, methodVars, loopVars
<1>1. CASE PutMeetsIntent(a)
  BY <1>1 DEF PutMeetsIntent, AtPut, FinishReq
<1>2. CASE PutIntentPanics(a)
  BY <1>2 DEF PutIntentPanics, AtPut
<1>3. CASE PutLockPanics(a)
  BY <1>3 DEF PutLockPanics, AtPut
<1>4. CASE Put(a)
  BY <1>4 DEF Put, AtPut, FinishReq
<1>5. CASE GetMeetsIntent(a)
  BY <1>5 DEF GetMeetsIntent, AtGet, FinishReq
<1>6. CASE Get(a)
  BY <1>6 DEF Get, AtGet, FinishReq
<1>7. CASE CommitFindsAborted(a)
  BY <1>7 DEF CommitFindsAborted, AtCommit
<1>8. CASE CommitCannotRefresh(a)
  BY <1>8 DEF CommitCannotRefresh, AtCommit, FinishReq
<1>9. CASE CommitRefreshes(a)
  BY <1>9 DEF CommitRefreshes, AtCommit
<1>10. CASE Commit(a)
  BY <1>10 DEF Commit
<1>11. CASE AbortFindsCommitted(a)
  BY <1>11 DEF AbortFindsCommitted, AtAbort, FinishReq
<1>12. CASE AbortProceeds(a)
  BY <1>12 DEF AbortProceeds, AtAbort
<1>13. CASE Abort(a)
  BY <1>13 DEF Abort
<1>14. CASE AbortIntents(a)
  BY <1>14 DEF AbortIntents
<1>15. CASE UpdateTxnLocks(a)
  BY <1>15 DEF UpdateTxnLocks
<1>16. CASE UnlockSkips(a)
  BY <1>16 DEF UnlockSkips, AtUnlock
<1>17. CASE Unlock(a)
  BY <1>17 DEF Unlock, AtUnlock, otherVars
<1>18. CASE FinalizeFindsNone(a)
  BY <1>18 DEF FinalizeFindsNone, AtUnlock, FinishReq
<1>19. CASE Finalize(a)
  BY <1>19 DEF Finalize, AtUnlock
<1>20. CASE ReleasePush(a)
  BY <1>20 DEF ReleasePush
<1>21. CASE FinalizeEnds(a)
  BY <1>21 DEF FinalizeEnds, FinishReq
<1> QED
  BY <1>1, <1>2, <1>3, <1>4, <1>5, <1>6, <1>7, <1>8, <1>9, <1>10, <1>11, <1>12,
      <1>13, <1>14, <1>15, <1>16, <1>17, <1>18, <1>19, <1>20, <1>21 DEF Execute

\* ... lock_is_free, when it neither takes a guard nor signals one, ...
LEMMA StillFree ==
    ASSUME TInv, NEW a \in Tasks, CheckFree(a) \/ CheckPanics(a)
               \/ NextIsNone(a) \/ ReserveNext(a)
    PROVE  Still
<1> USE TaskFacts, LockLabelsAssumption DEF TInv, TaskTypes, PlaceInv, Still,
    WaitersKept, AtWriter,
    LockLabels, Goto, Panics, lockVars, stateVars, methodVars, loopVars,
    otherVars, Frees
<1>1. CASE CheckFree(a)
  BY <1>1 DEF CheckFree
<1>2. CASE CheckPanics(a)
  BY <1>2 DEF CheckPanics
<1>3. CASE NextIsNone(a)
  BY <1>3 DEF NextIsNone, LockIsFreeReturns, Passes
<1>4. CASE ReserveNext(a)
  BY <1>4 DEF ReserveNext
<1> QED
  BY <1>1, <1>2, <1>3, <1>4 DEF Labels

\* ... and the answer, but for the end of request_done.
LEMMA StillAnswer ==
    ASSUME TInv, NEW a \in Tasks, Answer(a), ~LeaveQueues(a)
    PROVE  Still
<1> USE TaskFacts, LockLabelsAssumption DEF TInv, TaskTypes, PlaceInv, Still,
    WaitersKept, AtWriter,
    LockLabels, Goto, Panics, lockVars, stateVars, methodVars, loopVars,
    otherVars, Dequeues, AtReturn
<1>1. CASE Dequeue(a)
  BY <1>1 DEF Dequeue
<1>2. CASE DequeueReserved(a)
  BY <1>2 DEF DequeueReserved
<1>3. CASE Return(a)
  BY <1>3 DEF Return, ForgetRequest
<1>4. CASE ReturnPanics(a)
  BY <1>4 DEF ReturnPanics
<1>5. CASE Retry(a)
  BY <1>5 DEF Retry, Ends
<1> QED
  BY <1>1, <1>2, <1>3, <1>4, <1>5 DEF Answer

-----------------------------------------------------------------------------
(* The steps that are not still *)

\* A task takes its message.
LEMMA QueueStepWaitEnds ==
    ASSUME TInv, QInv, NEW a \in Tasks, WaitEnds(a)
    PROVE  QInv'
<1>1. /\ pc[a] = "wait" /\ pc' = [pc EXCEPT ![a] = "latch"]
      /\ signalled' = signalled \ {guard[a]}
      /\ UNCHANGED <<queued_writers, waiting_readers, lock_pc, waking, guard, at,
                     togo, request>>
  BY DEF WaitEnds, Goto, stateVars, methodVars, loopVars
<1>2. Fewer
  BY <1>1 DEF Fewer, QInv, Apart, QueuedOnce, AtWriter, TInv, TaskTypes
<1>3. Apart' /\ WriterWakeupFits' /\ ScanningPutsFit'
  BY <1>1, <1>2, FewerStep, FitStep DEF QInv
<1>4. \A b \in Tasks : b # a /\ pc[b] = "wait" => guard[b] # guard[a]
  BY <1>1, GuardFacts DEF TInv, GuardInv
<1>5. \A b, c \in Tasks : b # a /\ pc'[b] = "wait" =>
         /\ pc[b] = "wait"
         /\ Frees(c, "reserve") \/ Frees(c, "signal") =>
               Frees(c, "reserve")' \/ Frees(c, "signal")'
  BY <1>1 DEF Frees, TInv, TaskTypes
<1>6. WritersAreWoken'
  BY <1>1, <1>4, <1>5 DEF QInv, WritersAreWoken, TInv, TaskTypes
<1> QED
  BY <1>3, <1>6 DEF QInv

\* A scan starts with a guard that nothing refers to.
LEMMA QueueStepScanStarts ==
    ASSUME TInv, QInv, NEW a \in Tasks, ScanStarts(a)
    PROVE  QInv'
<1>1. PICK g \in GuardsOf(a) :
        /\ pc[a] = "latch" /\ pc' = [pc EXCEPT ![a] = "scan"]
        /\ ~Referenced(g)
        /\ guard' = [guard EXCEPT ![a] = g]
        /\ signalled' = signalled \ {g}
        /\ UNCHANGED <<queued_writers, waiting_readers, lock_pc, waking, at, request>>
        /\ \A b \in Tasks : b # a => togo'[b] = togo[b]
  BY DEF ScanStarts, Sequences, IsNewGuard, Goto, stateVars, methodVars,
         TInv, TaskTypes
<1>2. /\ \A k \in Keys : ~Queued(g, k)
      /\ \A b \in Tasks : g \notin waking[b]
  BY <1>1 DEF Referenced, AtLock
<1>3. /\ pc'[a] = "scan" /\ guard'[a] = g
      /\ \A b \in Tasks : b # a => pc'[b] = pc[b] /\ guard'[b] = guard[b]
  BY <1>1 DEF TInv, TaskTypes
<1>4. Apart'
  <2>1. QueuedOnce' /\ ReadersApart' /\ WritersApart'
    BY <1>1 DEF QInv, Apart, QueuedOnce, Queued, ReadersApart, WritersApart, AtWriter
  <2>2. ScannersApart'
    BY <1>1, <1>2, <1>3 DEF QInv, Apart, ScannersApart, Queued
  <2> QED
    BY <2>1, <2>2 DEF Apart
<1>5. WriterWakeupFits'
  <2>1. \A b \in Tasks : Frees(b, "reserve")' \/ Frees(b, "signal")' =>
           Frees(b, "reserve") \/ Frees(b, "signal")
    BY <1>1, <1>3 DEF Frees
  <2> QED
    BY <1>1, <2>1 DEF QInv, WriterWakeupFits
<1>6. ScanningPutsFit'
  BY <1>1, <1>3 DEF QInv, ScanningPutsFit
<1>7. WritersAreWoken'
  <2>1. \A b \in Tasks : pc'[b] = "wait" =>
           pc[b] = "wait" /\ guard'[b] = guard[b] /\ guard[b] # g
    BY <1>1, <1>3, GuardFacts DEF TInv, GuardInv
  <2>2. \A b \in Tasks : Frees(b, "reserve") \/ Frees(b, "signal") =>
           Frees(b, "reserve")' \/ Frees(b, "signal")'
    BY <1>1, <1>3 DEF Frees
  <2> QED
    BY <1>1, <2>1, <2>2 DEF QInv, WritersAreWoken
<1> QED
  BY <1>4, <1>5, <1>6, <1>7 DEF QInv

\* A scan reserves a free lock, and signals its guard.
LEMMA QueueStepScanReserves ==
    ASSUME TInv, QInv, NEW a \in Tasks, ScanReserves(a)
    PROVE  QInv'
<1>1. /\ pc[a] = "scan" /\ lock_pc[a] = "claim"
      /\ signalled' = signalled \cup {guard[a]}
      /\ lock_pc' = [lock_pc EXCEPT ![a] = None]
      /\ at' = [at EXCEPT ![a] = None]
      /\ togo' = [togo EXCEPT ![a] = @ \ {at[a]}]
      /\ UNCHANGED <<queued_writers, waiting_readers, waking, pc, guard, request>>
  BY DEF ScanReserves, Scans, Passes, otherVars
<1>2. /\ \A b \in Tasks : b # a => /\ lock_pc'[b] = lock_pc[b] /\ togo'[b] = togo[b]
                                   /\ at'[b] = at[b]
      /\ lock_pc'[a] = None /\ togo'[a] = togo[a] \ {at[a]}
  BY <1>1 DEF TInv, TaskTypes
<1>3. Fewer /\ WaitersKept /\ WritersKept
  BY <1>1, <1>2, LockLabelsAssumption
     DEF Fewer, WaitersKept, WritersKept, QInv, Apart, QueuedOnce, AtWriter, LockLabels
<1>4. Apart' /\ WritersAreWoken'
  BY <1>1, <1>3, FewerStep, WokenStep DEF QInv
<1>5. /\ \A k \in Keys : guard[a] \notin Range(queued_writers'[k])
      /\ \A b \in Tasks : guard[a] \notin waking'[b]
  BY <1>1 DEF QInv, Apart, ScannersApart, Queued
<1>6. \A b \in Tasks : pc'[b] = "scan" /\ ~ReadOnly(request'[b]) /\ togo'[b] # {} =>
         guard[a] # guard'[b]
  <2>1. ~ReadOnly(request[a]) => togo'[a] = {}
    BY <1>1, <1>2, LockLabelsAssumption DEF LockLabels, TInv, PlaceInv
  <2>2. \A b \in Tasks : b # a /\ pc[b] = "scan" => guard[b] # guard[a]
    BY <1>1, GuardFacts DEF TInv, GuardInv
  <2> QED
    BY <1>1, <2>1, <2>2
<1>7. WriterWakeupFits' /\ ScanningPutsFit'
  BY <1>1, <1>3, <1>5, <1>6, FitStep DEF QInv
<1> QED
  BY <1>4, <1>7 DEF QInv

\* A scan ends with its guard in a queue, where it has not been before.
LEMMA QueueStepScanWaits ==
    ASSUME IInv, TInv, QInv, NEW a \in Tasks, ScanWaits(a)
    PROVE  QInv'
<1> DEFINE g == guard[a]
           k == at[a]
<1>1. /\ pc[a] = "scan" /\ lock_pc[a] = "conflict"
      /\ Enqueue(k, g, ReadOnly(request[a]))
      /\ lock_pc' = [lock_pc EXCEPT ![a] = None]
      /\ at' = [at EXCEPT ![a] = None]
      /\ pc' = [pc EXCEPT ![a] = "wait"]
      /\ UNCHANGED <<waking, signalled, guard, request>>
      /\ \A b \in Tasks : b # a => togo'[b] = togo[b]
  BY DEF ScanWaits, Scans, Goto, otherVars, TInv, TaskTypes
<1>2. k \in Keys /\ g \in Guards
  BY <1>1, GuardFacts, LockLabelsAssumption DEF LockLabels, TInv, GuardInv
<1>3. ~ReadOnly(request[a]) => k = request[a].key /\ g \notin signalled
  BY <1>1, LockLabelsAssumption
     DEF LockLabels, TInv, PlaceInv, QInv, ScanningPutsFit
<1>4. /\ \A l \in Keys : ~Queued(g, l)
      /\ \A b \in Tasks : g \notin waking[b]
  BY <1>1 DEF QInv, Apart, ScannersApart
<1>5. /\ lock_pc'[a] = None /\ pc'[a] = "wait"
      /\ \A b \in Tasks : b # a =>
            pc'[b] = pc[b] /\ lock_pc'[b] = lock_pc[b] /\ at'[b] = at[b]
  BY <1>1 DEF TInv, TaskTypes
<1>6. \A b \in Tasks : b # a /\ (AtWork(b) /\ pc[b] # "latch") => guard[b] # g
  BY <1>1, GuardFacts DEF TInv, GuardInv
<1>7. /\ IsInjective(queued_writers'[k])
      /\ Range(queued_writers'[k]) =
            Range(queued_writers[k]) \cup (IF ReadOnly(request[a]) THEN {} ELSE {g})
      /\ waiting_readers'[k] =
            waiting_readers[k] \cup (IF ReadOnly(request[a]) THEN {g} ELSE {})
      /\ \A l \in Keys : l # k => /\ queued_writers'[l] = queued_writers[l]
                                  /\ waiting_readers'[l] = waiting_readers[l]
  <2>1. queued_writers[k] \in Seq(Guards) /\ IsInjective(queued_writers[k])
    BY <1>2 DEF TInv, LockTypes, QInv, Apart, QueuedOnce
  <2>2. CASE ReadOnly(request[a])
    <3>1. /\ waiting_readers' = [waiting_readers EXCEPT ![k] = @ \cup {g}]
          /\ queued_writers' = queued_writers
      BY <1>1, <2>2 DEF Enqueue
    <3> HIDE DEF k, g
    <3> QED
      BY <1>2, <2>1, <2>2, <3>1 DEF TInv, LockTypes
  <2>3. CASE ~ReadOnly(request[a])
    <3>1. /\ queued_writers' = [queued_writers EXCEPT ![k] = Append(@, g)]
          /\ waiting_readers' = waiting_readers
      BY <1>1, <2>3 DEF Enqueue
    <3>2. /\ Range(Append(queued_writers[k], g)) = Range(queued_writers[k]) \cup {g}
          /\ IsInjective(Append(queued_writers[k], g))
      BY <1>2, <1>4, <2>1, AppendFacts DEF Queued
    <3> HIDE DEF k, g
    <3> QED
      BY <1>2, <2>3, <3>1, <3>2 DEF TInv, LockTypes
  <2> QED
    BY <2>2, <2>3
<1> HIDE DEF g, k
<1>8. \A h : \A l \in Keys : Queued(h, l)' => Queued(h, l) \/ (h = g /\ l = k)
  BY <1>7 DEF Queued
<1>9. Apart'
  <2>1. QueuedOnce'
    <3>1. ASSUME NEW l \in Keys
          PROVE  /\ IsInjective(queued_writers'[l])
                 /\ Range(queued_writers'[l]) \cap waiting_readers'[l] = {}
      BY <1>4, <1>7 DEF QInv, Apart, QueuedOnce, Queued
    <3>2. ASSUME NEW l \in Keys, NEW m \in Keys, NEW h \in Guards,
                 Queued(h, l)', Queued(h, m)'
          PROVE  l = m
      BY <1>4, <1>8, <3>2 DEF QInv, Apart, QueuedOnce
    <3> QED
      BY <3>1, <3>2 DEF QueuedOnce, Queued
  <2>2. ScannersApart'
    BY <1>1, <1>5, <1>6, <1>8 DEF QInv, Apart, ScannersApart
  <2>3. WritersApart'
    BY <1>1, <1>4, <1>5, <1>8, LockLabelsAssumption
       DEF QInv, Apart, WritersApart, AtWriter, LockLabels
  <2>4. ReadersApart'
    <3>1. \A l \in Keys : Range(queued_writers'[l]) \subseteq Range(queued_writers[l]) \cup {g}
      BY <1>7
    <3> QED
      BY <1>1, <1>4, <1>5, <3>1, LockLabelsAssumption
         DEF QInv, Apart, ReadersApart, LockLabels
  <2> QED
    BY <2>1, <2>2, <2>3, <2>4 DEF Apart
<1>10. WriterWakeupFits'
  <2>1. \A b \in Tasks : Frees(b, "reserve")' \/ Frees(b, "signal")' =>
           Frees(b, "reserve") \/ Frees(b, "signal")
    BY <1>1, <1>5 DEF Frees
  <2>2. \A l \in Keys : Range(queued_writers'[l]) \cap signalled = {}
    BY <1>3, <1>7 DEF QInv, WriterWakeupFits
  <2> QED
    BY <1>1, <2>1, <2>2 DEF QInv, WriterWakeupFits
<1>11. ScanningPutsFit'
  BY <1>1, <1>5 DEF QInv, ScanningPutsFit
<1>12. WritersAreWoken'
  <2> SUFFICES ASSUME NEW b \in Tasks, pc'[b] = "wait", ~ReadOnly(request[b])
               PROVE  \/ guard[b] \in signalled
                                    \cup Range(queued_writers'[request[b].key])
                      \/ \E c \in Tasks :
                            /\ Frees(c, "reserve")' \/ Frees(c, "signal")'
                            /\ at'[c] = request[b].key /\ guard[b] \in waking[c]
    BY <1>1 DEF WritersAreWoken
  <2>1. CASE b = a
    BY <1>3, <1>7, <2>1 DEF g
  <2>2. CASE b # a
    <3>1. pc[b] = "wait"
      BY <1>5, <2>2
    <3>2. \A c \in Tasks : Frees(c, "reserve") \/ Frees(c, "signal") =>
             (Frees(c, "reserve")' \/ Frees(c, "signal")') /\ at'[c] = at[c]
      BY <1>1, <1>5 DEF Frees
    <3>3. request[b].key \in Keys
      BY <3>1, RequestFacts DEF IInv, RequestInv, ReadOnly
    <3>4. Range(queued_writers[request[b].key])
             \subseteq Range(queued_writers'[request[b].key])
      BY <1>7, <3>3
    <3> QED
      BY <3>1, <3>2, <3>4 DEF QInv, WritersAreWoken
  <2> QED
    BY <2>1, <2>2
<1> QED
  BY <1>9, <1>10, <1>11, <1>12 DEF QInv

\* A guard leaves the queues of a key; no other task waits with it.
LEMMA QueueStepLeave ==
    ASSUME TInv, QInv, NEW a \in Tasks, LeaveQueues(a)
    PROVE  QInv'
<1> DEFINE g == guard[a]
           k == at[a]
           q == Without(queued_writers[k], g)
<1>1. /\ pc[a] = "dequeue" /\ lock_pc[a] = "leave"
      /\ queued_writers' = [queued_writers EXCEPT ![k] = q]
      /\ waiting_readers' = [waiting_readers EXCEPT ![k] = @ \ {g}]
      /\ lock_pc' = [lock_pc EXCEPT ![a] = None]
      /\ at' = [at EXCEPT ![a] = None]
      /\ UNCHANGED <<waking, signalled, pc, guard, request>>
      /\ \A b \in Tasks : b # a => togo'[b] = togo[b]
  BY DEF LeaveQueues, Leave, Dequeues, Passes, otherVars, TInv, TaskTypes
<1>2. k \in Keys /\ g \in Guards
  BY <1>1, GuardFacts, LockLabelsAssumption DEF LockLabels, TInv, GuardInv
<1>3. queued_writers[k] \in Seq(Guards) /\ IsInjective(queued_writers[k])
  BY <1>2 DEF TInv, LockTypes, QInv, Apart, QueuedOnce
<1>4. IsInjective(q) /\ Range(q) = Range(queued_writers[k]) \ {g}
  BY <1>3, WithoutFacts
<1> HIDE DEF g, k, q
<1>5. /\ lock_pc'[a] = None
      /\ \A b \in Tasks : b # a => lock_pc'[b] = lock_pc[b] /\ at'[b] = at[b]
  BY <1>1 DEF TInv, TaskTypes
<1>6. /\ queued_writers'[k] = q /\ waiting_readers'[k] = waiting_readers[k] \ {g}
      /\ \A l \in Keys : l # k => /\ queued_writers'[l] = queued_writers[l]
                                  /\ waiting_readers'[l] = waiting_readers[l]
  BY <1>1, <1>2 DEF TInv, LockTypes
<1>7. Fewer
  <2>1. ASSUME NEW l \in Keys
        PROVE  /\ IsInjective(queued_writers'[l])
               /\ Range(queued_writers'[l]) \subseteq Range(queued_writers[l])
               /\ waiting_readers'[l] \subseteq waiting_readers[l]
    BY <1>4, <1>6 DEF QInv, Apart, QueuedOnce
  <2> QED
    BY <1>1, <1>5, <2>1, LockLabelsAssumption DEF Fewer, AtWriter, LockLabels
<1>8. Apart' /\ WriterWakeupFits' /\ ScanningPutsFit'
  BY <1>1, <1>7, FewerStep, FitStep DEF QInv
<1>9. WritersAreWoken'
  <2> SUFFICES ASSUME NEW b \in Tasks, pc[b] = "wait", ~ReadOnly(request[b])
               PROVE  \/ guard[b] \in signalled
                                    \cup Range(queued_writers'[request[b].key])
                      \/ \E c \in Tasks :
                            /\ Frees(c, "reserve")' \/ Frees(c, "signal")'
                            /\ at'[c] = request[b].key /\ guard[b] \in waking[c]
    BY <1>1 DEF WritersAreWoken
  <2>1. guard[b] # g
    BY <1>1, GuardFacts DEF TInv, GuardInv, g
  <2>2. \A c \in Tasks : Frees(c, "reserve") \/ Frees(c, "signal") =>
           (Frees(c, "reserve")' \/ Frees(c, "signal")') /\ at'[c] = at[c]
    BY <1>1, <1>5 DEF Frees
  <2>3. \A l : guard[b] \in Range(queued_writers[l]) =>
           guard[b] \in Range(queued_writers'[l])
    BY <1>1, <1>2, <1>4, <2>1 DEF TInv, LockTypes
  <2> QED
    BY <2>2, <2>3 DEF QInv, WritersAreWoken
<1> QED
  BY <1>8, <1>9 DEF QInv

\* The readers are copied: they are queued, so no scan and no writer has their guards.
LEMMA QueueStepCopy ==
    ASSUME TInv, QInv, NEW a \in Tasks, CopyReaders(a)
    PROVE  QInv'
<1>1. /\ pc[a] \in {"unlock", "dequeue"} /\ lock_pc[a] = "copy"
      /\ waking' = [waking EXCEPT ![a] = waiting_readers[at[a]]]
      /\ lock_pc' = [lock_pc EXCEPT ![a] = "wake"]
      /\ UNCHANGED <<queued_writers, waiting_readers, signalled, pc, guard, request,
                     togo, at>>
  BY DEF CopyReaders, Frees, stateVars, otherVars
<1>2. at[a] \in Keys
  BY <1>1, LockLabelsAssumption DEF LockLabels, TInv, GuardInv
<1>3. \A g \in waiting_readers[at[a]] :
         Queued(g, at[a]) /\ \A k \in Keys : g \notin Range(queued_writers[k])
  BY <1>2 DEF QInv, Apart, QueuedOnce, Queued, TInv, LockTypes
<1>4. /\ lock_pc'[a] = "wake" /\ waking'[a] = waiting_readers[at[a]]
      /\ \A b \in Tasks : b # a => lock_pc'[b] = lock_pc[b] /\ waking'[b] = waking[b]
  BY <1>1 DEF TInv, LockTypes, TaskTypes
<1>5. Apart'
  <2>1. QueuedOnce'
    BY <1>1 DEF QInv, Apart, QueuedOnce, Queued
  <2>2. ScannersApart'
    BY <1>1, <1>2, <1>3, <1>4 DEF QInv, Apart, ScannersApart, Queued
  <2>3. WritersApart'
    BY <1>1, <1>2, <1>3, <1>4 DEF QInv, Apart, WritersApart, AtWriter, Queued
  <2>4. ReadersApart'
    BY <1>1, <1>3, <1>4 DEF QInv, Apart, ReadersApart
  <2> QED
    BY <2>1, <2>2, <2>3, <2>4 DEF Apart
<1>6. WriterWakeupFits'
  BY <1>1, <1>4 DEF QInv, WriterWakeupFits, Frees
<1>7. ScanningPutsFit'
  BY <1>1 DEF QInv, ScanningPutsFit
<1>8. WritersAreWoken'
  BY <1>1, <1>4, WokenStep DEF QInv, WaitersKept, WritersKept, AtWriter
<1> QED
  BY <1>5, <1>6, <1>7, <1>8 DEF QInv

\* A reader gets its message.
LEMMA QueueStepWake ==
    ASSUME TInv, QInv, NEW a \in Tasks, WakeReader(a)
    PROVE  QInv'
<1>1. PICK r \in waking[a] :
         /\ signalled' = signalled \cup {r}
         /\ waking' = [waking EXCEPT ![a] = @ \ {r}]
  BY DEF WakeReader
<1>2. /\ pc[a] \in {"unlock", "dequeue"} /\ lock_pc[a] = "wake"
      /\ UNCHANGED <<queued_writers, waiting_readers, lock_pc, pc, guard, request,
                     togo, at>>
  BY DEF WakeReader, Frees, stateVars, otherVars
<1>3. /\ waking'[a] = waking[a] \ {r}
      /\ \A b \in Tasks : b # a => waking'[b] = waking[b]
  BY <1>1 DEF TInv, LockTypes
<1>4. Fewer /\ WaitersKept /\ WritersKept
  BY <1>2, <1>3
     DEF Fewer, WaitersKept, WritersKept, QInv, Apart, QueuedOnce, AtWriter
<1>5. Apart' /\ WritersAreWoken'
  BY <1>1, <1>2, <1>4, FewerStep, WokenStep DEF QInv
<1>6. /\ \A k \in Keys : r \notin Range(queued_writers'[k])
      /\ \A b \in Tasks : AtWriter(b)' => r \notin waking'[b]
      /\ \A b \in Tasks : pc'[b] = "scan" => r # guard'[b]
  BY <1>1, <1>2, <1>3
     DEF QInv, Apart, ReadersApart, WritersApart, ScannersApart, AtWriter
<1>7. WriterWakeupFits' /\ ScanningPutsFit'
  BY <1>1, <1>4, <1>6, FitStep DEF QInv
<1> QED
  BY <1>5, <1>7 DEF QInv

\* The readers are forgotten.
LEMMA QueueStepClear ==
    ASSUME TInv, QInv, NEW a \in Tasks, ClearReaders(a)
    PROVE  QInv'
<1>1. /\ lock_pc[a] = "wake"
      /\ waiting_readers' = [waiting_readers EXCEPT ![at[a]] = {}]
      /\ lock_pc' = [lock_pc EXCEPT ![a] = "next"]
      /\ UNCHANGED <<queued_writers, waking, signalled, pc, guard, request, togo, at>>
  BY DEF ClearReaders, Frees, otherVars
<1>2. \A k \in Keys : waiting_readers'[k] \subseteq waiting_readers[k]
  BY <1>1 DEF TInv, LockTypes
<1>3. /\ lock_pc'[a] = "next"
      /\ \A b \in Tasks : b # a => lock_pc'[b] = lock_pc[b]
  BY <1>1 DEF TInv, TaskTypes
<1>4. Fewer /\ WaitersKept /\ WritersKept
  BY <1>1, <1>2, <1>3
     DEF Fewer, WaitersKept, WritersKept, QInv, Apart, QueuedOnce, AtWriter
<1>5. Apart' /\ WritersAreWoken'
  BY <1>1, <1>4, FewerStep, WokenStep DEF QInv
<1>6. WriterWakeupFits' /\ ScanningPutsFit'
  BY <1>1, <1>4, FitStep DEF QInv
<1> QED
  BY <1>5, <1>6 DEF QInv

\* The first writer leaves its queue, its only one, for the hands of the task.
LEMMA QueueStepNext ==
    ASSUME IInv, TInv, QInv, NEW a \in Tasks, NextWriter(a)
    PROVE  QInv'
<1> DEFINE k == at[a]
           q == queued_writers[k]
<1>1. /\ pc[a] \in {"unlock", "dequeue"} /\ lock_pc[a] = "next" /\ q # <<>>
      /\ queued_writers' = [queued_writers EXCEPT ![k] = Tail(q)]
      /\ waking' = [waking EXCEPT ![a] = {Head(q)}]
      /\ lock_pc' = [lock_pc EXCEPT ![a] = "reserve"]
      /\ UNCHANGED <<waiting_readers, signalled, pc, guard, request, togo, at>>
  BY DEF NextWriter, RemoveFirstWriter, Frees, otherVars
<1>2. k \in Keys
  BY <1>1, LockLabelsAssumption DEF LockLabels, TInv, GuardInv
<1>3. q \in Seq(Guards) /\ IsInjective(q)
  BY <1>2 DEF TInv, LockTypes, QInv, Apart, QueuedOnce
<1>4. PICK h \in Guards :
         /\ h = Head(q) /\ Range(q) = {h} \cup Range(Tail(q))
         /\ IsInjective(Tail(q)) /\ h \notin Range(Tail(q))
  BY <1>1, <1>3, HeadTailFacts
<1>5. h \in Range(queued_writers[k])
  BY <1>4
<1>6. /\ queued_writers'[k] = Tail(q)
      /\ \A l \in Keys : l # k => queued_writers'[l] = queued_writers[l]
  BY <1>1, <1>2 DEF TInv, LockTypes
<1>7. /\ lock_pc'[a] = "reserve" /\ waking'[a] = {h}
      /\ \A b \in Tasks : b # a => lock_pc'[b] = lock_pc[b] /\ waking'[b] = waking[b]
  BY <1>1, <1>4 DEF TInv, LockTypes, TaskTypes
<1>8. \A l \in Keys : /\ IsInjective(queued_writers'[l])
                      /\ Range(queued_writers'[l]) \subseteq Range(queued_writers[l])
  BY <1>4, <1>6 DEF QInv, Apart, QueuedOnce
<1> HIDE DEF q, k
<1>9. \A l \in Keys : ~Queued(h, l)'
  <2>1. Queued(h, k) /\ h \notin waiting_readers[k]
    BY <1>2, <1>5 DEF Queued, QInv, Apart, QueuedOnce
  <2>2. \A l \in Keys : Queued(h, l) => l = k
    BY <1>2, <1>4, <2>1 DEF QInv, Apart, QueuedOnce
  <2>3. ASSUME NEW l \in Keys PROVE ~Queued(h, l)'
    <3>1. CASE l = k
      BY <1>1, <1>4, <1>6, <2>1, <3>1 DEF Queued
    <3>2. CASE l # k
      BY <1>1, <1>6, <2>2, <3>2 DEF Queued
    <3> QED
      BY <3>1, <3>2
  <2> QED
    BY <2>3
<1>10. \A b \in Tasks : h \notin waking[b]
  <2>1. \A b \in Tasks : waking[b] # {} => lock_pc[b] = "wake" \/ AtWriter(b)
    BY DEF TInv, PlaceInv, AtWriter
  <2> QED
    BY <1>2, <1>5, <2>1 DEF QInv, Apart, ReadersApart, WritersApart, Queued
<1>11. Apart'
  <2>1. \A g : \A l \in Keys : Queued(g, l)' => Queued(g, l)
    BY <1>1, <1>8 DEF Queued
  <2>2. QueuedOnce'
    BY <1>1, <1>8, <2>1 DEF QInv, Apart, QueuedOnce
  <2>3. ScannersApart'
    BY <1>1, <1>2, <1>5, <1>7, <2>1 DEF QInv, Apart, ScannersApart, Queued
  <2>4. WritersApart'
    <3>1. ASSUME NEW b \in Tasks, AtWriter(b)', NEW g \in waking'[b]
          PROVE  /\ \A l \in Keys : ~Queued(g, l)'
                 /\ \A c \in Tasks : c # b => g \notin waking'[c]
      <4>1. CASE b = a
        <5>1. g = h
          BY <1>7, <3>1, <4>1
        <5>2. \A c \in Tasks : c # b => waking'[c] = waking[c]
          BY <1>7, <4>1
        <5> QED
          BY <1>9, <1>10, <5>1, <5>2
      <4>2. CASE b # a
        <5>1. AtWriter(b) /\ g \in waking[b] /\ g # h
          BY <1>7, <1>10, <3>1, <4>2 DEF AtWriter
        <5> QED
          BY <1>7, <2>1, <4>2, <5>1 DEF QInv, Apart, WritersApart
      <4> QED
        BY <4>1, <4>2
    <3> QED
      BY <3>1 DEF WritersApart
  <2>5. ReadersApart'
    BY <1>7, <1>8 DEF QInv, Apart, ReadersApart
  <2> QED
    BY <2>2, <2>3, <2>4, <2>5 DEF Apart
<1>12. WriterWakeupFits'
  <2>1. h \notin signalled
    BY <1>2, <1>5 DEF QInv, WriterWakeupFits
  <2>2. \A l \in Keys : Range(queued_writers'[l]) \cap signalled' = {}
    BY <1>1, <1>8 DEF QInv, WriterWakeupFits
  <2> QED
    BY <1>1, <1>7, <2>1, <2>2 DEF QInv, WriterWakeupFits, Frees
<1>13. ScanningPutsFit'
  BY <1>1 DEF QInv, ScanningPutsFit
<1>14. WritersAreWoken'
  <2> SUFFICES ASSUME NEW b \in Tasks, pc[b] = "wait", ~ReadOnly(request[b])
               PROVE  \/ guard[b] \in signalled
                                    \cup Range(queued_writers'[request[b].key])
                      \/ \E c \in Tasks :
                            /\ Frees(c, "reserve")' \/ Frees(c, "signal")'
                            /\ at[c] = request[b].key /\ guard[b] \in waking'[c]
    BY <1>1 DEF WritersAreWoken
  <2>1. request[b].key \in Keys
    BY RequestFacts DEF IInv, RequestInv, ReadOnly
  <2>2. \A c \in Tasks : Frees(c, "reserve") \/ Frees(c, "signal") =>
           (Frees(c, "reserve")' \/ Frees(c, "signal")') /\ waking'[c] = waking[c]
    BY <1>1, <1>7 DEF Frees
  <2>3. Frees(a, "reserve")'
    BY <1>1, <1>7 DEF Frees
  <2>4. CASE guard[b] = h /\ request[b].key = k
    BY <1>7, <2>3, <2>4 DEF k
  <2>5. CASE ~(guard[b] = h /\ request[b].key = k)
    <3>1. guard[b] \in Range(queued_writers[request[b].key]) =>
             guard[b] \in Range(queued_writers'[request[b].key])
      BY <1>4, <1>6, <2>1, <2>5 DEF q
    <3> QED
      BY <2>2, <3>1 DEF QInv, WritersAreWoken
  <2> QED
    BY <2>4, <2>5
<1> QED
  BY <1>11, <1>12, <1>13, <1>14 DEF QInv

\* The writer gets its message.
LEMMA QueueStepSignal ==
    ASSUME TInv, QInv, NEW a \in Tasks, SignalNext(a)
    PROVE  QInv'
<1>1. /\ pc[a] \in {"unlock", "dequeue"} /\ lock_pc[a] = "signal"
      /\ signalled' = signalled \cup waking[a]
      /\ waking' = [waking EXCEPT ![a] = {}]
      /\ UNCHANGED <<queued_writers, waiting_readers, pc, guard, request>>
      /\ \A b \in Tasks : b # a => /\ togo'[b] = togo[b] /\ at'[b] = at[b]
                                   /\ lock_pc'[b] = lock_pc[b]
      /\ lock_pc'[a] \in {"leave", None}
  BY DEF SignalNext, LockIsFreeReturns, Passes, Frees, stateVars, otherVars, TInv,
         TaskTypes
<1>2. PICK g \in Guards : waking[a] = {g}
  BY <1>1 DEF TInv, PlaceInv
<1>3. /\ waking'[a] = {}
      /\ \A b \in Tasks : b # a => waking'[b] = waking[b]
  BY <1>1 DEF TInv, LockTypes
<1>4. lock_pc'[a] # "wake" /\ ~AtWriter(a)'
  BY <1>1, LockLabelsAssumption DEF AtWriter, LockLabels
<1>5. Fewer
  BY <1>1, <1>3, <1>4 DEF Fewer, QInv, Apart, QueuedOnce, AtWriter
<1>6. Apart'
  BY <1>5, FewerStep DEF QInv
<1>7. /\ \A k \in Keys : g \notin Range(queued_writers'[k])
      /\ \A b \in Tasks : AtWriter(b)' => g \notin waking'[b]
      /\ \A b \in Tasks : pc'[b] = "scan" => g # guard'[b]
  BY <1>1, <1>2, <1>3
     DEF QInv, Apart, WritersApart, ScannersApart, AtWriter, Queued
<1>8. WriterWakeupFits' /\ ScanningPutsFit'
  BY <1>1, <1>2, <1>5, <1>7, FitStep DEF QInv
<1>9. WritersAreWoken'
  <2> SUFFICES ASSUME NEW b \in Tasks, pc[b] = "wait", ~ReadOnly(request[b])
               PROVE  \/ guard[b] \in signalled'
                                    \cup Range(queued_writers[request[b].key])
                      \/ \E c \in Tasks :
                            /\ Frees(c, "reserve")' \/ Frees(c, "signal")'
                            /\ at'[c] = request[b].key /\ guard[b] \in waking'[c]
    BY <1>1 DEF WritersAreWoken
  <2>1. \A c \in Tasks : c # a /\ (Frees(c, "reserve") \/ Frees(c, "signal")) =>
           /\ Frees(c, "reserve")' \/ Frees(c, "signal")'
           /\ at'[c] = at[c] /\ waking'[c] = waking[c]
    BY <1>1, <1>3 DEF Frees
  <2> QED
    BY <1>1, <2>1 DEF QInv, WritersAreWoken
<1> QED
  BY <1>6, <1>8, <1>9 DEF QInv
-----------------------------------------------------------------------------
(* The theorems *)

\* The invariant holds before the first request.
LEMMA QueueInit == Init => TInv /\ QInv
<1> SUFFICES ASSUME Init PROVE TInv /\ QInv
  OBVIOUS
<1> USE LockLabelsAssumption DEF LockLabels, AtWriter, Frees
<1>1. LockTypes
  BY TimestampAssumption DEF Init, LockTypes
<1>2. TxnTypes /\ TaskTypes /\ GuardInv
  BY WorkloadsAssumption DEF Init, TxnTypes, TaskTypes, GuardInv, Statuses
<1>3. PlaceInv
  BY DEF Init, PlaceInv
<1>4. Apart
  BY DEF Init, Apart, QueuedOnce, Queued, IsInjective, Range, ScannersApart,
         WritersApart, ReadersApart
<1>5. WriterWakeupFits /\ ScanningPutsFit /\ WritersAreWoken
  BY DEF Init, WriterWakeupFits, ScanningPutsFit, WritersAreWoken
<1> QED
  BY <1>1, <1>2, <1>3, <1>4, <1>5 DEF TInv, QInv

\* Every step preserves the types and the invariant about the queues.
LEMMA QueueStep ==
    ASSUME IInv, TInv, QInv, [Next]_vars
    PROVE  TInv' /\ QInv'
<1>1. ASSUME Still
      PROVE  QInv'
  BY <1>1, StillIsQuiet, QuietStep
<1>2. ASSUME NEW t \in Txns, Issue(t)
      PROVE  TInv' /\ QInv'
  BY <1>1, <1>2, TypesStepIssue, StillIssue
<1>3. ASSUME NEW a \in Tasks, Sequence(a)
      PROVE  TInv' /\ QInv'
  BY <1>1, <1>3, TypesStepSequence, StillSequence, QueueStepScanStarts,
     QueueStepScanReserves, QueueStepScanWaits
<1>4. ASSUME NEW a \in Tasks, Wait(a)
      PROVE  TInv' /\ QInv'
  BY <1>1, <1>4, TypesStepWait, StillWait, QueueStepWaitEnds
<1>5. ASSUME NEW a \in Tasks, Execute(a)
      PROVE  TInv' /\ QInv'
  BY <1>1, <1>5, TypesStepExecute, StillExecute
<1>6. ASSUME NEW a \in Tasks, LockIsFree(a)
      PROVE  TInv' /\ QInv'
  <2>1. TInv'
    BY <1>6, TypesStepFree
  <2>2. QInv'
    BY <1>1, <1>6, StillFree, QueueStepCopy, QueueStepWake, QueueStepClear,
       QueueStepNext, QueueStepSignal DEF LockIsFree
  <2> QED
    BY <2>1, <2>2
<1>7. ASSUME NEW a \in Tasks, Answer(a)
      PROVE  TInv' /\ QInv'
  <2>1. TInv'
    BY <1>7, TypesStepAnswer DEF QInv, Apart
  <2>2. QInv'
    BY <1>1, <1>7, StillAnswer, QueueStepLeave
  <2> QED
    BY <2>1, <2>2
<1>8. CASE UNCHANGED vars
  <2>1. TInv'
    BY <1>8 DEF vars, TInv, LockTypes, TxnTypes, TaskTypes, GuardInv, PlaceInv,
       lockVars, stateVars, methodVars, txnVars, loopVars, queueVars
  <2>2. Still
    BY <1>8 DEF vars, Still, WaitersKept, lockVars, stateVars, methodVars, txnVars,
       loopVars, queueVars
  <2> QED
    BY <1>1, <2>1, <2>2
<1> QED
  BY <1>2, <1>3, <1>4, <1>5, <1>6, <1>7, <1>8 DEF Next

\* All of it holds in every reachable state.
THEOREM WakeupInvariant == Spec => [](IInv /\ TInv /\ QInv)
BY InvariantInit, InvariantStep, QueueInit, QueueStep, PTL DEF Spec

\* Every variable of the executor and the lock table keeps its type.
THEOREM ExecutorTypes == Spec => []TypeOK
<1>1. TInv => TypeOK
  BY DEF TInv, LockTypes, TxnTypes, TaskTypes, TypeOK
<1> QED
  BY <1>1, WakeupInvariant, PTL

\* However scans, releases, timeouts and dequeues interleave, a guard is in one
\* queue at most and there once, so that request_done takes it out for good.
THEOREM GuardsQueueOnce == Spec => []QueuedOnce
<1>1. QInv => QueuedOnce
  BY DEF QInv, Apart
<1> QED
  BY <1>1, WakeupInvariant, PTL

\* done_waiting_at_lock finds the channel of the next writer empty, although several
\* tasks may be in lock_is_free at once: no two of them have the same writer.
THEOREM WriterWakeupsFit == Spec => []WriterWakeupFits
<1>1. QInv => WriterWakeupFits
  BY DEF QInv
<1> QED
  BY <1>1, WakeupInvariant, PTL

\* A put that waits is queued, or has its message, or is in the hands of a task that
\* is about to send it: no wake-up of a writer is lost between the steps of a scan
\* and those of lock_is_free, under latches or without.
THEOREM WritersAreNotForgotten == Spec => []WritersAreWoken
<1>1. QInv => WritersAreWoken
  BY DEF QInv
<1> QED
  BY <1>1, WakeupInvariant, PTL
-----------------------------------------------------------------------------
(* Commits.  The locks and the intents of a transaction are on keys in its *)
(* lock_spans, unless a put has panicked in between.  Commit deletes the   *)
(* intents, and the loop of update_txn_locks has each lock still to go, or *)
(* has released it.  New ones could only come from a later put.            *)

\* A commit is the last request that a client has still to make, and its last.
TodoInv ==
    \A t \in Txns :
        /\ \A i \in 1..Len(todo[t]) :
              todo[t][i].op = "commit" => i = Len(todo[t])
        /\ AtWork(Client(t)) /\ request[Client(t)].op = "commit" =>
              todo[t] = <<>>
        /\ status[t] = "COMMITTED" =>
              /\ todo[t] = <<>>
              /\ AtWork(Client(t)) => request[Client(t)].op = "commit"

\* A transaction knows the intents it has written, unless its put panicked.
IntentIsSpanned ==
    \A k \in Keys :
        intent[k] # None /\ pc[Client(intent[k].txn)] # "panicked" =>
            k \in lock_spans[intent[k].txn]

\* What is left of a committed transaction.
LeftInv ==
    \A t \in Txns : \A k \in Keys : status[t] = "COMMITTED" =>
        /\ pc[Client(t)] # "panicked" /\ intent[k] # None => intent[k].txn # t
        /\ pc[Client(t)] = "unlock" /\ lock_holder[k] = t =>
              /\ k \in togo[Client(t)]
              /\ lock_pc[Client(t)] # None => at[Client(t)] # k
        /\ pc[Client(t)] \notin {"release", "unlock", "panicked"} =>
              lock_holder[k] # t

\* The inductive invariant, with IInv and TInv.
CInv == TodoInv /\ IntentIsSpanned /\ LeftInv

\* No transaction gets a lock, an intent or a committed record, and no client
\* starts or ends a request that finalizes; one that does passes over the lock it
\* has freed at most.
Harmless ==
    /\ UNCHANGED todo
    /\ \A k \in Keys : /\ lock_holder'[k] \in {lock_holder[k], None}
                       /\ intent'[k] \in {intent[k], None}
    /\ \A t \in Txns :
          /\ status'[t] = "COMMITTED" => status[t] = "COMMITTED"
          /\ lock_spans[t] \subseteq lock_spans'[t]
          /\ AtWork(Client(t))' =>
                AtWork(Client(t)) /\ request'[Client(t)] = request[Client(t)]
          /\ pc[Client(t)] = "panicked" => pc'[Client(t)] = "panicked"
          /\ pc'[Client(t)] = "unlock" =>
                /\ pc[Client(t)] = "unlock"
                /\ \/ togo'[Client(t)] = togo[Client(t)]
                   \/ /\ lock_pc[Client(t)] # None
                      /\ togo'[Client(t)] = togo[Client(t)] \ {at[Client(t)]}
                /\ \/ lock_pc'[Client(t)] = None
                   \/ lock_pc[Client(t)] # None /\ at'[Client(t)] = at[Client(t)]
          /\ pc[Client(t)] \in {"release", "unlock"} =>
                pc'[Client(t)] \in {pc[Client(t)], "panicked"}

\* A harmless step preserves the invariant.
LEMMA HarmlessStep ==
    ASSUME TInv, CInv, Harmless
    PROVE  CInv'
<1>1. /\ \A t \in Txns : t # None /\ Client(t) \in Tasks
      /\ \A k \in Keys : intent[k] # None => intent[k].txn \in Txns
  BY TaskFacts, NoneAssumption DEF TInv, TxnTypes, Intents
<1>2. TodoInv'
  BY <1>1 DEF CInv, TodoInv, Harmless
<1>3. IntentIsSpanned'
  BY <1>1 DEF CInv, IntentIsSpanned, Harmless
<1>4. LeftInv'
  BY <1>1 DEF CInv, LeftInv, Harmless
<1> QED
  BY <1>2, <1>3, <1>4 DEF CInv

\* Taking latches, waiting and pushing are harmless.
LEMMA SequenceIsHarmless ==
    ASSUME IInv, TInv, NEW a \in Tasks, Sequence(a)
    PROVE  Harmless
<1> USE TaskFacts DEF TInv, TaskTypes, Harmless, Goto, Panics, Scans, lockVars,
        stateVars, methodVars, txnVars, loopVars, otherVars
<1>1. CASE ScanStarts(a)
  BY <1>1 DEF ScanStarts, Sequences
<1>2. CASE ScanSkips(a)
  BY <1>2 DEF ScanSkips, Passes
<1>3. CASE ScanLooks(a)
  BY <1>3 DEF ScanLooks
<1>4. CASE ScanUnwrapPanics(a)
  BY <1>4 DEF ScanUnwrapPanics
<1>5. CASE ScanConflicts(a)
  BY <1>5 DEF ScanConflicts
<1>6. CASE ScanPasses(a)
  BY <1>6 DEF ScanPasses, Passes
<1>7. CASE ScanFindsFree(a)
  BY <1>7 DEF ScanFindsFree
<1>8. CASE ScanReserves(a)
  BY <1>8 DEF ScanReserves, Passes
<1>9. CASE ScanWaits(a)
  BY <1>9 DEF ScanWaits
<1>10. CASE ScanEnds(a)
  BY <1>10 DEF ScanEnds
<1> QED
  BY <1>1, <1>2, <1>3, <1>4, <1>5, <1>6, <1>7, <1>8, <1>9, <1>10 DEF Sequence

\* The reaper that PushFindsCycle starts is no client.
LEMMA WaitIsHarmless ==
    ASSUME IInv, TInv, NEW a \in Tasks, Wait(a)
    PROVE  Harmless
<1> USE TaskFacts DEF TInv, TaskTypes, Harmless, Goto, Panics, lockVars, stateVars,
        methodVars, txnVars, loopVars
<1>1. CASE WaitEnds(a)
  BY <1>1 DEF WaitEnds
<1>2. CASE WaitTimesOut(a)
  BY <1>2 DEF WaitTimesOut
<1>3. CASE PushSkips(a)
  BY <1>3 DEF PushSkips
<1>4. CASE PushUnwrapPanics(a)
  BY <1>4 DEF PushUnwrapPanics
<1>5. CASE PushStarts(a)
  BY <1>5 DEF PushStarts
<1>6. CASE PushesEnd(a)
  BY <1>6 DEF PushesEnd
<1>7. CASE PushReleased(a)
  BY <1>7 DEF PushReleased
<1>8. CASE PushFails(a)
  BY <1>8 DEF PushFails
<1>9. CASE PushFindsCycle(a)
  <2>1. PICK b \in Reapers(pushee[a]) :
          /\ pc[b] = "idle"
          /\ pc' = [pc EXCEPT ![a] = "await", ![b] = "latch"]
          /\ request' = [request EXCEPT ![b] = AbortTxn]
    BY <1>9 DEF PushFindsCycle, IsNewReaper
  <2>2. pc[a] = "pushing" /\ b \in Tasks /\ \A t \in Txns : b # Client(t)
    BY <1>9, <2>1 DEF PushFindsCycle, IInv, PushInv
  <2> QED
    BY <1>9, <2>1, <2>2 DEF PushFindsCycle
<1>10. CASE PushPanics(a)
  BY <1>10 DEF PushPanics
<1>11. CASE EnqueueAndPush(a)
  BY <1>11 DEF EnqueueAndPush
<1> QED
  BY <1>1, <1>2, <1>3, <1>4, <1>5, <1>6, <1>7, <1>8, <1>9, <1>10, <1>11 DEF Wait

\* lock_is_free is harmless: the lock it frees is not the transaction's any more.
LEMMA FreeIsHarmless ==
    ASSUME IInv, TInv, NEW a \in Tasks, LockIsFree(a)
    PROVE  Harmless
<1> USE TaskFacts, LockLabelsAssumption
    DEF LockLabels, TInv, TaskTypes, Harmless, Goto, Panics, Frees, lockVars,
        stateVars, methodVars, txnVars, loopVars, otherVars
<1>1. CASE CheckFree(a)
  BY <1>1 DEF CheckFree
<1>2. CASE CheckPanics(a)
  BY <1>2 DEF CheckPanics
<1>3. CASE CopyReaders(a)
  BY <1>3 DEF CopyReaders
<1>4. CASE WakeReader(a)
  BY <1>4 DEF WakeReader
<1>5. CASE ClearReaders(a)
  BY <1>5 DEF ClearReaders
<1>6. CASE NextIsNone(a)
  BY <1>6 DEF NextIsNone, LockIsFreeReturns, Passes
<1>7. CASE NextWriter(a)
  BY <1>7 DEF NextWriter
<1>8. CASE ReserveNext(a)
  BY <1>8 DEF ReserveNext
<1>9. CASE SignalNext(a)
  BY <1>9 DEF SignalNext, LockIsFreeReturns, Passes
<1> QED
  BY <1>1, <1>2, <1>3, <1>4, <1>5, <1>6, <1>7, <1>8, <1>9 DEF LockIsFree

\* Leaving the queues and answering are harmless.
LEMMA AnswerIsHarmless ==
    ASSUME IInv, TInv, NEW a \in Tasks, Answer(a)
    PROVE  Harmless
<1> USE TaskFacts DEF TInv, TaskTypes, Harmless, Goto, Ends, Panics, AtReturn,
        Dequeues, lockVars, stateVars, methodVars, txnVars, loopVars, otherVars
<1>1. CASE Dequeue(a)
  BY <1>1 DEF Dequeue
<1>2. CASE DequeueReserved(a)
  BY <1>2 DEF DequeueReserved
<1>3. CASE LeaveQueues(a)
  BY <1>3 DEF LeaveQueues, Passes
<1>4. CASE Return(a)
  BY <1>4 DEF Return, ForgetRequest
<1>5. CASE ReturnPanics(a)
  BY <1>5 DEF ReturnPanics
<1>6. CASE Retry(a)
  BY <1>6 DEF Retry, DeleteIntents
<1> QED
  BY <1>1, <1>2, <1>3, <1>4, <1>5, <1>6 DEF Answer

\* So are requests that write nothing and do not release the locks.
LEMMA ExecuteIsHarmless ==
    ASSUME IInv, TInv, NEW a \in Tasks, Execute(a),
           ~PutLockPanics(a), ~Put(a), ~Commit(a), ~UpdateTxnLocks(a),
           ~UnlockSkips(a), ~Unlock(a), ~FinalizeFindsNone(a), ~Finalize(a)
    PROVE  Harmless
<1> USE TaskFacts DEF TInv, TaskTypes, Harmless, Goto, Ends, Panics, FinishReq,
        lockVars, stateVars, methodVars, txnVars, loopVars
<1>1. CASE PutMeetsIntent(a)
  BY <1>1 DEF PutMeetsIntent, AtPut
<1>2. CASE PutIntentPanics(a)
  BY <1>2 DEF PutIntentPanics, AtPut
<1>3. CASE GetMeetsIntent(a)
  BY <1>3 DEF GetMeetsIntent, AtGet
<1>4. CASE Get(a)
  BY <1>4 DEF Get, AtGet
<1>5. CASE CommitFindsAborted(a)
  BY <1>5 DEF CommitFindsAborted, AtCommit
<1>6. CASE CommitCannotRefresh(a)
  BY <1>6 DEF CommitCannotRefresh, AtCommit
<1>7. CASE CommitRefreshes(a)
  BY <1>7 DEF CommitRefreshes, AtCommit
<1>8. CASE AbortFindsCommitted(a)
  BY <1>8 DEF AbortFindsCommitted, AtAbort
<1>9. CASE AbortProceeds(a)
  BY <1>9 DEF AbortProceeds, AtAbort
<1>10. CASE Abort(a)
  BY <1>10 DEF Abort, TxnTypes
<1>11. CASE AbortIntents(a)
  BY <1>11 DEF AbortIntents, DeleteIntents
<1>12. CASE ReleasePush(a)
  BY <1>12 DEF ReleasePush
<1>13. CASE FinalizeEnds(a)
  BY <1>13 DEF FinalizeEnds
<1> QED
  BY <1>1, <1>2, <1>3, <1>4, <1>5, <1>6, <1>7, <1>8, <1>9, <1>10,
     <1>11, <1>12, <1>13 DEF Execute
-----------------------------------------------------------------------------
(* The steps that are not harmless *)

\* A client makes its next request, so its transaction is not committed.
LEMMA CommitStepIssue ==
    ASSUME IInv, TInv, CInv, NEW t \in Txns, Issue(t)
    PROVE  CInv'
<1> DEFINE s == todo[t]
           w == Tail(s)
<1>1. /\ s \in Seq(Requests) /\ s # <<>> /\ Client(t) \in Tasks
      /\ status[t] # "COMMITTED"
  BY TaskFacts DEF Issue, TInv, TaskTypes, CInv, TodoInv
<1>2. /\ pc[Client(t)] = "idle" /\ pc' = [pc EXCEPT ![Client(t)] = "latch"]
      /\ todo' = [todo EXCEPT ![t] = w]
      /\ request' = [request EXCEPT ![Client(t)] = Head(s)]
      /\ UNCHANGED <<lock_holder, status, lock_spans, intent, togo, at, lock_pc>>
  BY DEF Issue, Goto, lockVars, stateVars, methodVars, txnVars, loopVars
<1>3. /\ Len(w) = Len(s) - 1 /\ Len(s) \in Nat \ {0}
      /\ \A i \in 1..Len(w) : w[i] = s[i + 1]
      /\ Head(s) = s[1] /\ w \in Seq(Requests)
  BY <1>1, HeadTailProperties, EmptySeq
<1>4. \A i \in 1..Len(s) : s[i].op = "commit" => i = Len(s)
  BY DEF CInv, TodoInv
<1> HIDE DEF s, w
<1>5. \A i \in 1..Len(w) : w[i].op = "commit" => i = Len(w)
  <2> SUFFICES ASSUME NEW i \in 1..Len(w), w[i].op = "commit"
               PROVE  i = Len(w)
    OBVIOUS
  <2>1. i + 1 \in 1..Len(s) /\ w[i] = s[i + 1]
    BY <1>3
  <2>2. s[i + 1].op = "commit"
    BY <2>1
  <2>3. i + 1 = Len(s)
    BY <1>4, <2>1, <2>2
  <2> QED
    BY <1>3, <2>3
<1>6. Head(s).op = "commit" => w = <<>>
  <2>1. 1 \in 1..Len(s)
    BY <1>3
  <2>2. Head(s).op = "commit" => Len(w) = 0
    <3>1. s[1].op = "commit" => 1 = Len(s)
      BY <1>4, <2>1
    <3>2. ASSUME Len(s) = 1 PROVE Len(w) = 0
      <4>1. Len(w) = Len(s) - 1
        BY <1>3
      <4> QED
        BY <3>2, <4>1
    <3>3. Head(s) = s[1]
      BY <1>3
    <3> QED
      BY <3>1, <3>2, <3>3
  <2> QED
    BY <1>3, <2>2, EmptySeq
<1>7. \A u \in Txns : u # t => Client(u) # Client(t)
  BY TaskFacts
<1>8. todo'[t] = w /\ request'[Client(t)] = Head(s)
  BY <1>1, <1>2 DEF TInv, TaskTypes
<1>9. \A u \in Txns : u # t => /\ todo'[u] = todo[u]
                               /\ UNCHANGED <<pc[Client(u)], request[Client(u)]>>
  BY <1>1, <1>2, <1>7, TaskFacts DEF TInv, TaskTypes
<1>10. TodoInv'
  <2> SUFFICES ASSUME NEW u \in Txns
               PROVE  /\ \A i \in 1..Len(todo'[u]) :
                            todo'[u][i].op = "commit" => i = Len(todo'[u])
                      /\ AtWork(Client(u))' /\ request'[Client(u)].op = "commit" =>
                            todo'[u] = <<>>
                      /\ status'[u] = "COMMITTED" =>
                            /\ todo'[u] = <<>>
                            /\ AtWork(Client(u))' =>
                                  request'[Client(u)].op = "commit"
    BY DEF TodoInv
  <2>1. CASE u = t
    BY <1>1, <1>2, <1>5, <1>6, <1>8, <2>1
  <2>2. CASE u # t
    BY <1>2, <1>9, <2>2 DEF CInv, TodoInv
  <2> QED
    BY <2>1, <2>2
<1>11. \A u \in Txns : pc[Client(u)] = "panicked" <=> pc'[Client(u)] = "panicked"
  BY <1>1, <1>2, <1>9 DEF TInv, TaskTypes
<1>12. IntentIsSpanned'
  <2>1. \A k \in Keys : intent[k] # None => intent[k].txn \in Txns
    BY DEF TInv, TxnTypes, Intents
  <2> QED
    BY <1>2, <1>11, <2>1 DEF CInv, IntentIsSpanned
<1>13. LeftInv'
  BY <1>1, <1>2, <1>9 DEF CInv, LeftInv
<1> QED
  BY <1>10, <1>12, <1>13 DEF CInv

\* A put is made by the client of a transaction that is not committed.
LEMMA CommitStepPut ==
    ASSUME IInv, TInv, CInv, NEW a \in Tasks, Put(a) \/ PutLockPanics(a)
    PROVE  CInv'
<1> DEFINE t == Txn(a)
           k == request[a].key
<1>1. pc[a] = "eval" /\ request[a].op = "put" /\ UNCHANGED <<todo, request, status>>
  BY DEF Put, PutLockPanics, AtPut
<1>2. a = Client(t) /\ t \in Txns /\ k \in Keys
  BY <1>1, TaskFacts, EvalFacts DEF IInv, RequestInv
<1>3. status[t] # "COMMITTED"
  BY <1>1, <1>2 DEF CInv, TodoInv
<1>4. \A u \in Txns : u # t => Client(u) # a
  BY TaskFacts
<1>5. /\ intent' = [intent EXCEPT ![k] =
                      [txn |-> t, write_timestamp |-> PutTimestamp(a)]]
      /\ \/ pc'[a] = "panicked"
         \/ pc'[a] = "dequeue" /\ k \in lock_spans'[t]
      /\ \A u \in Txns : lock_spans[u] \subseteq lock_spans'[u]
  <2>1. CASE Put(a)
    BY <1>2, <2>1 DEF Put, WriteIntent, FinishReq, Goto, AppendLockSpan, TInv,
       TxnTypes, TaskTypes
  <2>2. CASE PutLockPanics(a)
    BY <1>2, <2>2 DEF PutLockPanics, WriteIntent, Panics
  <2> QED
    BY <2>1, <2>2
<1>6. \A b \in Tasks : b # a =>
         \/ UNCHANGED <<pc[b], togo[b], at[b], lock_pc[b]>>
         \/ pc[b] = "await" /\ pc'[b] = "panicked"
  BY DEF Put, PutLockPanics, FinishReq, Goto, Panics, TInv, TaskTypes, loopVars,
         methodVars
<1>7. \A l \in Keys : lock_holder'[l] \in {lock_holder[l], t}
  BY DEF Put, PutLockPanics, AcquireLock, TInv, LockTypes, stateVars
<1>8. \A u \in Txns : Client(u) \in Tasks
  BY TaskFacts
<1> HIDE DEF t, k
<1>9. TodoInv'
  BY <1>1, <1>2, <1>3, <1>5, <1>6, <1>8 DEF CInv, TodoInv
<1>10. IntentIsSpanned'
  <2> SUFFICES ASSUME NEW l \in Keys, intent'[l] # None,
                      pc'[Client(intent'[l].txn)] # "panicked"
               PROVE  l \in lock_spans'[intent'[l].txn]
    BY DEF IntentIsSpanned
  <2>1. CASE l = k
    <3>1. intent'[l].txn = t
      BY <1>2, <1>5, <2>1 DEF TInv, TxnTypes
    <3> QED
      BY <1>2, <1>5, <2>1, <3>1
  <2>2. CASE l # k
    <3>1. intent'[l] = intent[l] /\ intent[l].txn \in Txns
      BY <1>2, <1>5, <2>2 DEF TInv, TxnTypes, Intents
    <3>2. pc[Client(intent[l].txn)] # "panicked"
      BY <1>1, <1>6, <1>8, <3>1
    <3> QED
      BY <1>5, <3>1, <3>2 DEF CInv, IntentIsSpanned
  <2> QED
    BY <2>1, <2>2
<1>11. LeftInv'
  <2> SUFFICES ASSUME NEW u \in Txns, NEW l \in Keys, status'[u] = "COMMITTED"
               PROVE
        /\ pc'[Client(u)] # "panicked" /\ intent'[l] # None => intent'[l].txn # u
        /\ pc'[Client(u)] = "unlock" /\ lock_holder'[l] = u =>
              /\ l \in togo'[Client(u)]
              /\ lock_pc'[Client(u)] # None => at'[Client(u)] # l
        /\ pc'[Client(u)] \notin {"release", "unlock", "panicked"} =>
              lock_holder'[l] # u
    BY DEF LeftInv
  <2>1. u # t /\ Client(u) # a /\ Client(u) \in Tasks /\ status[u] = "COMMITTED"
    BY <1>1, <1>3, <1>4, <1>8 DEF t
  <2>2. intent'[l] # intent[l] => intent'[l].txn = t
    BY <1>2, <1>5 DEF TInv, TxnTypes
  <2> QED
    BY <1>6, <1>7, <2>1, <2>2 DEF CInv, LeftInv
<1> QED
  BY <1>9, <1>10, <1>11 DEF CInv

\* The commit deletes all intents of the transaction: they are on its lock spans.
LEMMA CommitStepCommit ==
    ASSUME IInv, TInv, CInv, NEW a \in Tasks, Commit(a)
    PROVE  CInv'
<1> DEFINE t == Txn(a)
<1>1. /\ pc[a] = "commit" /\ pc' = [pc EXCEPT ![a] = "release"]
      /\ status' = [status EXCEPT ![t] = "COMMITTED"]
      /\ intent' = [k \in Keys |->
                      IF k \in {l \in lock_spans[t] :
                                  intent[l] # None /\ intent[l].txn = t}
                      THEN None ELSE intent[k]]
      /\ UNCHANGED <<lock_holder, lock_spans, togo, at, lock_pc, todo, request>>
  BY DEF Commit, Goto, DeleteIntents, lockVars, stateVars, methodVars
<1>2. a = Client(t) /\ t \in Txns /\ request[a].op = "commit"
  BY <1>1, TaskFacts DEF IInv, RequestInv
<1>3. \A u \in Txns : u # t => Client(u) # a
  BY TaskFacts
<1> HIDE DEF t
<1>4. \A u \in Txns : u # t => /\ pc'[Client(u)] = pc[Client(u)]
                               /\ status'[u] = status[u]
  BY <1>1, <1>2, <1>3, TaskFacts DEF TInv, TaskTypes, TxnTypes
<1>5. pc'[Client(t)] = "release" /\ pc[Client(t)] = "commit"
  BY <1>1, <1>2 DEF TInv, TaskTypes
<1>6. TodoInv'
  BY <1>1, <1>2, <1>4, <1>5 DEF CInv, TodoInv
<1>7. \A k \in Keys : /\ intent'[k] \in {intent[k], None}
                      /\ intent[k] # None => intent[k].txn \in Txns
  BY <1>1 DEF TInv, TxnTypes, Intents
<1>8. IntentIsSpanned'
  BY <1>1, <1>4, <1>5, <1>7 DEF CInv, IntentIsSpanned
<1>9. \A k \in Keys : intent'[k] # None => intent'[k].txn # t
  <2> SUFFICES ASSUME NEW k \in Keys, intent'[k] # None, intent'[k].txn = t
               PROVE  FALSE
    OBVIOUS
  <2>1. intent[k] # None /\ intent[k].txn = t
    BY <1>7
  <2>2. k \in lock_spans[t]
    BY <1>5, <2>1 DEF CInv, IntentIsSpanned
  <2> QED
    BY <1>1, <2>1, <2>2
<1>10. LeftInv'
  BY <1>1, <1>4, <1>5, <1>7, <1>9 DEF CInv, LeftInv
<1> QED
  BY <1>6, <1>8, <1>10 DEF CInv

\* update_txn_locks goes through all locks of the transaction, and passes over
\* none that it holds.
LEMMA CommitStepUnlock ==
    ASSUME IInv, TInv, CInv, NEW a \in Tasks,
           \/ UpdateTxnLocks(a) \/ UnlockSkips(a) \/ Unlock(a)
           \/ FinalizeFindsNone(a) \/ Finalize(a)
    PROVE  CInv'
<1> DEFINE t == Txn(a)
<1>1. /\ pc[a] \in {"release", "unlock"}
      /\ pc'[a] \in {"unlock", "finalize", "dequeue"}
      /\ \A b \in Tasks : b # a => UNCHANGED <<pc[b], togo[b], at[b], lock_pc[b]>>
      /\ UNCHANGED <<status, lock_spans, intent, todo, request>>
  BY DEF UpdateTxnLocks, UnlockSkips, Unlock, AtUnlock, FinalizeFindsNone, Finalize,
         FinishReq, Goto, TInv, TaskTypes, txnVars, loopVars, lockVars, methodVars,
         otherVars
<1>2. t \in Txns /\ \A k \in Keys : lock_holder'[k] \in {lock_holder[k], None}
  <2>1. CASE Unlock(a)
    <3>1. PICK k \in togo[a] : lock_holder' = [lock_holder EXCEPT ![k] = None]
      BY <2>1 DEF Unlock, ReleaseLock
    <3> QED
      BY <3>1, TaskFacts DEF TInv, LockTypes
  <2>2. CASE UNCHANGED lock_holder
    BY <2>2, TaskFacts
  <2> QED
    BY <2>1, <2>2 DEF UpdateTxnLocks, UnlockSkips, FinalizeFindsNone, Finalize,
       lockVars, stateVars
<1>3. /\ \A u \in Txns : u # None /\ Client(u) \in Tasks /\ (u # t => Client(u) # a)
      /\ \A k \in Keys : intent[k] # None => intent[k].txn \in Txns
  BY TaskFacts, NoneAssumption DEF TInv, TxnTypes, Intents
<1>4. ASSUME a = Client(t), status[t] = "COMMITTED", NEW k \in Keys,
             lock_holder'[k] = t
      PROVE  /\ pc'[a] = "unlock" /\ k \in togo'[a]
             /\ lock_pc'[a] # None => at'[a] # k
  <2>1. lock_holder[k] = t
    BY <1>2, <1>3, <1>4
  <2>2. k \in lock_spans[t] /\ k \in locks
    BY <1>2, <1>3, <2>1 DEF IInv, HolderIsSpanned, HolderInv
  <2>3. pc[a] = "unlock" => k \in togo[a]
    BY <1>2, <1>4, <2>1 DEF CInv, LeftInv
  <2>4. CASE UpdateTxnLocks(a)
    <3>1. lock_pc'[a] = None
      BY <2>4 DEF UpdateTxnLocks, lockVars, methodVars, TInv, PlaceInv
    <3> QED
      BY <2>2, <2>4, <3>1 DEF UpdateTxnLocks, Goto, TInv, TaskTypes
  <2>5. CASE UnlockSkips(a)
    <3>1. PICK l \in togo[a] : /\ ~ReleasesLock(l, t)
                               /\ togo' = [togo EXCEPT ![a] = @ \ {l}]
      BY <2>5 DEF UnlockSkips
    <3>2. ReleasesLock(k, t)
      BY <1>2, <1>3, <2>1, <2>2 DEF ReleasesLock
    <3> QED
      BY <2>3, <2>5, <3>1, <3>2
         DEF UnlockSkips, AtUnlock, TInv, TaskTypes, lockVars, methodVars
  <2>6. CASE Unlock(a)
    <3>1. PICK l \in togo[a] : /\ lock_holder' = [lock_holder EXCEPT ![l] = None]
                               /\ at' = [at EXCEPT ![a] = l]
      BY <2>6 DEF Unlock, ReleaseLock
    <3>2. k # l
      BY <1>2, <1>3, <1>4, <3>1 DEF TInv, LockTypes
    <3> QED
      BY <2>3, <2>6, <3>1, <3>2 DEF Unlock, AtUnlock, TInv, TaskTypes
  <2>7. CASE FinalizeFindsNone(a) \/ Finalize(a)
    BY <2>3, <2>7 DEF FinalizeFindsNone, Finalize, AtUnlock
  <2> QED
    BY <2>4, <2>5, <2>6, <2>7
<1> HIDE DEF t
<1>5. TodoInv'
  BY <1>1, <1>3 DEF CInv, TodoInv
<1>6. IntentIsSpanned'
  BY <1>1, <1>3 DEF CInv, IntentIsSpanned
<1>7. LeftInv'
  <2> SUFFICES ASSUME NEW u \in Txns, NEW k \in Keys, status'[u] = "COMMITTED"
               PROVE
        /\ pc'[Client(u)] # "panicked" /\ intent'[k] # None => intent'[k].txn # u
        /\ pc'[Client(u)] = "unlock" /\ lock_holder'[k] = u =>
              /\ k \in togo'[Client(u)]
              /\ lock_pc'[Client(u)] # None => at'[Client(u)] # k
        /\ pc'[Client(u)] \notin {"release", "unlock", "panicked"} =>
              lock_holder'[k] # u
    BY DEF LeftInv
  <2>1. CASE Client(u) = a
    <3>1. u = t
      BY <1>3, <2>1
    <3> QED
      BY <1>1, <1>4, <2>1, <3>1 DEF CInv, LeftInv
  <2>2. CASE Client(u) # a
    BY <1>1, <1>2, <1>3, <2>2 DEF CInv, LeftInv
  <2> QED
    BY <2>1, <2>2
<1> QED
  BY <1>5, <1>6, <1>7 DEF CInv
-----------------------------------------------------------------------------
(* The theorem *)

\* The invariant holds before the first request.
LEMMA CommitInit == Init => CInv
<1> SUFFICES ASSUME Init PROVE CInv
  OBVIOUS
<1>1. todo \in Workloads /\ \A t \in Txns : status[t] = "PENDING"
  BY DEF Init
<1>2. \A t \in Txns : pc[Client(t)] = "idle"
  BY TaskFacts DEF Init
<1>3. TodoInv
  BY <1>1, <1>2, CommitIsLast DEF TodoInv
<1>4. IntentIsSpanned
  BY DEF Init, IntentIsSpanned
<1>5. LeftInv
  BY <1>1 DEF LeftInv
<1> QED
  BY <1>3, <1>4, <1>5 DEF CInv

\* Every step preserves the invariant.
LEMMA CommitStep ==
    ASSUME IInv, TInv, CInv, [Next]_vars
    PROVE  CInv'
<1>1. ASSUME NEW t \in Txns, Issue(t) PROVE CInv'
  BY <1>1, CommitStepIssue
<1>2. ASSUME NEW a \in Tasks, Sequence(a) PROVE CInv'
  BY <1>2, SequenceIsHarmless, HarmlessStep
<1>3. ASSUME NEW a \in Tasks, Wait(a) PROVE CInv'
  BY <1>3, WaitIsHarmless, HarmlessStep
<1>4. ASSUME NEW a \in Tasks, Execute(a) PROVE CInv'
  BY <1>4, ExecuteIsHarmless, HarmlessStep, CommitStepPut, CommitStepCommit,
     CommitStepUnlock
<1>5. ASSUME NEW a \in Tasks, Answer(a) PROVE CInv'
  BY <1>5, AnswerIsHarmless, HarmlessStep
<1>6. ASSUME NEW a \in Tasks, LockIsFree(a) PROVE CInv'
  BY <1>6, FreeIsHarmless, HarmlessStep
<1>7. CASE UNCHANGED vars
  <2>1. Harmless
    BY <1>7 DEF vars, Harmless, lockVars, stateVars, methodVars, txnVars, loopVars
  <2> QED
    BY <2>1, HarmlessStep
<1> QED
  BY <1>1, <1>2, <1>3, <1>4, <1>5, <1>6, <1>7 DEF Next

\* Once the commit of a transaction has been through update_txn_locks, none of its
\* locks and none of its intents is left, whatever reapers were asked to abort it
\* meanwhile, provided its client makes no request after the commit.
THEOREM CommitsRelease == Spec => []CommitReleases
<1>1. CInv => CommitReleases
  BY DEF CInv, LeftInv, CommitReleases
<1> QED
  BY <1>1, CommitInit, CommitStep, WakeupInvariant, PTL DEF Spec
-----------------------------------------------------------------------------
(* Pushes.  Tasks that finalize one transaction latch a span in common, so *)
(* that they come to finalize_txn one after the other.  A push that has    *)
(* been sent its message and is still in the queue is one that the task in *)
(* finalize_txn now has gone through: remove_pushee takes it out before    *)
(* another task can copy it.                                               *)

IsReaper(a) == a # Client(Txn(a))

\* The reapers of a transaction want a span in common.
ReapersMeet ==
    \A a, b \in Tasks :
        /\ a # b /\ Txn(a) = Txn(b) /\ IsReaper(a) /\ IsReaper(b)
        /\ AtWork(a) /\ AtWork(b)
        => spans[a] \cap spans[b] # {}

\* Only the loop of finalize_txn has pushes left, all of them on its transaction.
LoopInv ==
    \A a \in Tasks : releasing[a] # {} =>
        pc[a] = "finalize" /\ \A p \in releasing[a] : p[2] = Txn(a)

\* A push with a message is out of the queue, or about to be taken out.
SentInv ==
    \A p \in released \cap waiting_pushes : \E a \in Tasks :
        pc[a] = "finalize" /\ Txn(a) = p[2] /\ p \notin releasing[a]

\* The inductive invariant, with IInv and TInv.
RInv == ReapersMeet /\ LoopInv /\ SentInv /\ ReleaseFits

\* Two tasks do not finalize one transaction at the same time.
LEMMA FinalizeAlone ==
    ASSUME IInv, ReapersMeet, NEW a \in Tasks, NEW b \in Tasks,
           Txn(a) = Txn(b), pc[a] \in {"unlock", "finalize"}, pc[b] = "finalize"
    PROVE  a = b
<1> SUFFICES ASSUME a # b PROVE FALSE
  OBVIOUS
<1>1. spans[a] \cap spans[b] = {}
  BY DEF IInv, LatchInv, Latched
<1>2. request[a].op \in {"commit", "abort"} /\ request[b].op \in {"commit", "abort"}
  BY DEF IInv, RequestInv
<1>3. CASE IsReaper(a) /\ IsReaper(b)
  BY <1>1, <1>3 DEF ReapersMeet
<1>4. CASE ~IsReaper(a)
  <2>1. IsReaper(b) /\ spans[a] = FinalSpans(Txn(a))
    BY <1>2, <1>4 DEF IInv, SpansInv, IsReaper
  <2>2. spans[b] # {} /\ spans[b] \subseteq FinalSpans(Txn(b))
    BY <2>1 DEF IInv, SpansInv, IsReaper
  <2> QED
    BY <1>1, <2>1, <2>2
<1>5. CASE ~IsReaper(b)
  <2>1. IsReaper(a) /\ spans[b] = FinalSpans(Txn(b))
    BY <1>2, <1>5 DEF IInv, SpansInv, IsReaper
  <2>2. spans[a] # {} /\ spans[a] \subseteq FinalSpans(Txn(a))
    BY <2>1 DEF IInv, SpansInv, IsReaper
  <2> QED
    BY <1>1, <2>1, <2>2
<1> QED
  BY <1>3, <1>4, <1>5

\* No reaper starts to work.
ReapersKept ==
    \A b \in Tasks : IsReaper(b) /\ AtWork(b)' =>
        AtWork(b) /\ spans'[b] = spans[b]

\* No task enters or leaves finalize_txn.
FinalizersKept == \A b \in Tasks : pc'[b] = "finalize" <=> pc[b] = "finalize"

\* No task starts to push.
PushersKept ==
    \A b \in Tasks : pc'[b] = "pushing" =>
        pc[b] = "pushing" /\ pushee'[b] = pushee[b]

\* The step changes nothing that a release depends on.
Calm ==
    /\ UNCHANGED <<waiting_pushes, released, releasing>>
    /\ ReapersKept
    /\ FinalizersKept
    /\ PushersKept

\* A step that starts no reaper preserves ReapersMeet.
LEMMA ReapersMeetStep ==
    ASSUME ReapersMeet, ReapersKept
    PROVE  ReapersMeet'
BY DEF ReapersMeet, ReapersKept, IsReaper, Client, Txn

\* Most steps are calm, and preserve the invariant.
LEMMA CalmStep ==
    ASSUME RInv, Calm
    PROVE  RInv'
<1>1. ReapersMeet'
  BY ReapersMeetStep DEF RInv, Calm
<1>2. LoopInv'
  BY DEF RInv, Calm, FinalizersKept, LoopInv
<1>3. SentInv'
  BY DEF RInv, Calm, FinalizersKept, SentInv
<1>4. ReleaseFits'
  BY DEF RInv, Calm, ReleaseFits
<1> QED
  BY <1>1, <1>2, <1>3, <1>4 DEF RInv

\* Calm are the steps of a client that makes a request, ...
LEMMA ReleaseStepIssue ==
    ASSUME TInv, NEW t \in Txns, Issue(t)
    PROVE  Calm
<1>1. /\ ~IsReaper(Client(t)) /\ pc[Client(t)] = "idle"
      /\ pc' = [pc EXCEPT ![Client(t)] = "latch"]
      /\ spans' = [spans EXCEPT ![Client(t)] = CollectSpans(t, Head(todo[t]))]
      /\ UNCHANGED <<waiting_pushes, released, releasing, pushee>>
  BY TaskFacts DEF Issue, Goto, IsReaper, loopVars, queueVars
<1> QED
  BY <1>1 DEF TInv, TaskTypes, Calm, ReapersKept, FinalizersKept, PushersKept,
              IsReaper

\* ... of a task that takes its latches, ...
LEMMA ReleaseStepSequence ==
    ASSUME TInv, NEW a \in Tasks, Sequence(a)
    PROVE  Calm
<1> USE DEF TInv, TaskTypes, Calm, ReapersKept, FinalizersKept, PushersKept, Goto,
            Panics, Sequences, Scans, Passes, otherVars, queueVars, loopVars
<1>1. CASE ScanStarts(a)
  BY <1>1 DEF ScanStarts
<1>2. CASE ScanSkips(a)
  BY <1>2 DEF ScanSkips
<1>3. CASE ScanLooks(a)
  BY <1>3 DEF ScanLooks
<1>4. CASE ScanUnwrapPanics(a)
  BY <1>4 DEF ScanUnwrapPanics
<1>5. CASE ScanConflicts(a)
  BY <1>5 DEF ScanConflicts
<1>6. CASE ScanPasses(a)
  BY <1>6 DEF ScanPasses
<1>7. CASE ScanFindsFree(a)
  BY <1>7 DEF ScanFindsFree
<1>8. CASE ScanReserves(a)
  BY <1>8 DEF ScanReserves
<1>9. CASE ScanWaits(a)
  BY <1>9 DEF ScanWaits
<1>10. CASE ScanEnds(a)
  BY <1>10 DEF ScanEnds
<1> QED
  BY <1>1, <1>2, <1>3, <1>4, <1>5, <1>6, <1>7, <1>8, <1>9, <1>10 DEF Sequence

\* ... of one that waits, except when it pushes, ...
LEMMA ReleaseStepWait ==
    ASSUME TInv, NEW a \in Tasks, Wait(a),
           ~EnqueueAndPush(a), ~PushReleased(a), ~PushFindsCycle(a)
    PROVE  Calm
<1> USE DEF TInv, TaskTypes, Calm, ReapersKept, FinalizersKept, PushersKept, Goto,
            Panics, loopVars, queueVars
<1>1. CASE WaitEnds(a)
  BY <1>1 DEF WaitEnds
<1>2. CASE WaitTimesOut(a)
  BY <1>2 DEF WaitTimesOut
<1>3. CASE PushSkips(a)
  BY <1>3 DEF PushSkips
<1>4. CASE PushUnwrapPanics(a)
  BY <1>4 DEF PushUnwrapPanics
<1>5. CASE PushStarts(a)
  BY <1>5 DEF PushStarts
<1>6. CASE PushesEnd(a)
  BY <1>6 DEF PushesEnd
<1>7. CASE PushFails(a)
  BY <1>7 DEF PushFails
<1>8. CASE PushPanics(a)
  BY <1>8 DEF PushPanics
<1> QED
  BY <1>1, <1>2, <1>3, <1>4, <1>5, <1>6, <1>7, <1>8 DEF Wait

\* ... of a request that does not come to finalize_txn, ...
LEMMA ReleaseStepExecute ==
    ASSUME TInv, NEW a \in Tasks, Execute(a),
           ~Finalize(a), ~ReleasePush(a), ~FinalizeEnds(a)
    PROVE  Calm
<1> USE DEF TInv, TaskTypes, Calm, ReapersKept, FinalizersKept, PushersKept, Goto,
            Panics, FinishReq, AtUnlock, otherVars, loopVars, queueVars
<1>1. CASE PutMeetsIntent(a)
  BY <1>1 DEF PutMeetsIntent, AtPut
<1>2. CASE PutIntentPanics(a)
  BY <1>2 DEF PutIntentPanics, AtPut
<1>3. CASE PutLockPanics(a)
  BY <1>3 DEF PutLockPanics, AtPut
<1>4. CASE Put(a)
  BY <1>4 DEF Put, AtPut
<1>5. CASE GetMeetsIntent(a)
  BY <1>5 DEF GetMeetsIntent, AtGet
<1>6. CASE Get(a)
  BY <1>6 DEF Get, AtGet
<1>7. CASE CommitFindsAborted(a)
  BY <1>7 DEF CommitFindsAborted, AtCommit
<1>8. CASE CommitCannotRefresh(a)
  BY <1>8 DEF CommitCannotRefresh, AtCommit
<1>9. CASE CommitRefreshes(a)
  BY <1>9 DEF CommitRefreshes, AtCommit
<1>10. CASE Commit(a)
  BY <1>10 DEF Commit
<1>11. CASE AbortFindsCommitted(a)
  BY <1>11 DEF AbortFindsCommitted, AtAbort
<1>12. CASE AbortProceeds(a)
  BY <1>12 DEF AbortProceeds, AtAbort
<1>13. CASE Abort(a)
  BY <1>13 DEF Abort
<1>14. CASE AbortIntents(a)
  BY <1>14 DEF AbortIntents
<1>15. CASE UpdateTxnLocks(a)
  BY <1>15 DEF UpdateTxnLocks
<1>16. CASE UnlockSkips(a)
  BY <1>16 DEF UnlockSkips
<1>17. CASE Unlock(a)
  BY <1>17 DEF Unlock
<1>18. CASE FinalizeFindsNone(a)
  BY <1>18 DEF FinalizeFindsNone
<1> QED
  BY <1>1, <1>2, <1>3, <1>4, <1>5, <1>6, <1>7, <1>8, <1>9, <1>10,
     <1>11, <1>12, <1>13, <1>14, <1>15, <1>16, <1>17, <1>18 DEF Execute

\* ... of one in lock_is_free, ...
LEMMA ReleaseStepFree ==
    ASSUME TInv, NEW a \in Tasks, LockIsFree(a)
    PROVE  Calm
<1> USE DEF TInv, TaskTypes, Calm, ReapersKept, FinalizersKept, PushersKept,
            Panics, Frees, LockIsFreeReturns, Passes, otherVars, queueVars
<1>1. CASE CheckFree(a)
  BY <1>1 DEF CheckFree
<1>2. CASE CheckPanics(a)
  BY <1>2 DEF CheckPanics
<1>3. CASE CopyReaders(a)
  BY <1>3 DEF CopyReaders
<1>4. CASE WakeReader(a)
  BY <1>4 DEF WakeReader
<1>5. CASE ClearReaders(a)
  BY <1>5 DEF ClearReaders
<1>6. CASE NextIsNone(a)
  BY <1>6 DEF NextIsNone
<1>7. CASE NextWriter(a)
  BY <1>7 DEF NextWriter
<1>8. CASE ReserveNext(a)
  BY <1>8 DEF ReserveNext
<1>9. CASE SignalNext(a)
  BY <1>9 DEF SignalNext
<1> QED
  BY <1>1, <1>2, <1>3, <1>4, <1>5, <1>6, <1>7, <1>8, <1>9 DEF LockIsFree

\* ... and of one that ends.
LEMMA ReleaseStepAnswer ==
    ASSUME IInv, TInv, NEW a \in Tasks, Answer(a)
    PROVE  Calm
<1> USE DEF TInv, TaskTypes, Calm, ReapersKept, FinalizersKept, PushersKept, Goto,
            Panics, AtReturn, Dequeues, Passes, otherVars, loopVars, queueVars
<1>1. CASE Dequeue(a)
  BY <1>1 DEF Dequeue
<1>2. CASE DequeueReserved(a)
  BY <1>2 DEF DequeueReserved
<1>3. CASE LeaveQueues(a)
  BY <1>3 DEF LeaveQueues
<1>4. CASE Return(a)
  BY <1>4 DEF Return, ForgetRequest
<1>5. CASE ReturnPanics(a)
  BY <1>5 DEF ReturnPanics
<1>6. CASE Retry(a)
  BY <1>6 DEF Retry
<1> QED
  BY <1>1, <1>2, <1>3, <1>4, <1>5, <1>6 DEF Answer

\* A new push, or one that has taken its message, is one fewer to look after.
LEMMA ReleaseStepPush ==
    ASSUME TInv, RInv, NEW a \in Tasks, EnqueueAndPush(a) \/ PushReleased(a)
    PROVE  RInv'
<1> DEFINE p == <<a, pushee[a]>>
<1>1. /\ pc[a] \in {"enqueue", "pushing"} /\ pc'[a] \in {"pushing", "push"}
      /\ \A b \in Tasks : b # a => pc'[b] = pc[b]
      /\ waiting_pushes' \subseteq waiting_pushes \cup {p}
      /\ released' = released \ {p}
      /\ \A b \in Tasks : releasing'[b] \subseteq releasing[b]
      /\ UNCHANGED spans
  <2>1. CASE EnqueueAndPush(a)
    BY <2>1 DEF EnqueueAndPush, Goto, TInv, TaskTypes
  <2>2. CASE PushReleased(a)
    BY <2>2 DEF PushReleased, Goto, TInv, TaskTypes
  <2> QED
    BY <2>1, <2>2
<1> HIDE DEF p
<1>2. ReapersKept /\ FinalizersKept
  BY <1>1 DEF ReapersKept, FinalizersKept
<1>3. ReapersMeet'
  BY <1>2, ReapersMeetStep DEF RInv
<1>4. LoopInv'
  BY <1>1, <1>2 DEF RInv, LoopInv, FinalizersKept
<1>5. SentInv'
  BY <1>1, <1>2 DEF RInv, SentInv, FinalizersKept
<1>6. ReleaseFits'
  BY <1>1 DEF RInv, ReleaseFits
<1> QED
  BY <1>3, <1>4, <1>5, <1>6 DEF RInv

\* A new reaper wants all spans of its transaction, and so those of the others.
LEMMA ReleaseStepCycle ==
    ASSUME IInv, TInv, RInv, NEW a \in Tasks, PushFindsCycle(a)
    PROVE  RInv'
<1>1. PICK b \in Reapers(pushee[a]) :
        /\ pc[b] = "idle"
        /\ pc' = [pc EXCEPT ![a] = "await", ![b] = "latch"]
        /\ spans' = [spans EXCEPT ![b] = CollectSpans(pushee[a], AbortTxn)]
  BY DEF PushFindsCycle, IsNewReaper
<1>2. /\ pc[a] = "pushing" /\ pushee[a] \in Txns
      /\ b \in Tasks /\ Txn(b) = pushee[a] /\ b # a
      /\ UNCHANGED <<waiting_pushes, released, releasing>>
  BY <1>1, TaskFacts DEF PushFindsCycle, IInv, PushInv
<1>3. /\ spans'[b] = FinalSpans(Txn(b))
      /\ \A c \in Tasks \ {b} : /\ spans'[c] = spans[c]
                                /\ AtWork(c)' => AtWork(c)
      /\ FinalizersKept
  BY <1>1, <1>2, RequestFacts, SpansFacts
     DEF IInv, TInv, TaskTypes, FinalizersKept
<1>4. \A c \in Tasks \ {b} : IsReaper(c) /\ AtWork(c) /\ Txn(c) = Txn(b) =>
         spans[c] \cap FinalSpans(Txn(b)) # {}
  BY DEF IInv, SpansInv, IsReaper
<1>5. ReapersMeet'
  <2> SUFFICES ASSUME NEW c \in Tasks, NEW d \in Tasks, c # d, Txn(c) = Txn(d),
                      IsReaper(c), IsReaper(d), AtWork(c)', AtWork(d)'
               PROVE  spans'[c] \cap spans'[d] # {}
    BY DEF ReapersMeet, IsReaper, Client, Txn
  <2>1. CASE c = b
    BY <1>3, <1>4, <2>1
  <2>2. CASE d = b
    BY <1>3, <1>4, <2>2
  <2>3. CASE c # b /\ d # b
    BY <1>3, <2>3 DEF RInv, ReapersMeet
  <2> QED
    BY <2>1, <2>2, <2>3
<1>6. LoopInv' /\ SentInv'
  BY <1>2, <1>3 DEF RInv, LoopInv, SentInv, FinalizersKept
<1>7. ReleaseFits'
  BY <1>2 DEF RInv, ReleaseFits
<1> QED
  BY <1>5, <1>6, <1>7 DEF RInv

\* The task copies the pushes: nobody has sent to any of them, or it would still
\* be in finalize_txn.
LEMMA ReleaseStepFinalize ==
    ASSUME IInv, TInv, RInv, NEW a \in Tasks, Finalize(a)
    PROVE  RInv'
<1> DEFINE P == PushesOn(Txn(a))
<1>1. /\ pc[a] = "unlock" /\ pc' = [pc EXCEPT ![a] = "finalize"]
      /\ releasing' = [releasing EXCEPT ![a] = P]
      /\ UNCHANGED <<waiting_pushes, released, spans>>
  BY DEF Finalize, AtUnlock, Goto
<1>2. P \subseteq waiting_pushes /\ \A p \in P : p[2] = Txn(a)
  BY DEF PushesOn
<1>3. /\ pc'[a] = "finalize" /\ releasing'[a] = P
      /\ \A b \in Tasks \ {a} : UNCHANGED <<pc[b], releasing[b]>>
  BY <1>1 DEF TInv, TaskTypes
<1> HIDE DEF P
<1>4. \A b \in Tasks : Txn(b) = Txn(a) => pc[b] # "finalize"
  BY <1>1, FinalizeAlone DEF RInv
<1>5. P \cap released = {}
  BY <1>2, <1>4 DEF RInv, SentInv
<1>6. ReapersMeet'
  BY <1>1, <1>3, ReapersMeetStep DEF RInv, ReapersKept
<1>7. LoopInv'
  BY <1>2, <1>3 DEF RInv, LoopInv
<1>8. SentInv'
  BY <1>1, <1>3 DEF RInv, SentInv
<1>9. ReleaseFits'
  BY <1>1, <1>3, <1>5 DEF RInv, ReleaseFits
<1> QED
  BY <1>6, <1>7, <1>8, <1>9 DEF RInv

\* It sends to one of them, which nobody else has still to send to.
LEMMA ReleaseStepSend ==
    ASSUME IInv, TInv, RInv, NEW a \in Tasks, ReleasePush(a)
    PROVE  RInv'
<1>1. PICK p \in releasing[a] :
        /\ released' = released \cup {p}
        /\ releasing' = [releasing EXCEPT ![a] = @ \ {p}]
  BY DEF ReleasePush
<1>2. pc[a] = "finalize" /\ UNCHANGED <<waiting_pushes, pc, spans>>
  BY DEF ReleasePush
<1>3. /\ releasing'[a] = releasing[a] \ {p}
      /\ \A b \in Tasks \ {a} : releasing'[b] = releasing[b]
  BY <1>1 DEF TInv, TaskTypes
<1>4. p[2] = Txn(a)
  BY DEF RInv, LoopInv
<1>5. \A b \in Tasks \ {a} : p \notin releasing[b]
  BY <1>2, <1>4, FinalizeAlone DEF RInv, LoopInv
<1>6. ReapersMeet'
  BY <1>2, ReapersMeetStep DEF RInv, ReapersKept
<1>7. LoopInv'
  BY <1>2, <1>3 DEF RInv, LoopInv
<1>8. SentInv'
  <2> SUFFICES ASSUME NEW q \in released' \cap waiting_pushes'
               PROVE  \E b \in Tasks : /\ pc'[b] = "finalize" /\ Txn(b) = q[2]
                                       /\ q \notin releasing'[b]
    BY DEF SentInv, Txn
  <2>1. CASE q = p
    BY <1>2, <1>3, <1>4, <2>1
  <2>2. CASE q # p
    BY <1>1, <1>2, <1>3, <2>2 DEF RInv, SentInv
  <2> QED
    BY <2>1, <2>2
<1>9. ReleaseFits'
  BY <1>1, <1>3, <1>5 DEF RInv, ReleaseFits
<1> QED
  BY <1>6, <1>7, <1>8, <1>9 DEF RInv

\* It takes all pushes on its transaction out of the queue.
LEMMA ReleaseStepEnd ==
    ASSUME TInv, RInv, NEW a \in Tasks, FinalizeEnds(a)
    PROVE  RInv'
<1>1. /\ pc[a] = "finalize" /\ pc' = [pc EXCEPT ![a] = "dequeue"]
      /\ releasing[a] = {}
      /\ waiting_pushes' = {p \in waiting_pushes : p[2] # Txn(a)}
      /\ UNCHANGED <<released, releasing, spans>>
  BY DEF FinalizeEnds, FinishReq, RemovePushee, PushesOn, Goto
<1>2. pc'[a] = "dequeue" /\ \A b \in Tasks \ {a} : pc'[b] = pc[b]
  BY <1>1 DEF TInv, TaskTypes
<1>3. ReapersMeet'
  BY <1>1, <1>2, ReapersMeetStep DEF RInv, ReapersKept
<1>4. LoopInv'
  BY <1>1, <1>2 DEF RInv, LoopInv
<1>5. SentInv'
  BY <1>1, <1>2 DEF RInv, SentInv
<1>6. ReleaseFits'
  BY <1>1 DEF RInv, ReleaseFits
<1> QED
  BY <1>3, <1>4, <1>5, <1>6 DEF RInv

\* The invariant holds before the first request.
LEMMA ReleaseInit == Init => RInv
BY DEF Init, RInv, ReapersMeet, LoopInv, SentInv, ReleaseFits

\* Steps are calm, but for six actions.
LEMMA MostStepsAreCalm ==
    ASSUME IInv, TInv, [Next]_vars
    PROVE  \/ Calm
           \/ \E a \in Tasks : \/ EnqueueAndPush(a) \/ PushReleased(a)
                               \/ PushFindsCycle(a) \/ Finalize(a)
                               \/ ReleasePush(a) \/ FinalizeEnds(a)
<1>1. ASSUME NEW t \in Txns, Issue(t) PROVE Calm
  BY <1>1, ReleaseStepIssue
<1>2. ASSUME NEW a \in Tasks, Sequence(a) PROVE Calm
  BY <1>2, ReleaseStepSequence
<1>3. ASSUME NEW a \in Tasks, Wait(a)
      PROVE  Calm \/ EnqueueAndPush(a) \/ PushReleased(a) \/ PushFindsCycle(a)
  BY <1>3, ReleaseStepWait
<1>4. ASSUME NEW a \in Tasks, Execute(a)
      PROVE  Calm \/ Finalize(a) \/ ReleasePush(a) \/ FinalizeEnds(a)
  BY <1>4, ReleaseStepExecute
<1>5. ASSUME NEW a \in Tasks, LockIsFree(a) PROVE Calm
  BY <1>5, ReleaseStepFree
<1>6. ASSUME NEW a \in Tasks, Answer(a) PROVE Calm
  BY <1>6, ReleaseStepAnswer
<1>7. CASE UNCHANGED vars
  BY <1>7 DEF vars, loopVars, queueVars, Calm, ReapersKept, FinalizersKept,
              PushersKept
<1> QED
  BY <1>1, <1>2, <1>3, <1>4, <1>5, <1>6, <1>7 DEF Next

\* Every step preserves the invariant.
LEMMA ReleaseStep ==
    ASSUME IInv, TInv, RInv, [Next]_vars
    PROVE  RInv'
BY MostStepsAreCalm, CalmStep, ReleaseStepPush, ReleaseStepCycle,
   ReleaseStepFinalize, ReleaseStepSend, ReleaseStepEnd

\* finalize_txn is never stuck at the channel of a push, although a client and
\* several reapers may finalize one transaction, and a push stays in the queue
\* when its task has given up: latches keep those tasks apart.
THEOREM ReleasesFit == Spec => []ReleaseFits
<1>1. RInv => ReleaseFits
  BY DEF RInv
<1> QED
  BY <1>1, ReleaseInit, ReleaseStep, WakeupInvariant, PTL DEF Spec

\* A push is in the queue, or was until its pushee was finalized.
KeptInv ==
    \A a \in Tasks : pc[a] = "pushing" =>
        \/ <<a, pushee[a]>> \in waiting_pushes
        \/ status[pushee[a]] # "PENDING"

\* A message says that the pushee is finalized.
MessageInv == \A p \in released : status[p[2]] # "PENDING"

\* The inductive invariant, with IInv, TInv and RInv.
KInv == KeptInv /\ MessageInv

\* A step that neither adds nor removes pushes, nor starts or ends one, but may
\* finalize a transaction.
LEMMA KeptStepCalm ==
    ASSUME TInv, KInv, UNCHANGED waiting_pushes, released' \subseteq released,
           PushersKept,
           \A t \in Txns : status[t] # "PENDING" => status'[t] # "PENDING",
           \A a \in Tasks : pc[a] = "pushing" => pushee[a] \in Txns
    PROVE  KInv'
<1>1. \A p \in released : p[2] \in Txns
  BY DEF TInv, TaskTypes
<1> QED
  BY <1>1 DEF KInv, KeptInv, MessageInv, PushersKept

\* Every step preserves the invariant.
LEMMA KeptStep ==
    ASSUME IInv, TInv, RInv, KInv, [Next]_vars
    PROVE  KInv'
<1>1. \A t \in Txns : status[t] # "PENDING" => status'[t] # "PENDING"
  BY StatusStep
<1>2. \A a \in Tasks : pc[a] = "pushing" => pushee[a] \in Txns
  BY DEF IInv, PushInv
<1>3. CASE Calm
  BY <1>1, <1>2, <1>3, KeptStepCalm DEF Calm
<1>4. ASSUME NEW a \in Tasks, EnqueueAndPush(a)
      PROVE  KInv'
  <2>1. /\ pc' = [pc EXCEPT ![a] = "pushing"]
        /\ waiting_pushes' = waiting_pushes \cup {<<a, pushee[a]>>}
        /\ released' \subseteq released
        /\ UNCHANGED <<status, pushee>>
    BY <1>4 DEF EnqueueAndPush, Goto, txnVars, loopVars
  <2> QED
    BY <2>1 DEF KInv, KeptInv, MessageInv, TInv, TaskTypes
<1>5. ASSUME NEW a \in Tasks, PushReleased(a)
      PROVE  KInv'
  <2>1. /\ pc' = [pc EXCEPT ![a] = "push"] /\ released' \subseteq released
        /\ UNCHANGED <<waiting_pushes, pushee>>
    BY <1>5 DEF PushReleased, Goto
  <2>2. PushersKept
    BY <2>1 DEF PushersKept, TInv, TaskTypes
  <2> QED
    BY <1>1, <1>2, <2>1, <2>2, KeptStepCalm
<1>6. ASSUME NEW a \in Tasks, PushFindsCycle(a)
      PROVE  KInv'
  <2>1. PICK b \in Reapers(pushee[a]) :
           pc' = [pc EXCEPT ![a] = "await", ![b] = "latch"]
    BY <1>6 DEF PushFindsCycle
  <2>2. UNCHANGED <<waiting_pushes, released, pushee>>
    BY <1>6 DEF PushFindsCycle
  <2>3. PushersKept
    BY <2>1, <2>2 DEF PushersKept, TInv, TaskTypes
  <2> QED
    BY <1>1, <1>2, <2>2, <2>3, KeptStepCalm
<1>7. ASSUME NEW a \in Tasks, Finalize(a)
      PROVE  KInv'
  <2>1. /\ pc' = [pc EXCEPT ![a] = "finalize"]
        /\ UNCHANGED <<waiting_pushes, released, pushee>>
    BY <1>7 DEF Finalize, Goto, loopVars
  <2>2. PushersKept
    BY <2>1 DEF PushersKept, TInv, TaskTypes
  <2> QED
    BY <1>1, <1>2, <2>1, <2>2, KeptStepCalm
<1>8. ASSUME NEW a \in Tasks, ReleasePush(a)
      PROVE  KInv'
  <2>1. PICK p \in releasing[a] : released' = released \cup {p}
    BY <1>8 DEF ReleasePush
  <2>2. /\ pc[a] = "finalize" /\ p[2] = Txn(a)
        /\ UNCHANGED <<waiting_pushes, pc, pushee, status>>
    BY <1>8 DEF ReleasePush, RInv, LoopInv, txnVars, loopVars
  <2>3. status[Txn(a)] # "PENDING"
    BY <2>2 DEF IInv, StatusInv
  <2> QED
    BY <2>1, <2>2, <2>3 DEF KInv, KeptInv, MessageInv
<1>9. ASSUME NEW a \in Tasks, FinalizeEnds(a)
      PROVE  KInv'
  <2>1. /\ pc[a] = "finalize" /\ pc' = [pc EXCEPT ![a] = "dequeue"]
        /\ waiting_pushes' = {p \in waiting_pushes : p[2] # Txn(a)}
        /\ UNCHANGED <<released, pushee, status>>
    BY <1>9 DEF FinalizeEnds, FinishReq, RemovePushee, PushesOn, Goto
  <2>2. status[Txn(a)] # "PENDING"
    BY <2>1 DEF IInv, StatusInv
  <2>3. \A b \in Tasks : pc'[b] = "pushing" => pc[b] = "pushing"
    BY <2>1 DEF TInv, TaskTypes
  <2>4. KeptInv'
    BY <2>1, <2>2, <2>3 DEF KInv, KeptInv
  <2>5. MessageInv'
    BY <2>1 DEF KInv, MessageInv
  <2> QED
    BY <2>4, <2>5 DEF KInv
<1> QED
  BY <1>3, <1>4, <1>5, <1>6, <1>7, <1>8, <1>9, MostStepsAreCalm

\* A push on a pending transaction stays in the queue and is not released, so that
\* those who look for a cycle find it.
THEOREM PushesKept == Spec => []PushesAreKept
<1>1. Init => KInv
  BY DEF Init, KInv, KeptInv, MessageInv
<1>2. IInv /\ KInv => PushesAreKept
  <2> SUFFICES ASSUME IInv, KInv, NEW a \in Tasks, pc[a] = "pushing",
                      status[pushee[a]] = "PENDING"
               PROVE  <<a, pushee[a]>> \in waiting_pushes \ released
    BY DEF PushesAreKept
  <2> QED
    BY DEF KInv, KeptInv, MessageInv
<1> QED
  BY <1>1, <1>2, KeptStep, ReleaseInit, ReleaseStep, WakeupInvariant, PTL
     DEF Spec
=============================================================================
