---------------------------- MODULE ExecutorProofs ----------------------------
(***************************************************************************)
(* Proofs, for every set of transactions and keys, every workload and      *)
(* every bound, that a transaction is finalized once, that its locks are   *)
(* kept until then, and that it knows the locks it holds.                  *)
(***************************************************************************)
EXTENDS Executor, TLAPS

\* The types of the variables the argument is about.
Types ==
    /\ status \in [Txns -> Statuses]
    /\ lock_spans \in [Txns -> SUBSET Keys]
    /\ read_set \in [Txns -> SUBSET Keys]
    /\ todo \in [Txns -> Seq(Requests)]
    /\ lock_holder \in [Keys -> Txns \cup {None}]
    /\ pc \in [Tasks -> Labels]
    /\ request \in [Tasks -> Requests \cup {None}]
    /\ spans \in [Tasks -> SUBSET Keys]
    /\ held \in [Tasks -> SUBSET Keys]
    /\ keys \in [Tasks -> SUBSET Keys]
    /\ DOMAIN togo = Tasks
    /\ DOMAIN pushee = Tasks

\* The keys of a push loop are keys, and a transaction that is pushed has had a
\* lock.
PushInv ==
    \A a \in Tasks :
        /\ pc[a] \in {"push", "enqueue", "pushing", "await"} => togo[a] \subseteq Keys
        /\ pc[a] \in {"enqueue", "pushing", "await"} =>
             pushee[a] \in Txns /\ lock_spans[pushee[a]] # {}

\* Where a task has its latches.
Latched == {"scan", "eval", "commit", "abort", "delete", "release", "unlock",
            "finalize"}

\* A task that scans or evaluates has latched its spans, and no key is latched twice.
LatchInv ==
    /\ \A a \in Tasks : pc[a] \in Latched => held[a] = spans[a]
    /\ \A a \in Tasks, b \in Tasks : a # b => held[a] \cap held[b] = {}

AtWork(a) == pc[a] \notin {"idle", "panicked"}

\* A task that is at work has a request, which fits where it is.
RequestInv ==
    \A a \in Tasks :
        /\ AtWork(a) => request[a] \in Requests
        /\ AtWork(a) /\ a # Client(Txn(a)) => request[a].op = "abort"
        /\ pc[a] = "commit" => request[a].op = "commit"
        /\ pc[a] = "abort" => request[a].op = "abort"
        /\ pc[a] \in {"delete", "release", "unlock", "finalize"} =>
             request[a].op \in {"commit", "abort"}

\* The spans of a request that finalizes t.
FinalSpans(t) == lock_spans[t] \cup read_set[t]

\* The client latches all of them to finalize its transaction; a reaper latches
\* at least one, although the transaction may have taken more locks since.
SpansInv ==
    \A a \in Tasks : AtWork(a) =>
        /\ a = Client(Txn(a)) /\ request[a].op \in {"commit", "abort"} =>
             spans[a] = FinalSpans(Txn(a))
        /\ a # Client(Txn(a)) =>
             spans[a] # {} /\ spans[a] \subseteq FinalSpans(Txn(a))

\* What a task has read of the record still holds when it writes the record.
StatusInv ==
    \A a \in Tasks :
        /\ pc[a] = "commit" => status[Txn(a)] # "ABORTED"
        /\ pc[a] = "abort" => status[Txn(a)] # "COMMITTED"
        /\ pc[a] \in {"delete", "release", "unlock", "finalize"} =>
             status[Txn(a)] # "PENDING"

\* A lock that is held has a state in the lock table.
HolderInv == \A k \in Keys : lock_holder[k] # None => k \in locks

\* The inductive invariant.
IInv == Types /\ PushInv /\ LatchInv /\ RequestInv /\ SpansInv /\ StatusInv
            /\ HolderInv /\ HolderIsSpanned
-----------------------------------------------------------------------------
(* The tasks of a transaction and their requests *)

\* A client is the only task of its transaction that is not a reaper.
LEMMA TaskFacts ==
    /\ \A a \in Tasks : Txn(a) \in Txns
    /\ \A t \in Txns : Client(t) \in Tasks /\ Txn(Client(t)) = t
    /\ \A t \in Txns : \A b \in Reapers(t) :
          b \in Tasks /\ Txn(b) = t /\ b # Client(t)
BY BoundsAssumption DEF Tasks, Txn, Client, Reapers

\* The requests that name a key, and the one that TaskQueue makes.
LEMMA RequestFacts ==
    /\ \A r \in Requests : /\ r.op \in {"put", "get", "commit", "abort"}
                           /\ r.op \in {"put", "get"} => r.key \in Keys
    /\ AbortTxn \in Requests /\ AbortTxn.op = "abort"
BY DEF Requests, AbortTxn

\* The spans that a request collects.
LEMMA SpansFacts ==
    ASSUME Types, NEW t \in Txns, NEW r \in Requests
    PROVE  /\ CollectSpans(t, r) \subseteq Keys
           /\ r.op \in {"commit", "abort"} => CollectSpans(t, r) = FinalSpans(t)
BY RequestFacts DEF Types, CollectSpans, FinalSpans
\* The latches keep a commit and an abort of one transaction apart: both would
\* hold a span of the reaper.
LEMMA CommitExcludesAbort ==
    ASSUME IInv, NEW a \in Tasks, NEW b \in Tasks, Txn(a) = Txn(b),
           pc[a] = "commit", pc[b] = "abort"
    PROVE  FALSE
<1>1. a # b /\ request[a].op = "commit"
  BY DEF IInv, RequestInv
<1>2. a = Client(Txn(a)) /\ b # Client(Txn(b))
  BY <1>1 DEF IInv, RequestInv, AtWork
<1>3. spans[a] = FinalSpans(Txn(a))
  BY <1>1, <1>2 DEF IInv, SpansInv, AtWork
<1>4. spans[b] # {} /\ spans[b] \subseteq FinalSpans(Txn(a))
  BY <1>2 DEF IInv, SpansInv, AtWork
<1>5. spans[a] \cap spans[b] = {}
  BY <1>1 DEF IInv, LatchInv, Latched
<1> QED
  BY <1>3, <1>4, <1>5
-----------------------------------------------------------------------------
(* Every step preserves the invariant *)

USE DEF Labels, Latched, AtWork

\* A client makes a request: its spans are those of its transaction.
LEMMA IssueStep ==
    ASSUME IInv, NEW t \in Txns, Issue(t)
    PROVE  IInv'
<1> DEFINE a == Client(t)
           r == Head(todo[t])
<1>1. r \in Requests /\ Tail(todo[t]) \in Seq(Requests)
  BY DEF Issue, IInv, Types
<1>2. a \in Tasks /\ Txn(a) = t
  BY TaskFacts
<1>3. /\ pc[a] = "idle" /\ pc' = [pc EXCEPT ![a] = "latch"]
      /\ todo' = [todo EXCEPT ![t] = Tail(@)]
      /\ request' = [request EXCEPT ![a] = r]
      /\ spans' = [spans EXCEPT ![a] = CollectSpans(t, r)]
      /\ UNCHANGED <<status, lock_spans, read_set, lock_holder, locks, held, keys,
                     togo, pushee>>
  BY DEF Issue, Goto, lockVars, stateVars, txnVars, loopVars
<1>4. /\ CollectSpans(t, r) \in SUBSET Keys
      /\ r.op \in {"commit", "abort"} => CollectSpans(t, r) = FinalSpans(t)
  BY <1>1, SpansFacts DEF IInv
<1> HIDE DEF a, r
<1>5. Types'
  BY <1>1, <1>2, <1>3, <1>4 DEF IInv, Types
<1>6. PushInv' /\ LatchInv' /\ RequestInv' /\ StatusInv'
  BY <1>1, <1>2, <1>3
     DEF IInv, Types, PushInv, LatchInv, RequestInv, StatusInv, a
<1>7. SpansInv'
  BY <1>2, <1>3, <1>4 DEF IInv, Types, SpansInv, FinalSpans, a
<1> QED
  BY <1>3, <1>5, <1>6, <1>7 DEF IInv, HolderInv, HolderIsSpanned

\* Waiting and pushing; PushFindsCycle starts a reaper, whose transaction has
\* had a lock.
LEMMA WaitStep ==
    ASSUME IInv, NEW a \in Tasks, Wait(a)
    PROVE  IInv'
<1> USE TaskFacts, RequestFacts DEF IInv, Types, PushInv, LatchInv, RequestInv,
        SpansInv, StatusInv, HolderInv, HolderIsSpanned, FinalSpans, Goto, Ends,
        Panics, Passes, stateVars, methodVars, lockVars, txnVars, loopVars,
        queueVars, otherVars
<1>1. CASE WaitEnds(a)
  BY <1>1 DEF WaitEnds
<1>2. CASE WaitTimesOut(a)
  BY <1>2 DEF WaitTimesOut
<1>3. CASE PushSkips(a)
  BY <1>3 DEF PushSkips
<1>4. CASE PushUnwrapPanics(a)
  BY <1>4 DEF PushUnwrapPanics
<1>5. CASE PushStarts(a)
  BY <1>5 DEF PushStarts
<1>6. CASE PushesEnd(a)
  BY <1>6 DEF PushesEnd
<1>7. CASE PushReleased(a)
  BY <1>7 DEF PushReleased
<1>8. CASE PushFails(a)
  BY <1>8 DEF PushFails
<1>9. CASE PushFindsCycle(a)
  <2>1. PICK b \in Reapers(pushee[a]) :
          /\ pc[b] = "idle"
          /\ pc' = [pc EXCEPT ![a] = "await", ![b] = "latch"]
          /\ request' = [request EXCEPT ![b] = AbortTxn]
          /\ spans' = [spans EXCEPT ![b] = CollectSpans(pushee[a], AbortTxn)]
    BY <1>9 DEF PushFindsCycle, IsNewReaper
  <2>2. /\ pc[a] = "pushing"
        /\ b \in Tasks /\ Txn(b) = pushee[a] /\ b # Client(Txn(b))
    BY <1>9, <2>1 DEF PushFindsCycle
  <2>3. /\ CollectSpans(pushee[a], AbortTxn) = FinalSpans(pushee[a])
        /\ CollectSpans(pushee[a], AbortTxn) \in SUBSET Keys
        /\ FinalSpans(pushee[a]) # {}
    BY <2>2, SpansFacts
  <2>4. UNCHANGED <<status, lock_spans, read_set, todo, lock_holder, locks, held,
                    keys, togo, pushee>>
    BY <1>9 DEF PushFindsCycle
  <2>5. Types'
    BY <2>1, <2>2, <2>3, <2>4
  <2>6. PushInv' /\ LatchInv'
    BY <2>1, <2>2, <2>4
  <2>7. RequestInv' /\ StatusInv'
    BY <2>1, <2>2, <2>4
  <2>8. SpansInv'
    BY <2>1, <2>2, <2>3, <2>4
  <2> QED
    BY <2>4, <2>5, <2>6, <2>7, <2>8
<1>10. CASE PushPanics(a)
  BY <1>10 DEF PushPanics
<1>11. CASE EnqueueAndPush(a)
  BY <1>11 DEF EnqueueAndPush
<1> QED
  BY <1>1, <1>2, <1>3, <1>4, <1>5, <1>6, <1>7, <1>8, <1>9, <1>10, <1>11 DEF Wait

\* Taking the latches and scanning the lock table.
LEMMA SequenceStep ==
    ASSUME IInv, NEW a \in Tasks, Sequence(a)
    PROVE  IInv'
<1> USE TaskFacts, RequestFacts DEF IInv, Types, PushInv, LatchInv, RequestInv,
        SpansInv, StatusInv, HolderInv, HolderIsSpanned, FinalSpans, Goto, Ends,
        Panics, Passes, stateVars, methodVars, lockVars, txnVars, loopVars,
        queueVars, otherVars
<1>1. CASE ScanStarts(a)
  <2>1. /\ pc[a] = "latch" /\ pc' = [pc EXCEPT ![a] = "scan"]
        /\ Latch!Grantable(a, spans[a])
        /\ held' = [held EXCEPT ![a] = spans[a]]
        /\ keys' = [keys EXCEPT ![a] = CollectSpans(Txn(a), request[a])]
        /\ togo' = [togo EXCEPT ![a] = CollectSpans(Txn(a), request[a])]
        /\ UNCHANGED <<status, lock_spans, read_set, todo, lock_holder, locks,
                       request, spans, pushee>>
    BY <1>1 DEF ScanStarts, Sequences
  <2>2. Types'
    BY <2>1, SpansFacts
  <2>3. LatchInv'
    BY <2>1 DEF Latch!Grantable
  <2> QED
    BY <2>1, <2>2, <2>3
<1>2. CASE ScanSkips(a)
  BY <1>2 DEF ScanSkips, Scans
<1>3. CASE ScanLooks(a)
  BY <1>3 DEF ScanLooks, Scans
<1>4. CASE ScanUnwrapPanics(a)
  BY <1>4 DEF ScanUnwrapPanics, Scans
<1>5. CASE ScanConflicts(a)
  BY <1>5 DEF ScanConflicts
<1>6. CASE ScanPasses(a)
  BY <1>6 DEF ScanPasses, Scans
<1>7. CASE ScanFindsFree(a)
  BY <1>7 DEF ScanFindsFree, Scans
<1>8. CASE ScanReserves(a)
  BY <1>8 DEF ScanReserves, Scans
<1>9. CASE ScanWaits(a)
  BY <1>9 DEF ScanWaits, Scans
<1>10. CASE ScanEnds(a)
  BY <1>10 DEF ScanEnds
<1> QED
  BY <1>1, <1>2, <1>3, <1>4, <1>5, <1>6, <1>7, <1>8, <1>9, <1>10 DEF Sequence

\* The requests proper.  Commit and Abort rest on CommitExcludesAbort.
LEMMA ExecuteStep ==
    ASSUME IInv, NEW a \in Tasks, Execute(a)
    PROVE  IInv'
<1> USE TaskFacts, RequestFacts DEF IInv, Types, PushInv, LatchInv, RequestInv,
        SpansInv, StatusInv, HolderInv, HolderIsSpanned, FinalSpans, Goto, Ends,
        Panics, Passes, stateVars, methodVars, lockVars, txnVars, loopVars,
        queueVars, otherVars
<1>1. CASE PutMeetsIntent(a)
  BY <1>1 DEF PutMeetsIntent, AtPut, FinishReq
<1>2. CASE PutIntentPanics(a)
  BY <1>2 DEF PutIntentPanics, AtPut
<1>3. CASE PutLockPanics(a)
  BY <1>3 DEF PutLockPanics, AtPut
<1>4. CASE Put(a)
  <2> DEFINE t == Txn(a)
             k == request[a].key
  <2>1. /\ pc[a] = "eval" /\ pc' = [pc EXCEPT ![a] = "dequeue"]
        /\ request[a].op = "put" /\ a = Client(t) /\ k \in Keys /\ t \in Txns
    BY <1>4 DEF Put, AtPut, FinishReq
  <2>2. /\ locks' = locks \cup {k}
        /\ lock_holder' = [lock_holder EXCEPT ![k] = t]
        /\ lock_spans' = [lock_spans EXCEPT ![t] = @ \cup {k}]
        /\ held' = [held EXCEPT ![a] = {}]
        /\ togo' = [togo EXCEPT ![a] = keys[a]]
        /\ UNCHANGED <<status, read_set, todo, request, spans, keys, pushee>>
    BY <1>4 DEF Put, AcquireLock, AppendLockSpan, FinishReq
  <2> HIDE DEF t, k
  <2>3. Types'
    BY <2>1, <2>2
  <2>4. PushInv' /\ LatchInv' /\ RequestInv' /\ StatusInv'
    BY <2>1, <2>2
  <2>5. SpansInv'
    BY <2>1, <2>2 DEF t
  <2>6. HolderInv' /\ HolderIsSpanned'
    BY <2>1, <2>2
  <2> QED
    BY <2>3, <2>4, <2>5, <2>6
<1>5. CASE GetMeetsIntent(a)
  BY <1>5 DEF GetMeetsIntent, AtGet, FinishReq
<1>6. CASE Get(a)
  <2> DEFINE t == Txn(a)
             k == request[a].key
  <2>1. /\ pc[a] = "eval" /\ pc' = [pc EXCEPT ![a] = "dequeue"]
        /\ request[a].op = "get" /\ a = Client(t) /\ k \in Keys /\ t \in Txns
    BY <1>6 DEF Get, AtGet, FinishReq
  <2>2. /\ read_set' = [read_set EXCEPT ![t] = @ \cup {k}]
        /\ held' = [held EXCEPT ![a] = {}]
        /\ togo' = [togo EXCEPT ![a] = keys[a]]
        /\ UNCHANGED <<status, lock_spans, lock_holder, locks, todo, request,
                       spans, keys, pushee>>
    BY <1>6 DEF Get, FinishReq
  <2> HIDE DEF t, k
  <2>3. Types'
    BY <2>1, <2>2
  <2>4. PushInv' /\ LatchInv' /\ RequestInv' /\ StatusInv'
    BY <2>1, <2>2
  <2>5. SpansInv'
    BY <2>1, <2>2 DEF t
  <2>6. HolderInv' /\ HolderIsSpanned'
    BY <2>2
  <2> QED
    BY <2>3, <2>4, <2>5, <2>6
<1>7. CASE CommitFindsAborted(a)
  BY <1>7 DEF CommitFindsAborted, AtCommit
<1>8. CASE CommitCannotRefresh(a)
  BY <1>8 DEF CommitCannotRefresh, AtCommit, FinishReq
<1>9. CASE CommitRefreshes(a)
  BY <1>9 DEF CommitRefreshes, AtCommit
<1>10. CASE Commit(a)
  <2>1. /\ pc[a] = "commit" /\ pc' = [pc EXCEPT ![a] = "release"]
        /\ a = Client(Txn(a)) /\ request[a].op = "commit"
        /\ status' = [status EXCEPT ![Txn(a)] = "COMMITTED"]
        /\ UNCHANGED <<lock_spans, read_set, todo, lock_holder, locks, request,
                       spans, held, keys, togo, pushee>>
    BY <1>10 DEF Commit
  <2>2. \A b \in Tasks : Txn(b) = Txn(a) => pc[b] # "abort"
    BY <2>1, CommitExcludesAbort
  <2>3. Types'
    BY <2>1 DEF Statuses
  <2>4. PushInv' /\ LatchInv' /\ RequestInv' /\ SpansInv'
    BY <2>1
  <2>5. StatusInv'
    BY <2>1, <2>2
  <2> QED
    BY <2>1, <2>3, <2>4, <2>5
<1>11. CASE AbortFindsCommitted(a)
  BY <1>11 DEF AbortFindsCommitted, AtAbort, FinishReq
<1>12. CASE AbortProceeds(a)
  BY <1>12 DEF AbortProceeds, AtAbort
<1>13. CASE Abort(a)
  <2>1. /\ pc[a] = "abort" /\ pc' = [pc EXCEPT ![a] = "delete"]
        /\ request[a].op = "abort"
        /\ status' = [status EXCEPT ![Txn(a)] = "ABORTED"]
        /\ UNCHANGED <<lock_spans, read_set, todo, lock_holder, locks, request,
                       spans, held, keys, togo, pushee>>
    BY <1>13 DEF Abort
  <2>2. \A b \in Tasks : Txn(b) = Txn(a) => pc[b] # "commit"
    BY <2>1, CommitExcludesAbort
  <2>3. Types'
    BY <2>1 DEF Statuses
  <2>4. PushInv' /\ LatchInv' /\ RequestInv' /\ SpansInv'
    BY <2>1
  <2>5. StatusInv'
    BY <2>1, <2>2
  <2> QED
    BY <2>1, <2>3, <2>4, <2>5
<1>14. CASE AbortIntents(a)
  BY <1>14 DEF AbortIntents
<1>15. CASE UpdateTxnLocks(a)
  BY <1>15 DEF UpdateTxnLocks
<1>16. CASE UnlockSkips(a)
  BY <1>16 DEF UnlockSkips, AtUnlock
<1>17. CASE Unlock(a)
  <2>1. PICK k : lock_holder' = [lock_holder EXCEPT ![k] = None]
    BY <1>17 DEF Unlock, ReleaseLock
  <2>2. UNCHANGED <<status, lock_spans, read_set, todo, locks, pc, request,
                    spans, held, keys, togo, pushee>>
    BY <1>17 DEF Unlock
  <2>3. Types'
    BY <2>1, <2>2
  <2>4. PushInv' /\ LatchInv' /\ RequestInv' /\ SpansInv' /\ StatusInv'
    BY <2>2
  <2>5. \A j \in Keys : lock_holder'[j] \in {lock_holder[j], None}
    BY <2>1
  <2>6. HolderInv' /\ HolderIsSpanned'
    BY <2>2, <2>5
  <2> QED
    BY <2>3, <2>4, <2>6
<1>18. CASE FinalizeFindsNone(a)
  BY <1>18 DEF FinalizeFindsNone, AtUnlock, FinishReq
<1>19. CASE Finalize(a)
  BY <1>19 DEF Finalize, AtUnlock
<1>20. CASE ReleasePush(a)
  BY <1>20 DEF ReleasePush
<1>21. CASE FinalizeEnds(a)
  BY <1>21 DEF FinalizeEnds, FinishReq
<1> QED
  BY <1>1, <1>2, <1>3, <1>4, <1>5, <1>6, <1>7, <1>8, <1>9, <1>10,
     <1>11, <1>12, <1>13, <1>14, <1>15, <1>16, <1>17, <1>18, <1>19,
     <1>20, <1>21 DEF Execute

\* lock_is_free changes none of what the invariant is about, but for its panic.
LEMMA LockIsFreeStep ==
    ASSUME IInv, NEW a \in Tasks, LockIsFree(a)
    PROVE  IInv'
<1> USE TaskFacts, RequestFacts DEF IInv, Types, PushInv, LatchInv, RequestInv,
        SpansInv, StatusInv, HolderInv, HolderIsSpanned, FinalSpans, Goto, Ends,
        Panics, Passes, stateVars, methodVars, lockVars, txnVars, loopVars,
        queueVars, otherVars
<1>1. CASE CheckPanics(a)
  BY <1>1 DEF CheckPanics, Frees
<1>2. CASE ~CheckPanics(a)
  <2>1. /\ pc[a] \in {"unlock", "dequeue"}
        /\ \/ UNCHANGED togo
           \/ togo' = [togo EXCEPT ![a] = @ \ {at[a]}]
    BY <1>2 DEF LockIsFree, Frees, LockIsFreeReturns, CheckFree, CopyReaders,
       WakeReader, ClearReaders, NextIsNone, NextWriter, ReserveNext, SignalNext
  <2>2. UNCHANGED <<status, lock_spans, read_set, todo, lock_holder, locks, pc,
                    request, spans, held, keys, pushee>>
    BY <1>2 DEF LockIsFree, CheckFree, CopyReaders, WakeReader, ClearReaders,
       NextIsNone, NextWriter, ReserveNext, SignalNext
  <2> QED
    BY <2>1, <2>2
<1> QED
  BY <1>1, <1>2

\* finish_req and the answer.
LEMMA AnswerStep ==
    ASSUME IInv, NEW a \in Tasks, Answer(a)
    PROVE  IInv'
<1> USE TaskFacts, RequestFacts DEF IInv, Types, PushInv, LatchInv, RequestInv,
        SpansInv, StatusInv, HolderInv, HolderIsSpanned, FinalSpans, Goto, Ends,
        Panics, Passes, stateVars, methodVars, lockVars, txnVars, loopVars,
        queueVars, otherVars
<1>1. CASE Dequeue(a)
  BY <1>1 DEF Dequeue, Dequeues
<1>2. CASE DequeueReserved(a)
  BY <1>2 DEF DequeueReserved, Dequeues
<1>3. CASE LeaveQueues(a)
  BY <1>3 DEF LeaveQueues, Dequeues
<1>4. CASE Return(a)
  BY <1>4 DEF Return, AtReturn, Dequeues, ForgetRequest
<1>5. CASE ReturnPanics(a)
  BY <1>5 DEF ReturnPanics, AtReturn, Dequeues
<1>6. CASE Retry(a)
  BY <1>6 DEF Retry, AtReturn, Dequeues
<1> QED
  BY <1>1, <1>2, <1>3, <1>4, <1>5, <1>6 DEF Answer

\* The invariant holds before the first request.
LEMMA InvariantInit == Init => IInv
<1> SUFFICES ASSUME Init PROVE IInv
  OBVIOUS
<1>1. Types
  BY WorkloadsAssumption DEF Init, Types, Statuses
<1> QED
  BY <1>1 DEF Init, IInv, PushInv, LatchInv, RequestInv, SpansInv, StatusInv,
              HolderInv, HolderIsSpanned

\* Every step preserves the invariant.
LEMMA InvariantStep ==
    ASSUME IInv, [Next]_vars
    PROVE  IInv'
<1>1. ASSUME NEW t \in Txns, Issue(t)
      PROVE  IInv'
  BY <1>1, IssueStep
<1>2. ASSUME NEW a \in Tasks,
             Sequence(a) \/ Wait(a) \/ Execute(a) \/ LockIsFree(a) \/ Answer(a)
      PROVE  IInv'
  BY <1>2, SequenceStep, WaitStep, ExecuteStep, LockIsFreeStep, AnswerStep
<1>3. CASE UNCHANGED vars
  BY <1>3 DEF vars, stateVars, lockVars, txnVars, loopVars, queueVars, IInv,
     Types, PushInv, LatchInv, RequestInv, SpansInv, StatusInv, HolderInv,
     HolderIsSpanned, FinalSpans
<1> QED
  BY <1>1, <1>2, <1>3 DEF Next

\* The invariant holds in every reachable state: latches are exclusive, requests
\* latch the spans of their transaction, and the record that commit or abort has
\* read has not changed when they write it.
THEOREM ExecutorInvariant == Spec => []IInv
BY InvariantInit, InvariantStep, PTL DEF Spec

\* A transaction always knows the locks it holds, so that its commit or abort
\* finds them all: append_lock_span follows every acquire_lock.
THEOREM HoldersAreSpanned == Spec => []HolderIsSpanned
<1>1. IInv => HolderIsSpanned
  BY DEF IInv
<1> QED
  BY <1>1, ExecutorInvariant, PTL
-----------------------------------------------------------------------------
(* What a step may do to a record and to a lock *)

\* Only Commit and Abort write a record.
LEMMA StatusStep ==
    ASSUME IInv, [Next]_vars, NEW t \in Txns, status[t] # "PENDING"
    PROVE  status'[t] = status[t]
<1>1. ASSUME NEW a \in Tasks, Commit(a)
      PROVE  status'[t] = status[t]
  <2>1. status[Txn(a)] # "ABORTED"
    BY <1>1 DEF Commit, IInv, StatusInv
  <2> QED
    BY <1>1, <2>1, TaskFacts DEF Commit, IInv, Types, Statuses
<1>2. ASSUME NEW a \in Tasks, Abort(a)
      PROVE  status'[t] = status[t]
  <2>1. status[Txn(a)] # "COMMITTED"
    BY <1>2 DEF Abort, IInv, StatusInv
  <2> QED
    BY <1>2, <2>1, TaskFacts DEF Abort, IInv, Types, Statuses
<1>3. UNCHANGED status \/ \E a \in Tasks : Commit(a) \/ Abort(a)
  <2>1. ASSUME NEW u \in Txns, Issue(u) PROVE UNCHANGED status
    BY <2>1 DEF Issue, txnVars
  <2>2. ASSUME NEW a \in Tasks, Sequence(a) PROVE UNCHANGED status
    BY <2>2 DEF Sequence, ScanStarts, ScanSkips, ScanLooks, ScanUnwrapPanics,
       ScanConflicts, ScanPasses, ScanFindsFree, ScanReserves, ScanWaits,
       ScanEnds, otherVars, txnVars
  <2>3. ASSUME NEW a \in Tasks, Wait(a) PROVE UNCHANGED status
    BY <2>3 DEF Wait, WaitEnds, WaitTimesOut, PushSkips, PushUnwrapPanics,
       PushStarts, EnqueueAndPush, PushesEnd, PushReleased, PushFails, PushFindsCycle,
       PushPanics, txnVars
  <2>4. ASSUME NEW a \in Tasks, Execute(a)
        PROVE  UNCHANGED status \/ Commit(a) \/ Abort(a)
    BY <2>4 DEF Execute, PutMeetsIntent, PutIntentPanics, PutLockPanics, Put,
       GetMeetsIntent, Get, CommitFindsAborted, CommitCannotRefresh,
       CommitRefreshes, AbortFindsCommitted, AbortProceeds, AbortIntents,
       UpdateTxnLocks, UnlockSkips, Unlock, FinalizeFindsNone, Finalize,
       ReleasePush, FinalizeEnds, otherVars, txnVars
  <2>5. ASSUME NEW a \in Tasks, LockIsFree(a) PROVE UNCHANGED status
    BY <2>5 DEF LockIsFree, CheckFree, CheckPanics, CopyReaders, WakeReader,
       ClearReaders, NextIsNone, NextWriter, ReserveNext, SignalNext, otherVars, txnVars
  <2>6. ASSUME NEW a \in Tasks, Answer(a) PROVE UNCHANGED status
    BY <2>6 DEF Answer, Dequeue, DequeueReserved, LeaveQueues, Return,
       ReturnPanics, Retry, otherVars, txnVars
  <2> QED
    BY <2>1, <2>2, <2>3, <2>4, <2>5, <2>6 DEF Next, vars, txnVars
<1> QED
  BY <1>1, <1>2, <1>3

\* A transaction is finalized once: a committed record is never aborted, nor an
\* aborted one committed, although commit and abort check and write in two steps.
THEOREM FinalizedOnce == Spec => FinalStatusIsFinal
<1>1. IInv /\ [Next]_vars =>
         [\A t \in Txns : status[t] # "PENDING" => status'[t] = status[t]]_vars
  BY StatusStep
<1> QED
  BY <1>1, ExecutorInvariant, PTL DEF Spec, FinalStatusIsFinal

\* Only Put takes a lock and only Unlock gives one back.
LEMMA HolderStep ==
    ASSUME IInv, [Next]_vars, NEW k \in Keys, NEW t \in Txns,
           lock_holder[k] = t, lock_holder'[k] # t
    PROVE  status[t] # "PENDING"
<1>1. ASSUME NEW a \in Tasks, Put(a)
      PROVE  lock_holder'[k] = t
  <2>1. k \in locks
    BY NoneAssumption DEF IInv, HolderInv
  <2>2. k = request[a].key => Txn(a) = t
    BY <1>1, <2>1, NoneAssumption DEF Put, AcquireLockPanics
  <2> QED
    BY <1>1, <2>2 DEF Put, AcquireLock, IInv, Types
<1>2. ASSUME NEW a \in Tasks, Unlock(a)
      PROVE  status[t] # "PENDING"
  <2>0. PICK j \in togo[a] : ReleaseLock(a, j)
    BY <1>2 DEF Unlock
  <2>1. /\ lock_holder[j] \in {None, Txn(a)}
        /\ lock_holder' = [lock_holder EXCEPT ![j] = None]
    BY <2>0 DEF ReleaseLock, ReleasesLock
  <2>2. t = Txn(a)
    BY <2>1, NoneAssumption DEF IInv, Types
  <2> QED
    BY <1>2, <2>2 DEF Unlock, AtUnlock, IInv, StatusInv
<1>3. \/ UNCHANGED lock_holder
      \/ \E a \in Tasks : Put(a) \/ Unlock(a)
  <2>1. ASSUME NEW u \in Txns, Issue(u) PROVE UNCHANGED lock_holder
    BY <2>1 DEF Issue, lockVars, stateVars
  <2>2. ASSUME NEW a \in Tasks, Sequence(a) PROVE UNCHANGED lock_holder
    BY <2>2 DEF Sequence, ScanStarts, ScanSkips, ScanLooks, ScanUnwrapPanics,
       ScanConflicts, ScanPasses, ScanFindsFree, ScanReserves, ScanWaits,
       ScanEnds, lockVars, stateVars
  <2>3. ASSUME NEW a \in Tasks, Wait(a) PROVE UNCHANGED lock_holder
    BY <2>3 DEF Wait, WaitEnds, WaitTimesOut, PushSkips, PushUnwrapPanics,
       PushStarts, EnqueueAndPush, PushesEnd, PushReleased, PushFails, PushFindsCycle,
       PushPanics, lockVars, stateVars
  <2>4. ASSUME NEW a \in Tasks, Execute(a)
        PROVE  UNCHANGED lock_holder \/ Put(a) \/ Unlock(a)
    BY <2>4 DEF Execute, PutMeetsIntent, PutIntentPanics, PutLockPanics,
       GetMeetsIntent, Get, CommitFindsAborted, CommitCannotRefresh,
       CommitRefreshes, Commit, AbortFindsCommitted, AbortProceeds, Abort,
       AbortIntents, UpdateTxnLocks, UnlockSkips, FinalizeFindsNone, Finalize,
       ReleasePush, FinalizeEnds, lockVars, stateVars
  <2>5. ASSUME NEW a \in Tasks, LockIsFree(a) PROVE UNCHANGED lock_holder
    BY <2>5 DEF LockIsFree, CheckFree, CheckPanics, CopyReaders, WakeReader,
       ClearReaders, NextIsNone, NextWriter, ReserveNext, SignalNext, lockVars, stateVars
  <2>6. ASSUME NEW a \in Tasks, Answer(a) PROVE UNCHANGED lock_holder
    BY <2>6 DEF Answer, Dequeue, DequeueReserved, LeaveQueues, Return,
       ReturnPanics, Retry, lockVars, stateVars
  <2> QED
    BY <2>1, <2>2, <2>3, <2>4, <2>5, <2>6 DEF Next, vars, lockVars, stateVars
<1> QED
  BY <1>1, <1>2, <1>3

\* Two-phase locking: no request, push, timeout or panic takes a lock away from a
\* transaction before its record says that it is finalized.
THEOREM TwoPhaseLocking == Spec => LocksHeldUntilFinalized
<1>1. IInv /\ [Next]_vars =>
         [\A k \in Keys, t \in Txns :
            lock_holder[k] = t /\ lock_holder'[k] # t
                => status[t] # "PENDING"]_vars
  BY HolderStep
<1> QED
  BY <1>1, ExecutorInvariant, PTL DEF Spec, LocksHeldUntilFinalized

=============================================================================
