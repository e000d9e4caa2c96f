--------------------------- MODULE DatabaseProofs ---------------------------
(***************************************************************************)
(* Proofs, for every set of transactions and keys, every program and every *)
(* beginning, that reads find the latest version and no other one's        *)
(* intent, that transactions take effect as a whole, that locks and        *)
(* intents agree, that the oracle knows every read, and that the database  *)
(* implements Transactions but for three deviations.                       *)
(*                                                                         *)
(* The invariant ties intents to lock spans.  A commit resolves, and an    *)
(* abort deletes, the intents at the keys of the transaction's lock spans: *)
(* SpanInv says that they are its own, so nobody else loses a write, and   *)
(* IntentInv that there are no others, so none is left behind.  That only  *)
(* pending transactions are aborted as victims rests on the lock table     *)
(* (QueueInv, HolderInv).                                                  *)
(*                                                                         *)
(* The timestamps of writes come from the oracle's tree: OracleInv says    *)
(* that it is a red-black tree with every read in it (IntervalTreeProofs). *)
(***************************************************************************)
EXTENDS Database, MVCCProofs, IntervalTreeProofs, QueueProofs

\* Every variable has its type, but for the oracle.
Types ==
    /\ program \in Programs
    /\ step \in [Txns -> Nat \ {0}]
    /\ clock \in Nat \ {0}
    /\ status \in [Txns -> Statuses]
    /\ read_timestamp \in [Txns -> Nat]
    /\ write_timestamp \in [Txns -> Nat]
    /\ lock_spans \in [Txns -> Seq(Keys)]
    /\ read_set \in [Txns -> Seq(Keys)]
    /\ locks \subseteq Keys
    /\ lock_holder \in [Keys -> Txns \cup {None}]
    /\ holder_timestamp \in [Keys -> Nat]
    /\ reservation \in [Keys -> Txns \cup {None}]
    /\ queued_writers \in [Keys -> Seq(Txns)]
    /\ last_committed_timestamp \in [Keys -> Nat]
    /\ panicked \subseteq Txns

\* A transaction that has begun has timestamps after the one of intents and that
\* of the versions that were there before; one that has not has no locks.
BeginInv ==
    \A t \in Txns :
        /\ status[t] = "NEW" => lock_spans[t] = <<>>
        /\ status[t] # "NEW" => read_timestamp[t] > 0 /\ write_timestamp[t] > 1

Entries == [txn : Txns \cup {None}, ts : Nat]

StoreTypes ==
    /\ DOMAIN store \subseteq Keys \X Nat
    /\ IsFiniteSet(DOMAIN store)
    /\ \A e \in DOMAIN store : store[e] \in Entries

\* t's client is about to write k.
Writing(t, k) ==
    /\ status[t] = "PENDING"
    /\ step[t] <= Len(program[t])
    /\ Request(t).op = "put"
    /\ Request(t).key = k

\* Whoever queues for a lock or has it reserved is about to write the key; it
\* queues once and for one key, and not with the reservation.
QueueInv ==
    /\ \A k \in Keys : IsInjective(queued_writers[k])
    /\ \A k \in Keys : \A t \in Range(queued_writers[k]) : Writing(t, k)
    /\ \A k \in Keys : reservation[k] # None =>
          /\ Writing(reservation[k], k)
          /\ reservation[k] \notin Range(queued_writers[k])

\* Locks are held by pending transactions, and for good by those whose commit has
\* panicked; their keys are lock spans.
HolderInv ==
    \A k \in Keys : lock_holder[k] # None =>
        /\ status[lock_holder[k]] = "PENDING" \/ lock_holder[k] \in panicked
        /\ k \in Range(lock_spans[lock_holder[k]])

PanickedInv ==
    \A t \in panicked :
        /\ status[t] = "COMMITTED"
        /\ step[t] <= Len(program[t]) /\ Request(t).op = "commit"

\* A finalized transaction has no writes to come.
EndInv ==
    \A t \in Txns : status[t] \in {"COMMITTED", "ABORTED"} =>
        \A i \in DOMAIN program[t] : i >= step[t] => program[t][i].op # "put"

\* An intent belongs to a transaction that is pending, or whose commit has
\* panicked, and that has the key in its lock spans.
IntentInv ==
    \A k \in Keys : <<k, Intent>> \in DOMAIN store =>
        LET t == store[<<k, Intent>>].txn
        IN  /\ t \in Txns
            /\ status[t] = "PENDING" \/ t \in panicked
            /\ k \in Range(lock_spans[t])

\* A pending transaction has an intent at every key of its lock spans.
SpanInv ==
    \A t \in Txns : status[t] = "PENDING" =>
        \A k \in Range(lock_spans[t]) :
            /\ <<k, Intent>> \in DOMAIN store
            /\ store[<<k, Intent>>].txn = t

\* A version was there before or belongs to a committed transaction.
VersionInv ==
    \A e \in DOMAIN store : e[2] # Intent =>
        store[e].txn = None \/ status[store[e].txn] = "COMMITTED"

\* A value that was read was written by a transaction, or was there before.
ReadTypes ==
    /\ DOMAIN reads = Txns
    /\ \A t \in Txns : \A r \in reads[t] : \A v \in r.value :
          v[1] \in Txns \cup {None}

\* The writer of an intent holds the lock of its key, with the intent's timestamp.
IntentLocked(k) ==
    <<k, Intent>> \in DOMAIN store =>
        /\ k \in locks
        /\ lock_holder[k] = store[<<k, Intent>>].txn
        /\ holder_timestamp[k] = store[<<k, Intent>>].ts

IntentsLocked == \A k \in Keys : IntentLocked(k)

IInv ==
    /\ Types /\ BeginInv /\ StoreTypes /\ ReadTypes
    /\ QueueInv /\ HolderInv /\ PanickedInv /\ EndInv
    /\ IntentInv /\ SpanInv /\ VersionInv /\ NoDirtyReads
-----------------------------------------------------------------------------
\* A client that has a request to make has one of the kinds there are, and reads
\* and writes are for a key.
LEMMA RequestFacts ==
    ASSUME Types, NEW t \in Txns, step[t] <= Len(program[t])
    PROVE  /\ step[t] \in DOMAIN program[t]
           /\ Request(t) \in Requests
           /\ Request(t).op \in {"get", "put"} => Request(t).key \in Keys
<1>1. program[t] \in Seq(Requests)
  BY ProgramsAssumption DEF Types
<1>2. step[t] \in 1..Len(program[t])
  BY <1>1 DEF Types
<1>3. Request(t) \in Requests /\ step[t] \in DOMAIN program[t]
  BY <1>1, <1>2 DEF Request
<1> QED
  BY <1>3 DEF Requests

\* A client that makes another request than a write has nothing reserved and is
\* in no queue.
LEMMA NotWriting ==
    ASSUME Types, QueueInv, NEW t \in Txns, NEW op, At(t, op)
    PROVE  /\ \A k \in Keys : t \notin Range(queued_writers[k])
           /\ op # "put" => \A k \in Keys : reservation[k] # t
           /\ \A k \in Keys : reservation[k] = t => Request(t).key = k
<1>1. \A k \in Keys : t \notin Range(queued_writers[k])
  BY DEF At, IsWaiting
<1>2. ASSUME NEW k \in Keys, reservation[k] = t
      PROVE  op = "put" /\ Request(t).key = k
  <2>1. Writing(t, k)
    BY <1>2, NoneAssumption DEF QueueInv
  <2> QED
    BY <2>1 DEF Writing, At
<1> QED
  BY <1>1, <1>2

\* The queues after a step in which t goes on with its program, or ends: t is in
\* no queue, and the others are where they were or have got the reservation.
LEMMA QueueKept ==
    ASSUME Types, QueueInv, NEW t \in Txns,
           program' = program,
           \A u \in Txns : u # t => step'[u] = step[u] /\ status'[u] = status[u],
           \A k \in Keys :
              /\ IsInjective(queued_writers'[k])
              /\ Range(queued_writers'[k]) \subseteq Range(queued_writers[k]) \ {t}
              /\ reservation'[k] # None =>
                    /\ reservation'[k] # t
                    /\ reservation'[k] \notin Range(queued_writers'[k])
                    /\ \/ reservation'[k] = reservation[k]
                       \/ reservation'[k] \in Range(queued_writers[k])
    PROVE  QueueInv'
<1>1. ASSUME NEW u \in Txns, NEW k \in Keys, u # t, Writing(u, k)
      PROVE  Writing(u, k)'
  BY <1>1 DEF Writing, Request
<1>2. \A k \in Keys : Range(queued_writers[k]) \subseteq Txns
  <2>1. \A k \in Keys : queued_writers[k] \in Seq(Txns)
    BY DEF Types
  <2> QED
    BY <2>1 DEF Range
<1>3. ASSUME NEW k \in Keys, NEW u \in Range(queued_writers'[k])
      PROVE  Writing(u, k)'
  <2>1. u \in Range(queued_writers[k]) /\ u \in Txns /\ u # t
    BY <1>2, <1>3
  <2> QED
    BY <1>1, <2>1 DEF QueueInv
<1>4. ASSUME NEW k \in Keys, NEW u, u = reservation'[k], u # None
      PROVE  Writing(u, k)' /\ u \notin Range(queued_writers'[k])
  <2>1. u # t /\ u \notin Range(queued_writers'[k])
    BY <1>4
  <2>2. u \in Txns /\ Writing(u, k)
    <3>1. CASE u = reservation[k]
      BY <1>4, <3>1 DEF QueueInv, Types
    <3>2. CASE u \in Range(queued_writers[k])
      BY <1>2, <3>2 DEF QueueInv
    <3> QED
      BY <1>4, <3>1, <3>2
  <2> QED
    BY <1>1, <2>1, <2>2
<1>5. \A k \in Keys : reservation'[k] # None =>
         /\ Writing(reservation[k], k)'
         /\ reservation'[k] \notin Range(queued_writers'[k])
  BY <1>4 DEF Writing, Request
<1> QED
  BY <1>3, <1>5 DEF QueueInv

\* The queues after a step that leaves them alone.
LEMMA QueueUnchanged ==
    ASSUME IInv, NEW t \in Txns,
           \A k \in Keys : t \notin Range(queued_writers[k])
                            /\ reservation[k] # t,
           UNCHANGED <<program, queued_writers, reservation>>,
           \A u \in Txns : u # t => step'[u] = step[u] /\ status'[u] = status[u]
    PROVE  QueueInv'
<1>1. Types /\ QueueInv
  BY DEF IInv
<1>2. \A k \in Keys :
         /\ IsInjective(queued_writers'[k])
         /\ Range(queued_writers'[k]) \subseteq Range(queued_writers[k]) \ {t}
         /\ reservation'[k] # None =>
               /\ reservation'[k] # t
               /\ reservation'[k] \notin Range(queued_writers'[k])
               /\ \/ reservation'[k] = reservation[k]
                  \/ reservation'[k] \in Range(queued_writers[k])
  BY <1>1 DEF QueueInv
<1> QED
  BY <1>1, <1>2, QueueKept

\* What update_txn_locks does: t holds nothing and queues nowhere, the first of
\* each queue may have got the reservation, and only writers that were queued
\* have a new write timestamp.
LEMMA ReleaseFacts ==
    ASSUME Types, QueueInv, NEW t \in Txns, NEW ts \in Nat,
           ReleaseLocks(t, ts)
    PROVE  /\ lock_holder' \in [Keys -> Txns \cup {None}]
           /\ reservation' \in [Keys -> Txns \cup {None}]
           /\ queued_writers' \in [Keys -> Seq(Txns)]
           /\ write_timestamp' \in [Txns -> Nat]
           /\ last_committed_timestamp' \in [Keys -> Nat]
           /\ UNCHANGED <<locks, holder_timestamp>>
           /\ \A k \in Keys : lock_holder'[k] =
                 IF k \in Range(lock_spans[t]) /\ lock_holder[k] = t
                 THEN None ELSE lock_holder[k]
           /\ \A k \in Keys :
                 /\ IsInjective(queued_writers'[k])
                 /\ Range(queued_writers'[k])
                       \subseteq Range(queued_writers[k]) \ {t}
                 /\ \/ reservation'[k] = reservation[k]
                    \/ /\ reservation'[k] \in Range(queued_writers[k]) \ {t}
                       /\ reservation'[k] \notin Range(queued_writers'[k])
           /\ \A u \in Txns :
                 \/ write_timestamp'[u] = write_timestamp[u]
                 \/ /\ write_timestamp'[u] > 1
                    /\ u # t
                    /\ \E k \in Keys : u \in Range(queued_writers[k])
<1> DEFINE queue == [k \in Keys |-> Without(queued_writers[k], t)]
           freed == {k \in Range(lock_spans[t]) : lock_holder[k] = t}
           woken == {k \in freed : queue[k] # <<>>}
           last == [k \in Keys |-> IF k \in freed /\ ts # 0 THEN ts
                                   ELSE last_committed_timestamp[k]]
           Bumps(k, u) == u = Head(queue[k]) /\ last[k] # 0
<1>1. \A k \in Keys : queued_writers[k] \in Seq(Txns)
                      /\ IsInjective(queued_writers[k])
  BY DEF Types, QueueInv
<1>2. ASSUME NEW k \in Keys
      PROVE  /\ queue[k] \in Seq(Txns)
             /\ IsInjective(queue[k])
             /\ Range(queue[k]) = Range(queued_writers[k]) \ {t}
  BY <1>1, WithoutFacts
<1>3. freed \subseteq Keys /\ woken \subseteq Keys
  <2>1. lock_spans[t] \in Seq(Keys)
    BY DEF Types
  <2> QED
    BY <2>1 DEF Range
<1>4. ASSUME NEW k \in woken
      PROVE  /\ Head(queue[k]) \in Txns /\ Tail(queue[k]) \in Seq(Txns)
             /\ IsInjective(Tail(queue[k]))
             /\ Head(queue[k]) \in Range(queued_writers[k]) \ {t}
             /\ Head(queue[k]) \notin Range(Tail(queue[k]))
             /\ Range(Tail(queue[k])) \subseteq Range(queued_writers[k]) \ {t}
  <2>1. k \in Keys /\ queue[k] # <<>>
    BY <1>3
  <2>2. /\ queue[k] \in Seq(Txns)
        /\ IsInjective(queue[k])
        /\ Range(queue[k]) = Range(queued_writers[k]) \ {t}
    BY <1>2, <2>1
  <2> HIDE DEF queue
  <2>3. /\ Head(queue[k]) \in Txns /\ Tail(queue[k]) \in Seq(Txns)
        /\ Range(queue[k]) = {Head(queue[k])} \cup Range(Tail(queue[k]))
        /\ IsInjective(Tail(queue[k]))
        /\ Head(queue[k]) \notin Range(Tail(queue[k]))
    BY <2>1, <2>2, HeadTailFacts
  <2> QED
    BY <2>2, <2>3
<1>5. /\ lock_holder' = [k \in Keys |-> IF k \in freed THEN None
                                        ELSE lock_holder[k]]
      /\ reservation' = [k \in Keys |-> IF k \in woken THEN Head(queue[k])
                                        ELSE reservation[k]]
      /\ queued_writers' = [k \in Keys |-> IF k \in woken THEN Tail(queue[k])
                                           ELSE queue[k]]
      /\ write_timestamp' =
             [u \in Txns |-> IF \E k \in woken : Bumps(k, u)
                             THEN last[CHOOSE k \in woken : Bumps(k, u)] + 1
                             ELSE write_timestamp[u]]
      /\ last_committed_timestamp' = last
      /\ UNCHANGED <<locks, holder_timestamp>>
  BY DEF ReleaseLocks
<1>6. last \in [Keys -> Nat]
  BY DEF Types
<1>7. \A k \in Keys : k \in freed <=> k \in Range(lock_spans[t]) /\ lock_holder[k] = t
  OBVIOUS
<1>8. ASSUME NEW u \in Txns, \E k \in woken : Bumps(k, u)
      PROVE  /\ write_timestamp'[u] \in Nat /\ write_timestamp'[u] > 1
             /\ u # t /\ \E k \in Keys : u \in Range(queued_writers[k])
  <2> DEFINE l == CHOOSE k \in woken : Bumps(k, u)
  <2>1. l \in woken /\ Bumps(l, u)
    BY <1>8
  <2>2. write_timestamp'[u] = last[l] + 1
    BY <1>5, <1>8
  <2> HIDE DEF l
  <2>3. l \in Keys /\ u = Head(queue[l]) /\ last[l] # 0
    BY <2>1, <1>3
  <2>4. u \in Range(queued_writers[l]) \ {t}
    BY <1>4, <2>1, <2>3
  <2> HIDE DEF last
  <2>5. last[l] \in Nat
    BY <1>6, <2>3
  <2> QED
    BY <2>2, <2>3, <2>4, <2>5
<1>9. ASSUME NEW u \in Txns, ~\E k \in woken : Bumps(k, u)
      PROVE  write_timestamp'[u] = write_timestamp[u]
  BY <1>5, <1>9
<1> HIDE DEF queue, freed, woken, last, Bumps
<1>10. write_timestamp' \in [Txns -> Nat]
  <2>1. write_timestamp \in [Txns -> Nat]
    BY DEF Types
  <2>2. \A u \in Txns : write_timestamp'[u] \in Nat
    BY <1>8, <1>9, <2>1
  <2> QED
    BY <1>5, <2>2
<1>11. /\ lock_holder' \in [Keys -> Txns \cup {None}]
       /\ reservation' \in [Keys -> Txns \cup {None}]
       /\ queued_writers' \in [Keys -> Seq(Txns)]
  <2>1. lock_holder' \in [Keys -> Txns \cup {None}]
    BY <1>5 DEF Types
  <2>2. reservation' \in [Keys -> Txns \cup {None}]
    BY <1>4, <1>5 DEF Types
  <2>3. queued_writers' \in [Keys -> Seq(Txns)]
    BY <1>2, <1>4, <1>5
  <2> QED
    BY <2>1, <2>2, <2>3
<1>12. ASSUME NEW k \in Keys
       PROVE  /\ IsInjective(queued_writers'[k])
              /\ Range(queued_writers'[k])
                    \subseteq Range(queued_writers[k]) \ {t}
              /\ \/ reservation'[k] = reservation[k]
                 \/ /\ reservation'[k] \in Range(queued_writers[k]) \ {t}
                    /\ reservation'[k] \notin Range(queued_writers'[k])
  <2>1. CASE k \in woken
    <3>1. reservation'[k] = Head(queue[k]) /\ queued_writers'[k] = Tail(queue[k])
      BY <1>5, <2>1
    <3> QED
      BY <1>4, <2>1, <3>1
  <2>2. CASE k \notin woken
    <3>1. reservation'[k] = reservation[k] /\ queued_writers'[k] = queue[k]
      BY <1>5, <2>2
    <3> QED
      BY <1>2, <3>1
  <2> QED
    BY <2>1, <2>2
<1>13. \A k \in Keys : lock_holder'[k] =
          IF k \in Range(lock_spans[t]) /\ lock_holder[k] = t
          THEN None ELSE lock_holder[k]
  BY <1>5, <1>7
<1> QED
  BY <1>5, <1>6, <1>8, <1>9, <1>10, <1>11, <1>12, <1>13

\* A step that leaves the store, the records and the holders of locks alone.
LEMMA QuietStep ==
    ASSUME IInv,
           UNCHANGED <<status, read_timestamp, write_timestamp, lock_spans,
                       store, lock_holder, panicked>>
    PROVE  /\ BeginInv' /\ StoreTypes' /\ HolderInv'
           /\ IntentInv' /\ SpanInv' /\ VersionInv'
  BY DEF IInv, BeginInv, StoreTypes, HolderInv, IntentInv, SpanInv, VersionInv

\* The client of t goes on with its program.
LEMMA ClientGoesOn ==
    ASSUME IInv, NEW t \in Txns \ panicked,
           UNCHANGED <<program, status, panicked>>,
           step' \in [Txns -> Nat \ {0}],
           \A u \in Txns : u # t => step'[u] = step[u],
           step'[t] >= step[t]
    PROVE  PanickedInv' /\ EndInv'
<1>1. step \in [Txns -> Nat \ {0}] /\ panicked \subseteq Txns
  BY DEF IInv, Types
<1>2. PanickedInv'
  BY <1>1 DEF IInv, PanickedInv, Request
<1>3. ASSUME NEW u \in Txns, status[u] \in {"COMMITTED", "ABORTED"},
             NEW i \in DOMAIN program[u], i >= step'[u]
      PROVE  program[u][i].op # "put"
  <2>1. program[u] \in Seq(Requests)
    BY ProgramsAssumption DEF IInv, Types
  <2>2. i \in Nat
    BY <2>1
  <2>3. i >= step[u]
    BY <1>1, <1>3, <2>2
  <2> QED
    BY <1>3, <2>3 DEF IInv, EndInv
<1> QED
  BY <1>2, <1>3 DEF EndInv

\* A step that reads nothing leaves what was read.
LEMMA ReadsKept ==
    ASSUME IInv, UNCHANGED reads,
           \A u \in Txns : status[u] = "COMMITTED" => status'[u] = "COMMITTED"
    PROVE  ReadTypes' /\ NoDirtyReads'
  BY DEF IInv, ReadTypes, NoDirtyReads

\* BeginTxn
LEMMA BeginStep ==
    ASSUME IInv, NEW t \in Txns, Begin(t)
    PROVE  IInv'
<1> USE DEF Begin, clientVars, lockVars
<1>1. status[t] = "NEW" /\ status' = [status EXCEPT ![t] = "PENDING"]
  OBVIOUS
<1>2. Types'
  BY DEF IInv, Types, Statuses
<1>3. \A u \in Txns : (u # t => status'[u] = status[u]) /\ status'[t] = "PENDING"
  BY <1>1 DEF IInv, Types
<1>4. BeginInv'
  BY <1>2, <1>3 DEF IInv, BeginInv, Types
<1>5. StoreTypes'
  BY DEF IInv, StoreTypes
<1>6. QueueInv'
  <2>1. \A k \in Keys : ~Writing(t, k)
    BY DEF Writing
  <2>2. \A k \in Keys : t \notin Range(queued_writers[k]) /\ reservation[k] # t
    BY <2>1, NoneAssumption DEF IInv, QueueInv
  <2> QED
    BY <1>3, <2>2, QueueUnchanged
<1>7. HolderInv'
  BY <1>1, <1>3 DEF IInv, HolderInv, Types
<1>8. PanickedInv'
  BY <1>1, <1>3 DEF IInv, PanickedInv, Types, Request
<1>9. EndInv'
  BY <1>3 DEF IInv, EndInv
<1>10. IntentInv'
  BY <1>3 DEF IInv, IntentInv
<1>11. SpanInv'
  <2>1. Range(lock_spans[t]) = {}
    BY <1>1 DEF IInv, BeginInv, Range
  <2> QED
    BY <1>3, <2>1 DEF IInv, SpanInv
<1>12. VersionInv'
  BY <1>1, <1>3 DEF IInv, VersionInv, StoreTypes, Entries
<1>13. ReadTypes' /\ NoDirtyReads'
  BY <1>1, <1>3, ReadsKept
<1> QED
  BY <1>2, <1>4, <1>5, <1>6, <1>7, <1>8, <1>9, <1>10, <1>11, <1>12, <1>13
     DEF IInv

\* Returns
LEMMA ReturnsFacts ==
    ASSUME Types, NEW t \in Txns, Returns(t)
    PROVE  /\ program' = program
           /\ step' \in [Txns -> Nat \ {0}]
           /\ \A u \in Txns : u # t => step'[u] = step[u]
           /\ step'[t] = step[t] + 1
  BY DEF Types, Returns

\* A request that ends without changing the records or the lock table.
LEMMA ReturnStep ==
    ASSUME IInv, NEW t \in Txns, NEW op, At(t, op), op # "put", Returns(t),
           read_set' \in [Txns -> Seq(Keys)],
           UNCHANGED <<clock, status, read_timestamp, write_timestamp, lock_spans,
                       store, lockVars, panicked>>,
           ReadTypes', NoDirtyReads'
    PROVE  IInv'
<1> USE DEF lockVars
<1>1. /\ program' = program
      /\ step' \in [Txns -> Nat \ {0}]
      /\ \A u \in Txns : u # t => step'[u] = step[u]
      /\ step'[t] = step[t] + 1
  BY ReturnsFacts DEF IInv
<1>2. Types'
  BY <1>1 DEF IInv, Types
<1>3. QueueInv'
  <2>1. \A k \in Keys : t \notin Range(queued_writers[k]) /\ reservation[k] # t
    BY NotWriting DEF IInv
  <2> QED
    BY <1>1, <2>1, QueueUnchanged
<1>4. PanickedInv' /\ EndInv'
  <2>1. t \in Txns \ panicked
    BY DEF At
  <2>2. step'[t] >= step[t]
    BY <1>1 DEF IInv, Types
  <2> QED
    BY <1>1, <2>1, <2>2, ClientGoesOn
<1> QED
  BY <1>2, <1>3, <1>4, QuietStep DEF IInv

\* Get
LEMMA GetStep ==
    ASSUME IInv, NEW t \in Txns, Get(t)
    PROVE  IInv'
<1> DEFINE k == Request(t).key
<1>1. At(t, "get") /\ Returns(t) /\ k \in Keys
  BY RequestFacts DEF Get, At, IInv
<1>2. UNCHANGED <<clock, status, read_timestamp, write_timestamp, lock_spans,
                  store, lockVars, panicked>>
  BY DEF Get
<1>3. read_set' \in [Txns -> Seq(Keys)]
  <2>1. read_set \in [Txns -> Seq(Keys)]
    BY DEF IInv, Types
  <2>2. Append(read_set[t], k) \in Seq(Keys)
    BY <1>1, <2>1
  <2>3. \/ read_set' = read_set
        \/ read_set' = [read_set EXCEPT ![t] = Append(@, k)]
    BY DEF Get
  <2> QED
    BY <2>1, <2>2, <2>3
<1>4. PICK res \in {MvccGet(store, k, read_timestamp[t])} :
          reads' = [reads EXCEPT ![t] = @ \cup
                       {[key |-> k, value |-> {<<store[e].txn, e[1]>> :
                                                  e \in GetValue(t, res)}]}]
  BY DEF Get
<1>5. /\ \A e \in res.value : e \in DOMAIN store /\ e[2] # Intent
      /\ \A e \in res.intent : e \in DOMAIN store /\ e[2] = Intent
  <2>1. IsStore(store) /\ k \in Nat
    BY <1>1, KeysAssumption DEF IInv, StoreTypes, IsStore, MVCCKeys
  <2>2. read_timestamp[t] \in Nat \ {0}
    BY <1>1 DEF IInv, Types, BeginInv, At
  <2> HIDE DEF k
  <2> QED
    BY <1>4, <2>1, <2>2, MvccGetFacts
<1>6. ASSUME NEW e \in GetValue(t, res)
      PROVE  /\ store[e].txn \in Txns \cup {None}
             /\ store[e].txn \in {None, t} \/ status[store[e].txn] = "COMMITTED"
  <2>1. e \in DOMAIN store
    BY <1>5 DEF GetValue
  <2>2. store[e].txn \in Txns \cup {None}
    BY <2>1 DEF IInv, StoreTypes, Entries
  <2>3. store[e].txn = t \/ e[2] # Intent
    BY <1>5 DEF GetValue
  <2> QED
    BY <2>1, <2>2, <2>3 DEF IInv, VersionInv
<1> DEFINE new == [key |-> k, value |-> {<<store[e].txn, e[1]>> :
                                            e \in GetValue(t, res)}]
<1>7. \A v \in new.value : /\ v[1] \in Txns \cup {None}
                           /\ v[1] \in {None, t} \/ status[v[1]] = "COMMITTED"
  BY <1>6
<1>8. /\ reads' = [reads EXCEPT ![t] = @ \cup {new}]
      /\ DOMAIN reads = Txns
  BY <1>4 DEF IInv, ReadTypes
<1> HIDE DEF new
<1>9. /\ DOMAIN reads' = Txns
      /\ \A u \in Txns : \A r \in reads'[u] : r \in reads[u] \/ (u = t /\ r = new)
  BY <1>8
<1>10. ReadTypes'
  BY <1>7, <1>9 DEF IInv, ReadTypes
<1>11. NoDirtyReads'
  BY <1>2, <1>7, <1>9 DEF IInv, NoDirtyReads
<1> QED
  BY <1>1, <1>2, <1>3, <1>10, <1>11, ReturnStep

\* A read that is tried again changes nothing but the oracle.
LEMMA GetMeetsIntentStep ==
    ASSUME IInv, NEW t \in Txns, GetMeetsIntent(t)
    PROVE  IInv'
<1> USE DEF GetMeetsIntent, clientVars, txnVars, lockVars
<1>1. Types'
  BY DEF IInv, Types
<1>2. QueueInv'
  BY DEF IInv, QueueInv, Writing, Request
<1>3. PanickedInv' /\ EndInv'
  BY DEF IInv, PanickedInv, EndInv, Request
<1>4. ReadTypes' /\ NoDirtyReads'
  BY ReadsKept
<1> QED
  BY <1>1, <1>2, <1>3, <1>4, QuietStep DEF IInv

\* CommitTxn and AbortTxn that change nothing
LEMMA FruitlessEndStep ==
    ASSUME IInv, NEW t \in Txns, CommitFails(t) \/ AbortFindsCommitted(t)
    PROVE  IInv'
<1>1. /\ At(t, "commit") \/ At(t, "abort")
      /\ Returns(t)
      /\ UNCHANGED <<clock, txnVars, store, lockVars, panicked, reads>>
  BY DEF CommitFails, AbortFindsCommitted, AtCommit
<1>2. ReadTypes' /\ NoDirtyReads'
  BY <1>1, ReadsKept DEF txnVars
<1>3. read_set' \in [Txns -> Seq(Keys)]
  BY <1>1 DEF IInv, Types, txnVars
<1>4. PICK op : op # "put" /\ At(t, op)
  BY <1>1
<1> QED
  BY <1>1, <1>2, <1>3, <1>4, ReturnStep DEF txnVars

\* Whoever writes is pending.
LEMMA WriterIsPending ==
    ASSUME IInv, NEW t \in Txns, At(t, "put")
    PROVE  /\ status[t] = "PENDING" /\ t \notin panicked
           /\ Request(t).key \in Keys
           /\ Writing(t, Request(t).key)
<1>1. /\ status[t] # "NEW" /\ t \notin panicked
      /\ step[t] <= Len(program[t]) /\ Request(t).op = "put"
  BY DEF At
<1>2. step[t] \in DOMAIN program[t] /\ Request(t).key \in Keys
  BY <1>1, RequestFacts DEF IInv
<1>3. step[t] \in Nat /\ status[t] \in Statuses
  BY DEF IInv, Types
<1>4. status[t] \notin {"COMMITTED", "ABORTED"}
  BY <1>1, <1>2, <1>3 DEF IInv, EndInv, Request
<1> QED
  BY <1>1, <1>2, <1>3, <1>4 DEF Statuses, Writing

\* A write that has to wait queues.
LEMMA PutWaitsStep ==
    ASSUME IInv, NEW t \in Txns, PutWaits(t)
    PROVE  IInv'
<1> DEFINE k == Request(t).key
<1>1. /\ At(t, "put") /\ WriterWaits(t, k)
      /\ queued_writers' = [queued_writers EXCEPT ![k] = Append(@, t)]
      /\ UNCHANGED <<clientVars, clock, txnVars, store, oracle, locks,
                     lock_holder, holder_timestamp, reservation,
                     last_committed_timestamp, panicked, reads>>
  BY DEF PutWaits
<1> USE DEF clientVars, txnVars
<1>2. k \in Keys /\ Writing(t, k)
  BY <1>1, WriterIsPending
<1>3. queued_writers \in [Keys -> Seq(Txns)]
  BY DEF IInv, Types
<1>4. \A l \in Keys : t \notin Range(queued_writers[l])
  BY <1>1, NotWriting DEF IInv
<1> HIDE DEF k
<1>5. /\ Append(queued_writers[k], t) \in Seq(Txns)
      /\ Range(Append(queued_writers[k], t)) = Range(queued_writers[k]) \cup {t}
      /\ IsInjective(Append(queued_writers[k], t))
  <2>1. queued_writers[k] \in Seq(Txns) /\ IsInjective(queued_writers[k])
    BY <1>2, <1>3 DEF IInv, QueueInv
  <2> QED
    BY <1>2, <1>4, <2>1, AppendFacts
<1>6. /\ queued_writers' \in [Keys -> Seq(Txns)]
      /\ queued_writers'[k] = Append(queued_writers[k], t)
      /\ \A l \in Keys : l # k => queued_writers'[l] = queued_writers[l]
  BY <1>1, <1>2, <1>3, <1>5
<1>7. Types'
  BY <1>1, <1>6 DEF IInv, Types
<1>8. QueueInv'
  <2>1. reservation[k] # t
    BY <1>1 DEF WriterWaits
  <2>2. \A u, l : Writing(u, l) => Writing(u, l)'
    BY <1>1 DEF Writing, Request
  <2>3. \A l \in Keys : IsInjective(queued_writers'[l])
    BY <1>5, <1>6 DEF IInv, QueueInv
  <2>4. \A l \in Keys : \A u \in Range(queued_writers'[l]) : Writing(u, l)'
    BY <1>2, <1>5, <1>6, <2>2 DEF IInv, QueueInv
  <2>5. \A l \in Keys : reservation[l] # None =>
           /\ Writing(reservation[l], l)'
           /\ reservation[l] \notin Range(queued_writers'[l])
    <3>1. \A l \in Keys : reservation[l] # None => Writing(reservation[l], l)
      BY DEF IInv, QueueInv
    <3>2. \A l \in Keys : reservation[l] # None => Writing(reservation[l], l)'
      BY <3>1, <1>1 DEF Writing, Request
    <3>3. \A l \in Keys : reservation[l] # None =>
             reservation[l] \notin Range(queued_writers'[l])
      BY <1>5, <1>6, <2>1 DEF IInv, QueueInv
    <3> QED
      BY <3>2, <3>3
  <2> QED
    BY <1>1, <2>3, <2>4, <2>5 DEF QueueInv
<1>9. PanickedInv' /\ EndInv'
  BY <1>1 DEF IInv, PanickedInv, EndInv, Request
<1>10. ReadTypes' /\ NoDirtyReads'
  BY <1>1, ReadsKept
<1> QED
  BY <1>1, <1>7, <1>8, <1>9, <1>10, QuietStep DEF IInv

\* The timestamp of a write is after those of intents and of the versions that
\* were there before.
LEMMA PutTimestampType ==
    ASSUME IInv, OracleAnswers, NEW t \in Txns, status[t] # "NEW",
           NEW k \in Keys
    PROVE  PutTimestamp(t, k) \in Nat /\ PutTimestamp(t, k) > 1
<1> DEFINE last == last_committed_timestamp[k]
           reserved == IF Reserves(k) /\ last # 0 THEN last + 1
                       ELSE write_timestamp[t]
           seen == GetMaxTimestamp(oracle, k, k)
<1>1. last \in Nat /\ write_timestamp[t] \in Nat /\ write_timestamp[t] > 1
  BY DEF IInv, Types, BeginInv
<1>2. reserved \in Nat /\ reserved > 1
  BY <1>1
<1>3. seen \in Nat
  BY DEF OracleAnswers
<1>4. PutTimestamp(t, k) = Max({reserved, seen})
  BY DEF PutTimestamp
<1> HIDE DEF reserved, seen
<1>5. \E x \in {reserved, seen} : \A y \in {reserved, seen} : x >= y
  BY <1>2, <1>3
<1>6. /\ Max({reserved, seen}) \in {reserved, seen}
      /\ Max({reserved, seen}) >= reserved
  BY <1>5 DEF Max
<1> QED
  BY <1>2, <1>3, <1>4, <1>6

\* Put
LEMMA PutStep ==
    ASSUME IInv, OracleAnswers, NEW t \in Txns, Put(t)
    PROVE  IInv'
<1> DEFINE k == Request(t).key
           ts == PutTimestamp(t, k)
<1>1. /\ At(t, "put")
      /\ \A v \in UncommittedValue(store, k) : v.txn = t
      /\ write_timestamp' = [write_timestamp EXCEPT ![t] = ts]
      /\ store' = PutIntent(store, k, t, ts)
      /\ locks' = locks \cup {k}
      /\ lock_holder' = [lock_holder EXCEPT ![k] = t]
      /\ holder_timestamp' = [holder_timestamp EXCEPT ![k] = ts]
      /\ reservation' = [reservation EXCEPT ![k] = None]
      /\ lock_spans' = IF k \in Range(lock_spans[t]) THEN lock_spans
                       ELSE [lock_spans EXCEPT ![t] = Append(@, k)]
      /\ Returns(t)
      /\ UNCHANGED <<clock, status, read_timestamp, read_set, oracle,
                     queued_writers, last_committed_timestamp, panicked, reads>>
  BY DEF Put
<1>2. /\ status[t] = "PENDING" /\ t \notin panicked
      /\ k \in Keys /\ Writing(t, k)
  BY <1>1, WriterIsPending
<1>3. ts \in Nat /\ ts > 1
  BY <1>2, PutTimestampType
<1>4. \A l \in Keys : /\ t \notin Range(queued_writers[l])
                      /\ reservation[l] = t => l = k
  BY <1>1, NotWriting DEF IInv
<1> HIDE DEF k, ts
<1>5. /\ program' = program
      /\ step' \in [Txns -> Nat \ {0}]
      /\ \A u \in Txns : u # t => step'[u] = step[u]
      /\ step'[t] = step[t] + 1
  BY <1>1, ReturnsFacts DEF IInv
<1>6. /\ lock_spans' \in [Txns -> Seq(Keys)]
      /\ Range(lock_spans'[t]) = Range(lock_spans[t]) \cup {k}
      /\ \A u \in Txns : u # t => lock_spans'[u] = lock_spans[u]
  <2>1. lock_spans \in [Txns -> Seq(Keys)] /\ lock_spans[t] \in Seq(Keys)
    BY DEF IInv, Types
  <2>2. CASE k \in Range(lock_spans[t])
    BY <1>1, <2>1, <2>2
  <2>3. CASE k \notin Range(lock_spans[t])
    <3>1. /\ Append(lock_spans[t], k) \in Seq(Keys)
          /\ Range(Append(lock_spans[t], k)) = Range(lock_spans[t]) \cup {k}
      BY <1>2, <2>1, AppendFacts
    <3> QED
      BY <1>1, <2>1, <2>3, <3>1
  <2> QED
    BY <2>2, <2>3
<1>7. Types'
  <2>1. /\ write_timestamp' \in [Txns -> Nat]
        /\ locks' \subseteq Keys
        /\ lock_holder' \in [Keys -> Txns \cup {None}]
        /\ holder_timestamp' \in [Keys -> Nat]
        /\ reservation' \in [Keys -> Txns \cup {None}]
    BY <1>1, <1>2, <1>3 DEF IInv, Types
  <2> QED
    BY <1>1, <1>5, <1>6, <2>1 DEF IInv, Types
<1>8. BeginInv'
  BY <1>1, <1>2, <1>3, <1>6 DEF IInv, BeginInv, Types
<1>9. /\ DOMAIN store' = DOMAIN store \cup {<<k, Intent>>}
      /\ store'[<<k, Intent>>] = Entry(t, ts)
      /\ \A e \in DOMAIN store : e # <<k, Intent>> => store'[e] = store[e]
  BY <1>1 DEF PutIntent, PutEntries
<1>10. StoreTypes'
  <2>1. Entry(t, ts) \in Entries
    BY <1>3 DEF Entry, Entries
  <2>2. IsFiniteSet(DOMAIN store')
    BY <1>9, FS_AddElement DEF IInv, StoreTypes
  <2>3. <<k, Intent>> \in Keys \X Nat
    BY <1>2 DEF Intent
  <2> QED
    BY <1>9, <2>1, <2>2, <2>3 DEF IInv, StoreTypes
<1>11. QueueInv'
  <2>1. Types /\ QueueInv
    BY DEF IInv
  <2>2. \A l \in Keys :
           /\ IsInjective(queued_writers'[l])
           /\ Range(queued_writers'[l]) \subseteq Range(queued_writers[l]) \ {t}
           /\ reservation'[l] # None =>
                 /\ reservation'[l] # t
                 /\ reservation'[l] \notin Range(queued_writers'[l])
                 /\ \/ reservation'[l] = reservation[l]
                    \/ reservation'[l] \in Range(queued_writers[l])
    BY <1>1, <1>2, <1>4, <2>1 DEF Types, QueueInv
  <2>3. \A u \in Txns : u # t => step'[u] = step[u] /\ status'[u] = status[u]
    BY <1>1, <1>5
  <2> QED
    BY <1>5, <2>1, <2>2, <2>3, QueueKept
<1>12. HolderInv'
  BY <1>1, <1>2, <1>6 DEF IInv, HolderInv, Types
<1>13. PanickedInv' /\ EndInv'
  <2>1. step'[t] >= step[t]
    BY <1>5 DEF IInv, Types
  <2> QED
    BY <1>1, <1>2, <1>5, <2>1, ClientGoesOn
<1>14. Entry(t, ts).txn = t
  BY DEF Entry
<1>15. IntentInv'
  <2> SUFFICES ASSUME NEW l \in Keys, <<l, Intent>> \in DOMAIN store'
               PROVE  LET u == store'[<<l, Intent>>].txn
                      IN  /\ u \in Txns
                          /\ status[u] = "PENDING" \/ u \in panicked
                          /\ l \in Range(lock_spans'[u])
    BY <1>1 DEF IntentInv
  <2>1. CASE l = k
    BY <1>2, <1>6, <1>9, <1>14, <2>1
  <2>2. CASE l # k
    <3>1. <<l, Intent>> # <<k, Intent>>
      BY <2>2
    <3>2. <<l, Intent>> \in DOMAIN store
          /\ store'[<<l, Intent>>] = store[<<l, Intent>>]
      BY <1>9, <3>1
    <3> QED
      BY <1>6, <3>2 DEF IInv, IntentInv
  <2> QED
    BY <2>1, <2>2
<1>16. SpanInv'
  <2> SUFFICES ASSUME NEW u \in Txns, status[u] = "PENDING",
                      NEW l \in Range(lock_spans'[u])
               PROVE  /\ <<l, Intent>> \in DOMAIN store'
                      /\ store'[<<l, Intent>>].txn = u
    BY <1>1 DEF SpanInv
  <2>1. CASE u = t /\ l = k
    BY <1>9, <1>14, <2>1
  <2>2. CASE ~(u = t /\ l = k)
    <3>1. l \in Range(lock_spans[u])
      BY <1>6, <2>2
    <3>2. <<l, Intent>> \in DOMAIN store /\ store[<<l, Intent>>].txn = u
      BY <3>1 DEF IInv, SpanInv
    <3>3. l # k
      <4>1. IsStore(store) /\ k \in Nat
        BY <1>2, KeysAssumption DEF IInv, StoreTypes, IsStore, MVCCKeys
      <4>2. l = k => store[<<l, Intent>>] \in UncommittedValue(store, k)
        BY <3>2, <4>1, UncommittedValueIsIntent
      <4> QED
        BY <1>1, <2>2, <3>2, <4>2
    <3>4. <<l, Intent>> # <<k, Intent>>
      BY <3>3
    <3> QED
      BY <1>9, <3>2, <3>4
  <2> QED
    BY <2>1, <2>2
<1>17. VersionInv'
  <2>1. \A e \in DOMAIN store' : e[2] # Intent =>
           e \in DOMAIN store /\ store'[e] = store[e]
    BY <1>9
  <2> QED
    BY <1>1, <2>1 DEF IInv, VersionInv
<1>18. ReadTypes' /\ NoDirtyReads'
  BY <1>1, ReadsKept
<1> QED
  BY <1>7, <1>8, <1>10, <1>11, <1>12, <1>13, <1>15, <1>16, <1>17, <1>18 DEF IInv

\* A pending transaction is finalized and its locks are released.
LEMMA FinalizeStep ==
    ASSUME IInv, NEW t \in Txns \ panicked, NEW ts \in Nat,
           NEW s \in {"COMMITTED", "ABORTED"},
           status[t] = "PENDING",
           \A k \in Keys : reservation[k] # t,
           status' = [status EXCEPT ![t] = s],
           ReleaseLocks(t, ts),
           program' = program,
           step' \in [Txns -> Nat \ {0}],
           \A u \in Txns : u # t => step'[u] = step[u],
           \A i \in DOMAIN program[t] :
              i >= step'[t] => program[t][i].op # "put",
           UNCHANGED <<clock, read_timestamp, lock_spans, read_set, panicked,
                       reads>>
    PROVE  /\ Types' /\ BeginInv' /\ QueueInv' /\ HolderInv'
           /\ PanickedInv' /\ EndInv' /\ ReadTypes' /\ NoDirtyReads'
           /\ \A u \in Txns : status[u] = "COMMITTED" \/ u = t =>
                 write_timestamp'[u] = write_timestamp[u]
<1> t \in Txns
  OBVIOUS
<1>1. Types /\ QueueInv
  BY DEF IInv
<1>2. /\ lock_holder' \in [Keys -> Txns \cup {None}]
      /\ reservation' \in [Keys -> Txns \cup {None}]
      /\ queued_writers' \in [Keys -> Seq(Txns)]
      /\ write_timestamp' \in [Txns -> Nat]
      /\ last_committed_timestamp' \in [Keys -> Nat]
      /\ UNCHANGED <<locks, holder_timestamp>>
  BY <1>1, ReleaseFacts
<1>3. \A k \in Keys : lock_holder'[k] =
         IF k \in Range(lock_spans[t]) /\ lock_holder[k] = t
         THEN None ELSE lock_holder[k]
  BY <1>1, ReleaseFacts
<1>4. \A k \in Keys :
         /\ IsInjective(queued_writers'[k])
         /\ Range(queued_writers'[k]) \subseteq Range(queued_writers[k]) \ {t}
         /\ \/ reservation'[k] = reservation[k]
            \/ /\ reservation'[k] \in Range(queued_writers[k]) \ {t}
               /\ reservation'[k] \notin Range(queued_writers'[k])
  BY <1>1, ReleaseFacts
<1>5. \A u \in Txns :
         \/ write_timestamp'[u] = write_timestamp[u]
         \/ /\ write_timestamp'[u] > 1
            /\ u # t
            /\ \E k \in Keys : u \in Range(queued_writers[k])
  BY <1>1, ReleaseFacts
<1>6. \A u \in Txns : /\ u # t => status'[u] = status[u]
                      /\ status'[t] = s
  BY <1>1 DEF Types
<1>7. Types'
  <2>1. status' \in [Txns -> Statuses]
    BY <1>1 DEF Types, Statuses
  <2> QED
    BY <1>1, <1>2, <2>1 DEF Types
<1>8. BeginInv'
  BY <1>5, <1>6 DEF IInv, BeginInv
<1>9. QueueInv'
  <2>1. \A k \in Keys :
           /\ IsInjective(queued_writers'[k])
           /\ Range(queued_writers'[k]) \subseteq Range(queued_writers[k]) \ {t}
           /\ reservation'[k] # None =>
                 /\ reservation'[k] # t
                 /\ reservation'[k] \notin Range(queued_writers'[k])
                 /\ \/ reservation'[k] = reservation[k]
                    \/ reservation'[k] \in Range(queued_writers[k])
    BY <1>1, <1>4 DEF QueueInv
  <2> QED
    BY <1>1, <1>6, <2>1, QueueKept
<1>10. HolderInv'
  <2> SUFFICES ASSUME NEW k \in Keys, lock_holder'[k] # None
               PROVE  /\ \/ status'[lock_holder'[k]] = "PENDING"
                         \/ lock_holder'[k] \in panicked'
                      /\ k \in Range(lock_spans'[lock_holder'[k]])
    BY DEF HolderInv
  <2>1. lock_holder'[k] = lock_holder[k] /\ lock_holder[k] \in Txns
    BY <1>1, <1>3 DEF Types
  <2>2. /\ status[lock_holder[k]] = "PENDING" \/ lock_holder[k] \in panicked
        /\ k \in Range(lock_spans[lock_holder[k]])
    BY <2>1 DEF IInv, HolderInv
  <2>3. lock_holder[k] # t
    BY <1>3, <2>1, <2>2
  <2> QED
    BY <1>6, <2>1, <2>2, <2>3
<1>11. PanickedInv'
  BY <1>6 DEF IInv, PanickedInv, Types, Request
<1>12. EndInv'
  BY <1>6 DEF IInv, EndInv
<1>13. ReadTypes' /\ NoDirtyReads'
  BY <1>6, ReadsKept
<1>14. \A u \in Txns : status[u] = "COMMITTED" \/ u = t =>
          write_timestamp'[u] = write_timestamp[u]
  BY <1>1, <1>5 DEF QueueInv, Writing
<1> QED
  BY <1>7, <1>8, <1>9, <1>10, <1>11, <1>12, <1>13, <1>14

\* After its commit or abort a client has no writes to come.
LEMMA EndOfProgram ==
    ASSUME Types, NEW t \in Txns, NEW op \in {"commit", "abort"}, At(t, op),
           NEW n \in Nat, n >= step[t]
    PROVE  \A i \in DOMAIN program[t] : i >= n => program[t][i].op # "put"
<1>1. step[t] \in DOMAIN program[t] /\ program[t][step[t]].op = op
  BY RequestFacts DEF At, Request
<1>2. program[t] \in Seq(Requests) /\ program \in Programs
  BY ProgramsAssumption DEF Types
<1>3. ASSUME NEW i \in DOMAIN program[t], i >= n
      PROVE  program[t][i].op # "put"
  <2>1. i \in Nat /\ step[t] \in Nat
    BY <1>1, <1>2
  <2>2. i = step[t] \/ step[t] < i
    BY <1>3, <2>1
  <2>3. CASE i = step[t]
    BY <1>1, <2>3
  <2>4. CASE step[t] < i
    BY <1>1, <1>2, <2>4, ProgramsAssumption
  <2> QED
    BY <2>2, <2>3, <2>4
<1> QED
  BY <1>3

\* A transaction has written finitely many keys.
LEMMA RangeIsFinite ==
    ASSUME NEW S, NEW q \in Seq(S)
    PROVE  IsFiniteSet(Range(q))
<1>1. q \in Surjection(1..Len(q), Range(q))
  BY DEF Surjection, Range
<1>2. IsFiniteSet(1..Len(q))
  BY FS_Interval
<1> QED
  BY <1>1, <1>2, FS_Surjection

\* CommitTxn
LEMMA CommitStep ==
    ASSUME IInv, NEW t \in Txns, Commit(t)
    PROVE  IInv'
<1> DEFINE ts == write_timestamp[t]
           own == Range(lock_spans[t])
<1>1. /\ At(t, "commit") /\ status[t] = "PENDING"
      /\ status' = [status EXCEPT ![t] = "COMMITTED"]
      /\ store' = ResolveIntents(store, own, t, ts)
      /\ ReleaseLocks(t, ts)
      /\ Returns(t)
      /\ UNCHANGED <<clock, read_timestamp, lock_spans, read_set, panicked, reads>>
  BY DEF Commit, AtCommit
<1>2. ts \in Nat /\ ts > 1 /\ t \in Txns \ panicked
  BY <1>1 DEF IInv, Types, BeginInv, At
<1>3. own \subseteq Keys /\ IsFiniteSet(own)
  <2>1. lock_spans[t] \in Seq(Keys)
    BY DEF IInv, Types
  <2> QED
    BY <2>1, RangeIsFinite DEF Range
<1>4. \A k \in own : <<k, Intent>> \in DOMAIN store /\ store[<<k, Intent>>].txn = t
  BY <1>1 DEF IInv, SpanInv
<1>5. Resolvable(store, own, t) = own
  BY <1>4 DEF Resolvable
<1>6. /\ program' = program
      /\ step' \in [Txns -> Nat \ {0}]
      /\ \A u \in Txns : u # t => step'[u] = step[u]
      /\ step'[t] = step[t] + 1
  BY <1>1, ReturnsFacts DEF IInv
<1>7. /\ Types' /\ BeginInv' /\ QueueInv' /\ HolderInv'
      /\ PanickedInv' /\ EndInv' /\ ReadTypes' /\ NoDirtyReads'
      /\ \A u \in Txns : status[u] = "COMMITTED" \/ u = t =>
            write_timestamp'[u] = write_timestamp[u]
  <2>1. \A k \in Keys : reservation[k] # t
    BY <1>1, NotWriting DEF IInv
  <2>2. \A i \in DOMAIN program[t] : i >= step'[t] => program[t][i].op # "put"
    <3>1. step'[t] \in Nat /\ step'[t] >= step[t]
      BY <1>6 DEF IInv, Types
    <3> QED
      BY <1>1, <3>1, EndOfProgram DEF IInv
  <2> HIDE DEF ts, own
  <2> QED
    BY <1>1, <1>2, <1>6, <2>1, <2>2, FinalizeStep
<1> HIDE DEF ts, own
<1> DEFINE new == own \X {ts}
           old == DOMAIN store \ (own \X {Intent})
<1>8. /\ DOMAIN store' = old \cup new
      /\ \A e \in new : store'[e] = Entry(t, ts)
      /\ \A e \in old : e \notin new => store'[e] = store[e]
  BY <1>1, <1>5 DEF ResolveIntents, PutEntries, DeleteIntents, Restrict
<1>9. \A u \in Txns : /\ u # t => status'[u] = status[u]
                      /\ status'[t] = "COMMITTED"
  BY <1>1 DEF IInv, Types
<1>10. Entry(t, ts) \in Entries /\ Entry(t, ts).txn = t
  BY <1>2 DEF Entry, Entries
<1>11. StoreTypes'
  <2>1. IsFiniteSet(old) /\ IsFiniteSet(new)
    <3>1. IsFiniteSet(old)
      BY FS_Difference DEF IInv, StoreTypes
    <3>2. IsFiniteSet({ts})
      BY FS_Singleton
    <3> QED
      BY <1>3, <3>1, <3>2, FS_Product
  <2>2. IsFiniteSet(old \cup new)
    BY <2>1, FS_Union
  <2>3. new \subseteq Keys \X Nat /\ old \subseteq Keys \X Nat
    BY <1>2, <1>3 DEF IInv, StoreTypes
  <2>4. \A e \in DOMAIN store' : store'[e] \in Entries
    BY <1>8, <1>10 DEF IInv, StoreTypes
  <2> QED
    BY <1>8, <2>2, <2>3, <2>4 DEF StoreTypes
<1>12. ASSUME NEW k, <<k, Intent>> \in DOMAIN store'
       PROVE  /\ <<k, Intent>> \in DOMAIN store /\ k \notin own
              /\ store'[<<k, Intent>>] = store[<<k, Intent>>]
  <2>1. <<k, Intent>> \notin new
    BY <1>2 DEF Intent
  <2> QED
    BY <1>8, <1>12, <2>1
<1>13. IntentInv'
  <2> SUFFICES ASSUME NEW k \in Keys, <<k, Intent>> \in DOMAIN store'
               PROVE  LET u == store'[<<k, Intent>>].txn
                      IN  /\ u \in Txns
                          /\ status'[u] = "PENDING" \/ u \in panicked
                          /\ k \in Range(lock_spans[u])
    BY <1>1 DEF IntentInv
  <2>1. /\ <<k, Intent>> \in DOMAIN store /\ k \notin own
        /\ store'[<<k, Intent>>] = store[<<k, Intent>>]
    BY <1>12
  <2> QED
    BY <1>9, <2>1 DEF IInv, IntentInv, own
<1>14. SpanInv'
  <2> SUFFICES ASSUME NEW u \in Txns, status'[u] = "PENDING",
                      NEW k \in Range(lock_spans[u])
               PROVE  /\ <<k, Intent>> \in DOMAIN store'
                      /\ store'[<<k, Intent>>].txn = u
    BY <1>1 DEF SpanInv
  <2>1. u # t /\ status[u] = "PENDING"
    BY <1>9
  <2>2. <<k, Intent>> \in DOMAIN store /\ store[<<k, Intent>>].txn = u
    BY <2>1 DEF IInv, SpanInv
  <2>3. <<k, Intent>> \in old
    BY <1>4, <2>1, <2>2
  <2>4. <<k, Intent>> \notin new
    BY <1>2 DEF Intent
  <2> QED
    BY <1>8, <2>2, <2>3, <2>4
<1>15. VersionInv'
  BY <1>8, <1>9, <1>10 DEF IInv, VersionInv, StoreTypes, Entries
<1> QED
  BY <1>7, <1>11, <1>13, <1>14, <1>15 DEF IInv

\* CommitTxn that panics in mvcc_resolve_intent
LEMMA CommitPanicsStep ==
    ASSUME IInv, NEW t \in Txns, CommitPanics(t)
    PROVE  IInv'
<1> DEFINE h == Head(lock_spans[t])
<1>1. /\ At(t, "commit") /\ status[t] = "PENDING"
      /\ lock_spans[t] # <<>>
      /\ status' = [status EXCEPT ![t] = "COMMITTED"]
      /\ store' = DeleteIntents(store, {h})
      /\ panicked' = panicked \cup {t}
      /\ UNCHANGED <<clientVars, clock, read_timestamp, write_timestamp,
                     lock_spans, read_set, oracle, lockVars, reads>>
  BY DEF CommitPanics, AtCommit
<1> USE DEF clientVars, lockVars
<1>2. h \in Range(lock_spans[t])
  <2>1. lock_spans[t] \in Seq(Keys)
    BY DEF IInv, Types
  <2> QED
    BY <1>1, <2>1, HeadTailFacts
<1> HIDE DEF h
<1>3. <<h, Intent>> \in DOMAIN store /\ store[<<h, Intent>>].txn = t
  BY <1>1, <1>2 DEF IInv, SpanInv
<1>4. \A u \in Txns : /\ u # t => status'[u] = status[u]
                      /\ status'[t] = "COMMITTED"
  BY <1>1 DEF IInv, Types
<1>5. /\ DOMAIN store' = DOMAIN store \ {<<h, Intent>>}
      /\ \A e \in DOMAIN store' : store'[e] = store[e]
  BY <1>1 DEF DeleteIntents, Restrict
<1>6. Types'
  BY <1>1 DEF IInv, Types, Statuses
<1>7. BeginInv'
  BY <1>1, <1>4 DEF IInv, BeginInv
<1>8. StoreTypes'
  BY <1>5, FS_RemoveElement DEF IInv, StoreTypes
<1>9. QueueInv'
  <2>1. \A k \in Keys : t \notin Range(queued_writers[k]) /\ reservation[k] # t
    BY <1>1, NotWriting DEF IInv
  <2> QED
    BY <1>1, <1>4, <2>1, QueueUnchanged
<1>10. HolderInv'
  BY <1>1, <1>4 DEF IInv, HolderInv, Types
<1>11. PanickedInv'
  <2>1. step[t] <= Len(program[t]) /\ Request(t).op = "commit"
    BY <1>1 DEF At
  <2> QED
    BY <1>1, <1>4, <2>1 DEF IInv, PanickedInv, Types, Request
<1>12. EndInv'
  <2>1. step[t] \in Nat /\ step[t] >= step[t]
    BY DEF IInv, Types
  <2>2. \A i \in DOMAIN program[t] : i >= step[t] => program[t][i].op # "put"
    BY <1>1, <2>1, EndOfProgram DEF IInv
  <2> QED
    BY <1>1, <1>4, <2>2 DEF IInv, EndInv
<1>13. IntentInv'
  BY <1>1, <1>4, <1>5 DEF IInv, IntentInv
<1>14. SpanInv'
  <2> SUFFICES ASSUME NEW u \in Txns, status'[u] = "PENDING",
                      NEW k \in Range(lock_spans[u])
               PROVE  /\ <<k, Intent>> \in DOMAIN store'
                      /\ store'[<<k, Intent>>].txn = u
    BY <1>1 DEF SpanInv
  <2>1. u # t /\ status[u] = "PENDING"
    BY <1>4
  <2>2. <<k, Intent>> \in DOMAIN store /\ store[<<k, Intent>>].txn = u
    BY <2>1 DEF IInv, SpanInv
  <2> QED
    BY <1>3, <1>5, <2>1, <2>2
<1>15. VersionInv'
  BY <1>4, <1>5 DEF IInv, VersionInv, StoreTypes, Entries
<1>16. ReadTypes' /\ NoDirtyReads'
  BY <1>1, <1>4, ReadsKept
<1> QED
  BY <1>6, <1>7, <1>8, <1>9, <1>10, <1>11, <1>12, <1>13, <1>14, <1>15, <1>16
     DEF IInv

\* What AbortTxn does to a pending transaction that has no reservation.
LEMMA AbortedStep ==
    ASSUME IInv, NEW t \in Txns \ panicked, status[t] = "PENDING",
           \A k \in Keys : reservation[k] # t,
           Aborted(t),
           program' = program,
           step' \in [Txns -> Nat \ {0}],
           \A u \in Txns : u # t => step'[u] = step[u],
           \A i \in DOMAIN program[t] :
              i >= step'[t] => program[t][i].op # "put",
           UNCHANGED <<clock, read_timestamp, lock_spans, read_set, panicked,
                       reads>>
    PROVE  IInv'
<1> t \in Txns
  OBVIOUS
<1> DEFINE own == Range(lock_spans[t])
<1>1. /\ status' = [status EXCEPT ![t] = "ABORTED"]
      /\ store' = DeleteIntents(store, own)
      /\ ReleaseLocks(t, 0)
  BY DEF Aborted
<1>2. /\ Types' /\ BeginInv' /\ QueueInv' /\ HolderInv'
      /\ PanickedInv' /\ EndInv' /\ ReadTypes' /\ NoDirtyReads'
      /\ \A u \in Txns : status[u] = "COMMITTED" \/ u = t =>
            write_timestamp'[u] = write_timestamp[u]
  BY <1>1, FinalizeStep
<1>3. \A k \in own : <<k, Intent>> \in DOMAIN store /\ store[<<k, Intent>>].txn = t
  BY DEF IInv, SpanInv
<1>4. \A u \in Txns : /\ u # t => status'[u] = status[u]
                      /\ status'[t] = "ABORTED"
  BY <1>1 DEF IInv, Types
<1>5. /\ DOMAIN store' = DOMAIN store \ (own \X {Intent})
      /\ \A e \in DOMAIN store' : store'[e] = store[e]
  BY <1>1 DEF DeleteIntents, Restrict
<1>6. StoreTypes'
  <2>1. IsFiniteSet(DOMAIN store')
    <3>1. IsFiniteSet(DOMAIN store)
      BY DEF IInv, StoreTypes
    <3>2. IsFiniteSet(DOMAIN store \ (own \X {Intent}))
      BY <3>1, FS_Difference
    <3> QED
      BY <1>5, <3>2
  <2> QED
    BY <1>5, <2>1 DEF IInv, StoreTypes
<1>7. IntentInv'
  <2> SUFFICES ASSUME NEW k \in Keys, <<k, Intent>> \in DOMAIN store'
               PROVE  LET u == store'[<<k, Intent>>].txn
                      IN  /\ u \in Txns
                          /\ status'[u] = "PENDING" \/ u \in panicked
                          /\ k \in Range(lock_spans[u])
    BY DEF IntentInv
  <2>1. /\ <<k, Intent>> \in DOMAIN store /\ k \notin own
        /\ store'[<<k, Intent>>] = store[<<k, Intent>>]
    BY <1>5
  <2> QED
    BY <1>4, <2>1 DEF IInv, IntentInv
<1>8. SpanInv'
  <2> SUFFICES ASSUME NEW u \in Txns, status'[u] = "PENDING",
                      NEW k \in Range(lock_spans[u])
               PROVE  /\ <<k, Intent>> \in DOMAIN store'
                      /\ store'[<<k, Intent>>].txn = u
    BY DEF SpanInv
  <2>1. u # t /\ status[u] = "PENDING"
    BY <1>4
  <2>2. <<k, Intent>> \in DOMAIN store /\ store[<<k, Intent>>].txn = u
    BY <2>1 DEF IInv, SpanInv
  <2> QED
    BY <1>3, <1>5, <2>1, <2>2
<1>9. VersionInv'
  BY <1>4, <1>5 DEF IInv, VersionInv, StoreTypes, Entries
<1> QED
  BY <1>2, <1>6, <1>7, <1>8, <1>9 DEF IInv

\* AbortTxn
LEMMA AbortStep ==
    ASSUME IInv, NEW t \in Txns, Abort(t)
    PROVE  IInv'
<1>1. /\ At(t, "abort") /\ status[t] = "PENDING" /\ Aborted(t) /\ Returns(t)
      /\ UNCHANGED <<clock, read_timestamp, lock_spans, read_set, panicked, reads>>
  BY DEF Abort
<1>2. t \in Txns \ panicked
  BY <1>1 DEF At
<1>3. /\ program' = program
      /\ step' \in [Txns -> Nat \ {0}]
      /\ \A u \in Txns : u # t => step'[u] = step[u]
      /\ step'[t] = step[t] + 1
  BY <1>1, ReturnsFacts DEF IInv
<1>4. \A k \in Keys : reservation[k] # t
  BY <1>1, NotWriting DEF IInv
<1>5. \A i \in DOMAIN program[t] : i >= step'[t] => program[t][i].op # "put"
  <2>1. step'[t] \in Nat /\ step'[t] >= step[t]
    BY <1>3 DEF IInv, Types
  <2> QED
    BY <1>1, <2>1, EndOfProgram DEF IInv
<1> QED
  BY <1>1, <1>2, <1>3, <1>4, <1>5, AbortedStep

\* A transaction in a cycle of waits is pending, and has no reservation.
LEMMA VictimIsPending ==
    ASSUME IInv, NEW t \in Txns, InCycle(t)
    PROVE  /\ status[t] = "PENDING" /\ t \notin panicked
           /\ \A k \in Keys : reservation[k] # t
<1>1. PICK S \in SUBSET Txns :
          /\ t \in S
          /\ \A u \in S : /\ \E v \in S : WaitsFor(u, v)
                          /\ \E v \in S : WaitsFor(v, u)
  BY DEF InCycle
<1>2. PICK v \in S : WaitsFor(t, v)
  BY <1>1
<1>3. PICK w \in S : WaitsFor(w, t)
  BY <1>1
<1>4. \A k \in Keys : reservation[k] = t => Writing(t, k)
                        /\ t \notin Range(queued_writers[k])
  BY NoneAssumption DEF IInv, QueueInv
<1>5. \A k \in Keys : t \in Range(queued_writers[k]) => Writing(t, k)
  BY DEF IInv, QueueInv
<1>6. PICK l \in Keys : lock_holder[l] = t \/ reservation[l] = t
  BY <1>3 DEF WaitsFor
<1>7. PICK k \in Keys : k \in ReadKeys(t) \/ t \in Range(queued_writers[k])
  BY <1>2 DEF WaitsFor
<1>8. CASE t \in Range(queued_writers[k])
  <2>1. Writing(t, k)
    BY <1>5, <1>8
  <2>2. \A j \in Keys : reservation[j] # t
    BY <1>4, <1>8, <2>1 DEF Writing
  <2> QED
    BY <2>1, <2>2 DEF Writing, IInv, PanickedInv
<1>9. CASE k \in ReadKeys(t)
  <2>1. PICK op : op # "put" /\ At(t, op)
    BY <1>9 DEF ReadKeys
  <2>2. t \notin panicked /\ \A j \in Keys : reservation[j] # t
    BY <2>1, NotWriting DEF At, IInv
  <2>3. lock_holder[l] = t
    BY <1>6, <2>2
  <2> QED
    BY <2>2, <2>3, NoneAssumption DEF IInv, HolderInv
<1> QED
  BY <1>7, <1>8, <1>9

\* The abort of a deadlock victim
LEMMA VictimAbortsStep ==
    ASSUME IInv, NEW t \in Txns, VictimAborts(t)
    PROVE  IInv'
<1>1. /\ InCycle(t) /\ Aborted(t) /\ program' = program
      /\ step' = [step EXCEPT ![t] = Len(program[t]) + 1]
      /\ UNCHANGED <<clock, read_timestamp, lock_spans, read_set, panicked, reads>>
  BY DEF VictimAborts
<1>2. /\ status[t] = "PENDING" /\ t \in Txns \ panicked
      /\ \A k \in Keys : reservation[k] # t
  BY <1>1, VictimIsPending
<1>3. program[t] \in Seq(Requests) /\ step \in [Txns -> Nat \ {0}]
  BY ProgramsAssumption DEF IInv, Types
<1>4. Len(program[t]) \in Nat /\ DOMAIN program[t] = 1..Len(program[t])
  BY <1>3
<1>5. /\ step' \in [Txns -> Nat \ {0}]
      /\ \A u \in Txns : u # t => step'[u] = step[u]
      /\ step'[t] = Len(program[t]) + 1
  BY <1>1, <1>3, <1>4
<1>6. \A i \in DOMAIN program[t] : i >= step'[t] => program[t][i].op # "put"
  BY <1>4, <1>5
<1> QED
  BY <1>1, <1>2, <1>5, <1>6, AbortedStep

\* The initial states satisfy the invariant.
LEMMA DatabaseInit == Init => IInv
<1> SUFFICES ASSUME Init PROVE IInv
  OBVIOUS
<1>1. PICK b \in Beginnings :
          /\ program \in Programs
          /\ step = [t \in Txns |-> 1]
          /\ clock = b[2]
          /\ status = [t \in Txns |-> "NEW"]
          /\ read_timestamp = [t \in Txns |-> 0]
          /\ write_timestamp = [t \in Txns |-> 0]
          /\ lock_spans = [t \in Txns |-> <<>>]
          /\ read_set = [t \in Txns |-> <<>>]
          /\ store = [e \in b[1] \X {1} |-> Entry(None, 1)]
          /\ locks = b[1]
          /\ lock_holder = [k \in Keys |-> None]
          /\ holder_timestamp = [k \in Keys |-> 0]
          /\ reservation = [k \in Keys |-> None]
          /\ queued_writers = [k \in Keys |-> <<>>]
          /\ last_committed_timestamp =
                 [k \in Keys |-> IF k \in b[1] THEN 1 ELSE 0]
          /\ panicked = {}
          /\ reads = [t \in Txns |-> {}]
  BY DEF Init
<1>2. b[1] \subseteq Keys /\ b[2] \in Nat \ {0} /\ IsFiniteSet(b[1])
  BY BeginningsAssumption
<1>3. Types
  BY <1>1, <1>2 DEF Types, Statuses
<1>4. BeginInv /\ HolderInv /\ PanickedInv /\ EndInv
  BY <1>1 DEF BeginInv, HolderInv, PanickedInv, EndInv
<1>5. StoreTypes
  <2>1. IsFiniteSet({1})
    BY FS_Singleton
  <2>2. IsFiniteSet(b[1] \X {1})
    BY <1>2, <2>1, FS_Product
  <2>3. Entry(None, 1) \in Entries
    BY DEF Entry, Entries
  <2> QED
    BY <1>1, <1>2, <2>2, <2>3 DEF StoreTypes
<1>6. \A e \in DOMAIN store : e[2] # Intent /\ store[e].txn = None
  BY <1>1 DEF Intent, Entry
<1>7. IntentInv /\ SpanInv /\ VersionInv
  <2>1. \A k \in Keys : <<k, Intent>> \notin DOMAIN store
    BY <1>6
  <2>2. \A t \in Txns : Range(lock_spans[t]) = {}
    BY <1>1 DEF Range
  <2> QED
    BY <1>6, <2>1, <2>2 DEF IntentInv, SpanInv, VersionInv
<1>8. QueueInv
  BY <1>1 DEF QueueInv, Range, IsInjective
<1>9. ReadTypes /\ NoDirtyReads
  BY <1>1 DEF ReadTypes, NoDirtyReads
<1> QED
  BY <1>3, <1>4, <1>5, <1>7, <1>8, <1>9 DEF IInv

-----------------------------------------------------------------------------
(* The oracle.                                                             *)

\* The oracle's tree is a red-black tree, and it has every read.  A transaction
\* that has not begun has read nothing, so Begin moves no read timestamp away
\* from the reads in the tree.
OracleInv ==
    /\ IsOracle(oracle)
    /\ \A t \in Txns : status[t] = "NEW" => read_set[t] = <<>>
    /\ \A t \in Txns : \A k \in Range(read_set[t]) :
          HasRead(oracle, k, read_timestamp[t])

\* A red-black tree has an answer for every key.
LEMMA OracleHasAnswers ==
    ASSUME OracleInv
    PROVE  OracleAnswers
<1>1. \A k \in Keys : k \in Nat
  BY KeysAssumption
<1> QED
  BY <1>1, OracleMax DEF OracleInv, OracleAnswers

\* f removes the duplicates of s.
IsDeduped(s, f) ==
    f = [i \in 0..Len(s) |->
            IF i = 0 THEN <<>>
            ELSE IF s[i] \in Range(f[i - 1]) THEN f[i - 1]
            ELSE Append(f[i - 1], s[i])]

\* dedupe_spanset keeps a list of keys, and loses none.
LEMMA DedupedType ==
    ASSUME NEW all \in Seq(Keys)
    PROVE  /\ Deduped(all) \in Seq(Keys)
           /\ \A i \in DOMAIN all : all[i] \in Range(Deduped(all))
<1> DEFINE kept[i \in 0..Len(all)] ==
               IF i = 0 THEN <<>>
               ELSE IF all[i] \in Range(kept[i - 1]) THEN kept[i - 1]
               ELSE Append(kept[i - 1], all[i])
<1>1. Deduped(all) = kept[Len(all)]
  BY Zenon DEF Deduped
<1>2. kept = CHOOSE f : IsDeduped(all, f)
  BY Zenon DEF IsDeduped
<1> HIDE DEF kept
<1>3. PICK n \in Nat : n = Len(all)
  OBVIOUS
<1>4. all \in [1..n -> Keys]
  BY <1>3
<1> DEFINE T == Seq(Keys)
           next == [q \in T \X (1..n) |->
                       IF all[q[2]] \in Range(q[1]) THEN q[1]
                       ELSE Append(q[1], all[q[2]])]
<1>5. <<>> \in T /\ \A s \in T : \A i \in 1..n : Append(s, all[i]) \in T
  BY <1>4
<1> HIDE DEF T
<1>6. next \in [T \X (1..n) -> T]
  BY <1>5
<1>7. \A s \in T : \A i \in 1..n :
         next[<<s, i>>] = IF all[i] \in Range(s) THEN s ELSE Append(s, all[i])
  OBVIOUS
<1> HIDE DEF next
<1>8. PICK f : IsByCounting(n, T, <<>>, next, f)
  BY <1>5, <1>6, FunctionByCounting
<1>9. /\ f \in [0..n -> T] /\ f[0] = <<>>
       /\ \A i \in 1..n : f[i] = next[<<f[i - 1], i>>]
  BY <1>8 DEF IsByCounting
<1>10. \A i \in 1..n : i - 1 \in 0..n /\ i \in 0..n /\ i # 0
  OBVIOUS
<1>11. IsDeduped(all, f)
  <2>1. \A i \in 1..n : f[i] = IF all[i] \in Range(f[i - 1]) THEN f[i - 1]
                               ELSE Append(f[i - 1], all[i])
    BY <1>7, <1>9, <1>10
  <2>2. \A i \in 0..n : i = 0 \/ i \in 1..n
    OBVIOUS
  <2>3. \A i \in 0..n : f[i] = IF i = 0 THEN <<>>
                               ELSE IF all[i] \in Range(f[i - 1]) THEN f[i - 1]
                               ELSE Append(f[i - 1], all[i])
    BY <1>9, <2>1, <2>2
  <2>4. f = [i \in 0..n |-> f[i]]
    BY <1>9
  <2> QED
    BY <1>3, <2>3, <2>4 DEF IsDeduped
<1>12. IsDeduped(all, kept)
  BY <1>2, <1>11
<1> DEFINE d == kept
           G == {i \in 0..n : /\ d[i] \in T
                             /\ \A j \in 1..i : all[j] \in Range(d[i])}
<1> HIDE DEF d
<1>13. /\ d[0] = <<>>
       /\ \A i \in 1..n : d[i] = IF all[i] \in Range(d[i - 1]) THEN d[i - 1]
                                 ELSE Append(d[i - 1], all[i])
  <2>1. IsDeduped(all, d) /\ 0 \in 0..n
    BY <1>12 DEF d
  <2>2. d[0] = <<>>
    BY <1>3, <2>1 DEF IsDeduped
  <2>3. ASSUME NEW i \in 1..n
        PROVE  d[i] = IF all[i] \in Range(d[i - 1]) THEN d[i - 1]
                      ELSE Append(d[i - 1], all[i])
    <3>1. i \in 0..n /\ i # 0
      BY <1>10
    <3> QED
      BY Zenon, <1>3, <2>1, <3>1 DEF IsDeduped
  <2> QED
    BY <2>2, <2>3
<1>14. 0 \in G
  BY <1>5, <1>13
<1>15. ASSUME NEW i \in 1..n, i - 1 \in G PROVE i \in G
  <2>1. d[i - 1] \in T /\ Append(d[i - 1], all[i]) \in T
    BY <1>5, <1>15
  <2>2. d[i] = IF all[i] \in Range(d[i - 1]) THEN d[i - 1]
               ELSE Append(d[i - 1], all[i])
    BY <1>13
  <2>3. Range(d[i]) = Range(d[i - 1]) \cup {all[i]}
    <3>1. CASE all[i] \in Range(d[i - 1])
      BY <2>2, <3>1
    <3>2. CASE all[i] \notin Range(d[i - 1])
      <4>1. d[i - 1] \in Seq(Keys) /\ all[i] \in Keys
        BY <1>4, <2>1 DEF T
      <4>2. Range(Append(d[i - 1], all[i])) = Range(d[i - 1]) \cup {all[i]}
        BY <4>1, AppendFacts
      <4> QED
        BY <2>2, <3>2, <4>2
    <3> QED
      BY <3>1, <3>2
  <2>4. ASSUME NEW j \in 1..i PROVE all[j] \in Range(d[i])
    <3>1. j = i \/ j \in 1..(i - 1)
      BY <2>4
    <3> QED
      BY <1>15, <2>3, <3>1
  <2>5. d[i] \in T
    BY <2>1, <2>2
  <2> QED
    BY <1>10, <2>4, <2>5
<1>16. n \in G
  <2> HIDE DEF G
  <2>1. \A i \in 0..n : i \in G
    BY <1>14, <1>15, CountingUp
  <2> QED
    BY <2>1
<1>17. d[n] \in T /\ \A j \in 1..n : all[j] \in Range(d[n])
  BY <1>16
<1> HIDE DEF G
<1> QED
  BY <1>1, <1>3, <1>17 DEF T, d

\* collect_spans is a list of keys with those of the lock spans.
LEMMA SpansType ==
    ASSUME Types, NEW t \in Txns
    PROVE  /\ Spans(t) \in Seq(Keys)
           /\ Range(lock_spans[t]) \subseteq Range(Spans(t))
<1> DEFINE a == lock_spans[t]
           all == a \o read_set[t]
<1>1. a \in Seq(Keys) /\ read_set[t] \in Seq(Keys)
  BY DEF Types
<1>2. all \in Seq(Keys) /\ Len(all) = Len(a) + Len(read_set[t])
  BY <1>1
<1>3. ASSUME NEW i \in 1..Len(a) PROVE i \in DOMAIN all /\ all[i] = a[i]
  <2>1. i \in 1..(Len(a) + Len(read_set[t])) /\ i <= Len(a)
    <3>1. \A m, n \in Nat : \A j \in 1..m : j \in 1..(m + n) /\ j <= m
      OBVIOUS
    <3>2. Len(a) \in Nat /\ Len(read_set[t]) \in Nat
      BY <1>1
    <3> QED
      BY Zenon, <1>3, <3>1, <3>2
  <2>2. DOMAIN all = 1..(Len(a) + Len(read_set[t]))
    BY <1>2
  <2> QED
    BY <1>1, <2>1, <2>2, ConcatProperties
<1> HIDE DEF all
<1>4. /\ Deduped(all) \in Seq(Keys)
      /\ \A i \in DOMAIN all : all[i] \in Range(Deduped(all))
  BY <1>2, DedupedType
<1>5. Spans(t) = Deduped(all)
  BY DEF Spans, all
<1>6. ASSUME NEW k \in Range(a) PROVE k \in Range(Spans(t))
  <2>1. PICK i \in 1..Len(a) : a[i] = k
    BY <1>1 DEF Range
  <2> QED
    BY <1>3, <1>4, <1>5, <2>1
<1> QED
  BY <1>4, <1>5, <1>6

\* f adds the reads of t at spans to the oracle one by one.
IsCaching(t, spans, f) ==
    f = [i \in 0..Len(spans) |->
            IF i = 0 THEN oracle
            ELSE InsertNode(f[i - 1], spans[i], spans[i], read_timestamp[t])]

\* update_cache adds the reads and keeps those that are there.
LEMMA UpdateCacheFacts ==
    ASSUME IsOracle(oracle), NEW t, read_timestamp[t] \in Nat,
           NEW spans \in Seq(Keys)
    PROVE  /\ IsOracle(UpdateCache(t, spans))
           /\ KeepsReads(oracle, UpdateCache(t, spans))
           /\ \A k \in Range(spans) :
                 HasRead(UpdateCache(t, spans), k, read_timestamp[t])
<1> DEFINE added[i \in 0..Len(spans)] ==
               IF i = 0 THEN oracle
               ELSE InsertNode(added[i - 1], spans[i], spans[i], read_timestamp[t])
           v == read_timestamp[t]
<1>1. UpdateCache(t, spans) = added[Len(spans)]
  BY Zenon DEF UpdateCache
<1>2. added = CHOOSE f : IsCaching(t, spans, f)
  BY Zenon DEF IsCaching
<1> HIDE DEF added
<1>3. PICK n \in Nat : n = Len(spans)
  OBVIOUS
<1>4. spans \in [1..n -> Nat] /\ DOMAIN spans = 1..n
  <2>1. spans \in [1..n -> Keys]
    BY <1>3
  <2> QED
    BY <2>1, KeysAssumption
<1>5. \A f : AddsReads(n, oracle, 1..n, spans, v, f) <=> IsCaching(t, spans, f)
  <2> SUFFICES ASSUME NEW f
               PROVE  [i \in 0..n |-> IF i = 0 THEN oracle
                                      ELSE IF i \in 1..n
                                      THEN WithRead(f[i - 1], spans[i], v)
                                      ELSE f[i - 1]]
                       = [i \in 0..n |-> IF i = 0 THEN oracle
                                         ELSE WithRead(f[i - 1], spans[i], v)]
    BY <1>3 DEF AddsReads, IsCaching, WithRead
  <2>1. \A i \in 0..n : i = 0 \/ i \in 1..n
    OBVIOUS
  <2> QED
    BY <2>1
<1>6. \E f : AddsReads(n, oracle, 1..n, spans, v, f)
  <2>1. spans \in [1..n -> Nat]
    BY <1>4
  <2> QED
    BY <2>1, AddsReadsExists
<1>7. AddsReads(n, oracle, 1..n, spans, v, added)
  BY <1>2, <1>5, <1>6
<1>8. HasAdded(n, oracle, 1..n, spans, v, added[n])
  <2>1. spans \in [1..n -> Nat]
    BY <1>4
  <2> QED
    BY <1>7, <2>1, AddsReadsFacts
<1>9. \A k \in Range(spans) : \E i \in 1..n : k = spans[i]
  BY <1>4 DEF Range
<1> QED
  BY <1>1, <1>3, <1>8, <1>9 DEF HasAdded

\* A step that keeps the reads of the oracle and changes no transaction's.
LEMMA OracleKept ==
    ASSUME OracleInv, IsOracle(oracle'), KeepsReads(oracle, oracle'),
           UNCHANGED <<read_set, read_timestamp>>,
           \A u \in Txns : status'[u] = "NEW" => status[u] = "NEW"
    PROVE  OracleInv'
  BY DEF OracleInv, KeepsReads

\* Begin
LEMMA OracleBegin ==
    ASSUME IInv, OracleInv, NEW t \in Txns, Begin(t)
    PROVE  OracleInv'
<1>1. UNCHANGED <<oracle, read_set>> /\ read_set[t] = <<>>
  BY DEF Begin, OracleInv
<1>2. /\ \A u \in Txns : u # t => read_timestamp'[u] = read_timestamp[u]
      /\ \A u \in Txns : status'[u] = "NEW" => status[u] = "NEW"
  BY DEF Begin, IInv, Types
<1>3. Range(read_set[t]) = {}
  BY <1>1 DEF Range
<1> QED
  BY <1>1, <1>2, <1>3 DEF OracleInv

\* Get
LEMMA OracleGet ==
    ASSUME IInv, OracleInv, NEW t \in Txns, Get(t)
    PROVE  OracleInv'
<1> DEFINE k == Request(t).key
           spans == <<k>>
<1>1. k \in Keys /\ status[t] # "NEW"
  BY RequestFacts DEF Get, At, IInv
<1>2. /\ oracle' = UpdateCache(t, spans) /\ UNCHANGED <<read_timestamp, status>>
      /\ \/ read_set' = read_set
         \/ read_set' = [read_set EXCEPT ![t] = Append(@, k)]
  BY DEF Get
<1> HIDE DEF k
<1>3. spans \in Seq(Keys) /\ Range(spans) = {k}
  BY <1>1 DEF Range
<1>4. read_timestamp[t] \in Nat /\ read_set \in [Txns -> Seq(Keys)]
  BY DEF IInv, Types
<1> HIDE DEF spans
<1>5. /\ IsOracle(oracle') /\ KeepsReads(oracle, oracle')
      /\ HasRead(oracle', k, read_timestamp[t])
  BY <1>2, <1>3, <1>4, UpdateCacheFacts DEF OracleInv
<1>6. /\ \A u \in Txns : u # t => read_set'[u] = read_set[u]
      /\ read_set'[t] = read_set[t] \/ read_set'[t] = Append(read_set[t], k)
  BY <1>2, <1>4
<1>7. \A j \in Range(read_set'[t]) : j \in Range(read_set[t]) \/ j = k
  <2>1. read_set[t] \in Seq(Keys)
    BY <1>4
  <2>2. \A j \in Range(Append(read_set[t], k)) : j \in Range(read_set[t]) \/ j = k
    BY <2>1, <1>1 DEF Range
  <2> QED
    BY <1>6, <2>2
<1>8. \A u \in Txns : \A j \in Range(read_set'[u]) :
         HasRead(oracle', j, read_timestamp[u])
  BY <1>5, <1>6, <1>7 DEF OracleInv, KeepsReads
<1> QED
  BY <1>1, <1>2, <1>5, <1>6, <1>8 DEF OracleInv

\* Every step keeps the reads of the oracle.
LEMMA OracleStep ==
    ASSUME IInv, OracleInv, [Next]_vars
    PROVE  OracleInv'
<1>1. KeepsReads(oracle, oracle) /\ IsOracle(oracle)
  BY DEF KeepsReads, OracleInv
<1>2. CASE UNCHANGED vars
  BY <1>1, <1>2, OracleKept DEF vars, txnVars
<1>3. ASSUME NEW t \in Txns, Put(t) \/ PutWaits(t) \/ CommitPanics(t)
      PROVE  OracleInv'
  <2>1. UNCHANGED <<oracle, read_set, read_timestamp>>
    BY <1>3 DEF Put, PutWaits, CommitPanics, txnVars
  <2>2. \A u \in Txns : status'[u] = "NEW" => status[u] = "NEW"
    BY <1>3 DEF Put, PutWaits, CommitPanics, txnVars, IInv, Types
  <2> QED
    BY <1>1, <2>1, <2>2, OracleKept
<1>4. ASSUME NEW t \in Txns, NEW spans \in Seq(Keys),
             oracle' = UpdateCache(t, spans),
             UNCHANGED <<read_set, read_timestamp>>,
             \A u \in Txns : status'[u] = "NEW" => status[u] = "NEW"
      PROVE  OracleInv'
  <2>1. read_timestamp[t] \in Nat
    BY DEF IInv, Types
  <2>2. IsOracle(oracle') /\ KeepsReads(oracle, oracle')
    BY <1>1, <1>4, <2>1, UpdateCacheFacts
  <2> QED
    BY <1>4, <2>2, OracleKept
<1>5. ASSUME NEW t \in Txns, GetMeetsIntent(t) PROVE OracleInv'
  <2> DEFINE spans == <<Request(t).key>>
  <2>1. Request(t).key \in Keys
    BY <1>5, RequestFacts DEF GetMeetsIntent, At, IInv
  <2>2. spans \in Seq(Keys)
    BY <2>1
  <2>3. oracle' = UpdateCache(t, spans) /\ UNCHANGED <<read_set, read_timestamp, status>>
    BY <1>5 DEF GetMeetsIntent, txnVars
  <2> HIDE DEF spans
  <2> QED
    BY <1>4, <2>2, <2>3
<1>6. ASSUME NEW t \in Txns,
             \/ Commit(t) \/ CommitFails(t)
             \/ Abort(t) \/ AbortFindsCommitted(t) \/ VictimAborts(t)
      PROVE  OracleInv'
  <2>1. /\ oracle' = UpdateCache(t, Spans(t))
        /\ UNCHANGED <<read_set, read_timestamp>>
    BY <1>6 DEF Commit, CommitFails, Abort, AbortFindsCommitted, VictimAborts,
                Aborted, txnVars
  <2>2. \A u \in Txns : status'[u] = "NEW" => status[u] = "NEW"
    BY <1>6 DEF Commit, CommitFails, Abort, AbortFindsCommitted, VictimAborts,
                Aborted, txnVars, IInv, Types
  <2>3. Spans(t) \in Seq(Keys)
    BY SpansType DEF IInv
  <2> QED
    BY <1>4, <2>1, <2>2, <2>3
<1> QED
  BY <1>2, <1>3, <1>5, <1>6, OracleBegin, OracleGet DEF Next

\* f adds the keys of P that were committed before, in their order.
IsBeginning(P, f) ==
    f = [k \in 0..Max({0} \cup P) |->
            IF k = 0 THEN EmptyTree
            ELSE IF k \in P THEN InsertNode(f[k - 1], k, k, 1)
            ELSE f[k - 1]]

\* The oracle of a database that has committed keys is a red-black tree.
LEMMA OracleInit ==
    ASSUME Init
    PROVE  OracleInv
<1>1. PICK b \in Beginnings :
          /\ status = [t \in Txns |-> "NEW"]
          /\ read_set = [t \in Txns |-> <<>>]
          /\ LET added[k \in 0..Max({0} \cup b[1])] ==
                     IF k = 0 THEN EmptyTree
                     ELSE IF k \in b[1] THEN InsertNode(added[k - 1], k, k, 1)
                     ELSE added[k - 1]
             IN  oracle = added[Max({0} \cup b[1])]
  BY Zenon DEF Init
<1> DEFINE P == b[1]
           added[k \in 0..Max({0} \cup P)] ==
               IF k = 0 THEN EmptyTree
               ELSE IF k \in P THEN InsertNode(added[k - 1], k, k, 1)
               ELSE added[k - 1]
<1>2. oracle = added[Max({0} \cup P)]
  BY Zenon, <1>1
<1>3. added = CHOOSE f : IsBeginning(P, f)
  BY Zenon DEF IsBeginning
<1> HIDE DEF added
<1>4. P \subseteq Nat /\ IsFiniteSet(P)
  BY BeginningsAssumption, KeysAssumption
<1> HIDE DEF P
<1>5. PICK n \in Nat : n = Max({0} \cup P)
  <2>1. {0} \cup P \in SUBSET Nat /\ {0} \cup P # {} /\ IsFiniteSet({0} \cup P)
    BY <1>4, FS_AddElement
  <2> QED
    BY <2>1, LargestNumber
<1> DEFINE ks == [i \in 1..n |-> i]
<1>6. ks \in [1..n -> Nat] /\ \A i \in 1..n : ks[i] = i
  OBVIOUS
<1> HIDE DEF ks
<1>7. 1 \in Nat
  OBVIOUS
<1>8. \A f : AddsReads(n, EmptyTree, P, ks, 1, f) <=> IsBeginning(P, f)
  <2> SUFFICES ASSUME NEW f
               PROVE  [i \in 0..n |-> IF i = 0 THEN EmptyTree
                                      ELSE IF i \in P
                                      THEN WithRead(f[i - 1], ks[i], 1)
                                      ELSE f[i - 1]]
                       = [i \in 0..n |-> IF i = 0 THEN EmptyTree
                                         ELSE IF i \in P
                                         THEN WithRead(f[i - 1], i, 1)
                                         ELSE f[i - 1]]
    BY <1>5 DEF AddsReads, IsBeginning, WithRead
  <2>1. \A i \in 0..n : i # 0 => ks[i] = i
    BY <1>6
  <2> QED
    BY <2>1
<1>9. \E f : AddsReads(n, EmptyTree, P, ks, 1, f)
  <2>1. ks \in [1..n -> Nat]
    BY <1>6
  <2> QED
    BY <1>7, <2>1, AddsReadsExists, OracleEmpty
<1>10. AddsReads(n, EmptyTree, P, ks, 1, added)
  BY <1>3, <1>8, <1>9
<1>11. HasAdded(n, EmptyTree, P, ks, 1, added[n])
  <2>1. ks \in [1..n -> Nat]
    BY <1>6
  <2> QED
    BY <1>7, <1>10, <2>1, AddsReadsFacts, OracleEmpty
<1>12. IsOracle(oracle)
  BY <1>2, <1>5, <1>11 DEF HasAdded
<1>13. \A t \in Txns : read_set[t] = <<>>
  BY <1>1
<1>14. \A t \in Txns : Range(read_set[t]) = {}
  BY <1>13 DEF Range
<1> QED
  BY <1>12, <1>13, <1>14 DEF OracleInv
-----------------------------------------------------------------------------
(* Theorems.                                                               *)

\* Every step keeps the invariant.
LEMMA DatabaseStep ==
    ASSUME IInv, OracleInv, [Next]_vars
    PROVE  IInv' /\ OracleInv'
<1>1. ASSUME UNCHANGED vars PROVE IInv'
  BY <1>1 DEF vars, clientVars, txnVars, lockVars, IInv, Types,
         BeginInv, StoreTypes, ReadTypes, QueueInv, HolderInv, PanickedInv,
         EndInv, IntentInv, SpanInv, VersionInv, NoDirtyReads,
         Writing, Request
<1>2. ASSUME NEW t \in Txns,
             \/ Begin(t)
             \/ Get(t) \/ GetMeetsIntent(t)
             \/ Put(t) \/ PutWaits(t)
             \/ Commit(t) \/ CommitFails(t) \/ CommitPanics(t)
             \/ Abort(t) \/ AbortFindsCommitted(t) \/ VictimAborts(t)
      PROVE  IInv'
  BY <1>2, BeginStep, GetStep, GetMeetsIntentStep, PutStep, PutWaitsStep,
     CommitStep, FruitlessEndStep, CommitPanicsStep, AbortStep, VictimAbortsStep,
     OracleHasAnswers
<1> QED
  BY <1>1, <1>2, OracleStep DEF Next

\* The invariant of the database, its oracle included.
THEOREM DatabaseInvariant == Spec => [](IInv /\ OracleInv)
<1>1. Init => IInv /\ OracleInv
  BY DatabaseInit, OracleInit
<1>2. IInv /\ OracleInv /\ [Next]_vars => (IInv /\ OracleInv)'
  BY DatabaseStep
<1> QED
  BY <1>1, <1>2, PTL DEF Spec

\* The oracle's tree is a red-black tree after every sequence of reads, commits
\* and aborts: its lookups take logarithmic time.
THEOREM OracleStaysRedBlack == Spec => []OracleIsRedBlack
<1>1. OracleInv => OracleIsRedBlack
  BY OracleRedBlack DEF OracleInv, OracleIsRedBlack
<1> QED
  BY <1>1, DatabaseInvariant, PTL

\* The oracle answers for a key with the largest of all its reads, so no write
\* gets a timestamp below a read, whatever rotations have made of the tree.
THEOREM OracleKnowsReads == Spec => []OracleCoversReads
<1>1. ASSUME IInv, OracleInv PROVE OracleCoversReads
  <2>1. OracleAnswers
    BY <1>1, OracleHasAnswers
  <2>2. \A k \in Keys : k \in Nat
    BY KeysAssumption
  <2>3. ASSUME NEW t \in Txns, NEW k \in Range(read_set[t])
        PROVE  GetMaxTimestamp(oracle, k, k) >= read_timestamp[t]
    <3>1. k \in Keys
      BY <1>1 DEF IInv, Types, Range
    <3>2. IsOracle(oracle) /\ HasRead(oracle, k, read_timestamp[t])
      BY <1>1 DEF OracleInv
    <3> QED
      BY <2>2, <3>1, <3>2, OracleMax
  <2>4. ASSUME NEW k \in Keys
        PROVE  GetMaxTimestamp(oracle, k, k) =
                  Max({0} \cup {n.value : n \in {m \in Range(oracle.nodes) :
                                                    m.start_key = k}})
    <3>1. Range(oracle.nodes) = Listed(oracle.nodes)
      BY DEF Range, Listed
    <3>2. IsOracle(oracle) /\ k \in Nat
      BY <1>1, <2>2 DEF OracleInv
    <3> QED
      BY <3>1, <3>2, OracleMax
  <2> QED
    BY <2>1, <2>3, <2>4 DEF OracleCoversReads
<1> QED
  BY <1>1, DatabaseInvariant, PTL

\* Every transaction and every lock of the database is as TypeOK says, through
\* waits, commits, aborts and panics: nobody queues twice, and no write has the
\* timestamp of intents.
THEOREM DatabaseTypes == Spec => []TypeOK
<1>1. ASSUME IInv PROVE TypeOK
  <2>1. \A k, l \in Keys : k # l =>
           Range(queued_writers[k]) \cap Range(queued_writers[l]) = {}
    <3>1. \A k \in Keys : \A t \in Range(queued_writers[k]) : Request(t).key = k
      BY <1>1 DEF IInv, QueueInv, Writing
    <3> QED
      BY <3>1
  <2>2. \A k \in Keys : lock_holder[k] = None \/ status[lock_holder[k]] # "NEW"
    BY <1>1 DEF IInv, HolderInv, PanickedInv
  <2>3. \A t \in Txns : status[t] # "NEW" => write_timestamp[t] > 1
    BY <1>1 DEF IInv, BeginInv
  <2>4. \A k \in Keys : IsInjective(queued_writers[k])
    BY <1>1 DEF IInv, QueueInv
  <2> QED
    BY <1>1, <2>1, <2>2, <2>3, <2>4 DEF IInv, Types, TypeOK
<1> QED
  BY <1>1, DatabaseInvariant, PTL

\* mvcc_get finds the intent or the latest version of a key in every store that
\* commits, aborts and overwrites can make.
THEOREM ReadsAreLatest == Spec => []GetIsLatest
<1>1. ASSUME IInv PROVE GetIsLatest
  <2> SUFFICES ASSUME NEW k \in Keys, NEW e \in DOMAIN store,
                      NEW ts \in {e[2] - 1, e[2]}, ts > 0
               PROVE  GetReturnsLatest(store, k, ts)
    BY DEF GetIsLatest
  <2>1. IsStore(store) /\ k \in Nat /\ e \in Keys \X Nat
    BY <1>1, KeysAssumption DEF IInv, StoreTypes, IsStore, MVCCKeys
  <2>2. ts \in Nat \ {0}
    BY <2>1
  <2> QED
    BY <2>1, <2>2, MvccGetIsLatest
<1> QED
  BY <1>1, DatabaseInvariant, PTL

\* No transaction reads the intent of another one.
THEOREM ReadsAreClean == Spec => []NoDirtyReads
<1>1. IInv => NoDirtyReads
  BY DEF IInv
<1> QED
  BY <1>1, DatabaseInvariant, PTL

\* CommitTxnRequest makes versions of all intents of the transaction, at its write
\* timestamp, and leaves the other entries alone.
LEMMA CommitEntries ==
    ASSUME IInv, NEW t \in Txns, Commit(t)
    PROVE  LET ts  == write_timestamp[t]
               own == Range(lock_spans[t])
           IN  /\ ts # Intent
               /\ DOMAIN store' =
                     (DOMAIN store \ (own \X {Intent})) \cup (own \X {ts})
               /\ \A e \in own \X {ts} : store'[e] = Entry(t, ts)
               /\ \A e \in DOMAIN store' :
                     e \notin own \X {ts} => store'[e] = store[e]
<1> DEFINE ts == write_timestamp[t]
           own == Range(lock_spans[t])
<1>1. status[t] = "PENDING" /\ store' = ResolveIntents(store, own, t, ts)
  BY DEF Commit, AtCommit
<1>2. ts # Intent
  BY <1>1 DEF IInv, Types, BeginInv, Intent
<1>3. Resolvable(store, own, t) = own
  BY <1>1 DEF IInv, SpanInv, Resolvable
<1> HIDE DEF ts, own
<1>4. /\ DOMAIN store' = (DOMAIN store \ (own \X {Intent})) \cup (own \X {ts})
      /\ \A e \in own \X {ts} : store'[e] = Entry(t, ts)
      /\ \A e \in DOMAIN store' : e \notin own \X {ts} => store'[e] = store[e]
  BY <1>1, <1>3 DEF ResolveIntents, PutEntries, DeleteIntents, Restrict
<1> QED
  BY <1>2, <1>4 DEF ts, own

\* The entries of a transaction whose commit has not panicked are intents while it is
\* pending, and versions once it has committed.
EntriesFollowStatus ==
    \A t \in Txns \ panicked : \A e \in DOMAIN store : store[e].txn = t =>
        status[t] = IF e[2] = Intent THEN "PENDING" ELSE "COMMITTED"

\* The invariant says so.
LEMMA InvEntriesFollow ==
    ASSUME IInv
    PROVE  EntriesFollowStatus
<1> SUFFICES ASSUME NEW t \in Txns \ panicked, NEW e \in DOMAIN store,
                    store[e].txn = t
             PROVE  status[t] = IF e[2] = Intent THEN "PENDING" ELSE "COMMITTED"
  BY DEF EntriesFollowStatus
<1>1. CASE e[2] = Intent
  <2>1. e[1] \in Keys /\ e = <<e[1], Intent>>
    BY <1>1 DEF IInv, StoreTypes
  <2> QED
    BY <1>1, <2>1 DEF IInv, IntentInv
<1>2. CASE e[2] # Intent
  BY <1>2, NoneAssumption DEF IInv, VersionInv
<1> QED
  BY <1>1, <1>2

\* Only CommitTxnRequest makes a record committed, but for the commit that panics.
LEMMA OnlyCommitCommits ==
    ASSUME IInv, [Next]_vars, NEW t \in Txns \ panicked',
           status[t] = "PENDING", status'[t] = "COMMITTED"
    PROVE  Commit(t)
<1>1. ASSUME NEW u \in Txns, Begin(u) \/ Abort(u) \/ VictimAborts(u)
      PROVE  FALSE
  BY <1>1 DEF Begin, Abort, VictimAborts, Aborted, IInv, Types
<1>2. ASSUME NEW u \in Txns, CommitPanics(u)
      PROVE  FALSE
  BY <1>2 DEF CommitPanics, IInv, Types
<1>3. ASSUME NEW u \in Txns, Commit(u)
      PROVE  u = t
  BY <1>3 DEF Commit, IInv, Types
<1>4. ASSUME UNCHANGED status
      PROVE  FALSE
  BY <1>4
<1> QED
  BY <1>1, <1>2, <1>3, <1>4 DEF Next, vars, txnVars, Get, GetMeetsIntent, Put,
     PutWaits, CommitFails, AbortFindsCommitted

\* A commit makes versions of the transaction's own, of every key that it has written
\* and at its write timestamp; intents are those of pending transactions, and aborts
\* leave no trace, through failed refreshes, deadlocks and the panics of other commits.
THEOREM CommitsAreAtomic == Spec => AllOrNothing
<1>1. ASSUME IInv, [Next]_vars, NEW t \in Txns \ panicked',
             status[t] = "PENDING", status'[t] = "COMMITTED",
             NEW k \in Range(lock_spans[t])
      PROVE  \E e \in DOMAIN store' :
                e = <<k, write_timestamp[t]>> /\ store'[e].txn = t
  <2>1. Commit(t)
    BY <1>1, OnlyCommitCommits
  <2> DEFINE e == <<k, write_timestamp[t]>>
  <2>2. e \in Range(lock_spans[t]) \X {write_timestamp[t]}
    OBVIOUS
  <2>3. e \in DOMAIN store' /\ store'[e] = Entry(t, write_timestamp[t])
    BY <1>1, <2>1, <2>2, CommitEntries
  <2> QED
    BY <2>3 DEF Entry
<1>2. IInv => EntriesFollowStatus
  BY InvEntriesFollow
<1>3. IInv /\ EntriesFollowStatus' /\ [Next]_vars =>
        [\A t \in Txns \ panicked' :
            /\ status[t] = "PENDING" /\ status'[t] = "COMMITTED" =>
                  \A k \in Range(lock_spans[t]) :
                     \E e \in DOMAIN store' :
                        e = <<k, write_timestamp[t]>> /\ store'[e].txn = t
            /\ \A e \in DOMAIN store' : store'[e].txn = t =>
                  status'[t] = IF e[2] = Intent THEN "PENDING" ELSE "COMMITTED"]_vars
  BY <1>1 DEF EntriesFollowStatus
<1> QED
  BY <1>2, <1>3, DatabaseInvariant, PTL DEF Spec, AllOrNothing
-----------------------------------------------------------------------------
\* A write makes intent and lock together; the other keys keep theirs.
LEMMA PutLocks ==
    ASSUME IInv, IntentsLocked, NEW t \in Txns, Put(t)
    PROVE  IntentsLocked'
<1>1. Request(t).key \in Keys
  BY WriterIsPending DEF Put
<1>2. PICK k, ts :
         /\ k \in Keys
         /\ store' = PutIntent(store, k, t, ts)
         /\ locks' = locks \cup {k}
         /\ lock_holder' = [lock_holder EXCEPT ![k] = t]
         /\ holder_timestamp' = [holder_timestamp EXCEPT ![k] = ts]
  BY <1>1 DEF Put
<1>3. /\ DOMAIN store' = DOMAIN store \cup {<<k, Intent>>}
      /\ store'[<<k, Intent>>] = Entry(t, ts)
      /\ \A e \in DOMAIN store : e # <<k, Intent>> => store'[e] = store[e]
  BY <1>2 DEF PutIntent, PutEntries
<1>4. IntentLocked(k)'
  <2>1. lock_holder'[k] = t /\ holder_timestamp'[k] = ts /\ k \in locks'
    BY <1>2 DEF IInv, Types
  <2> QED
    BY <1>3, <2>1 DEF IntentLocked, Entry
<1>5. ASSUME NEW l \in Keys, l # k PROVE IntentLocked(l)'
  <2>1. /\ lock_holder'[l] = lock_holder[l]
        /\ holder_timestamp'[l] = holder_timestamp[l]
        /\ locks \subseteq locks'
    BY <1>2, <1>5 DEF IInv, Types
  <2>2. <<l, Intent>> # <<k, Intent>>
    BY <1>5
  <2>3. <<l, Intent>> \in DOMAIN store' =>
           /\ <<l, Intent>> \in DOMAIN store
           /\ store'[<<l, Intent>>] = store[<<l, Intent>>]
    BY <1>3, <2>2
  <2> QED
    BY <2>1, <2>3 DEF IntentsLocked, IntentLocked
<1> QED
  BY <1>4, <1>5 DEF IntentsLocked

\* A commit or an abort frees the locks of its transaction, whose intents are
\* gone, and no others.
LEMMA EndLocks ==
    ASSUME IInv, IntentsLocked, NEW t \in Txns, NEW ts \in Nat,
           ReleaseLocks(t, ts),
           \A k \in Keys : <<k, Intent>> \in DOMAIN store' =>
              /\ k \notin Range(lock_spans[t])
              /\ <<k, Intent>> \in DOMAIN store
              /\ store'[<<k, Intent>>] = store[<<k, Intent>>]
    PROVE  IntentsLocked'
<1>1. /\ UNCHANGED <<locks, holder_timestamp>>
      /\ \A k \in Keys : lock_holder'[k] =
            IF k \in Range(lock_spans[t]) /\ lock_holder[k] = t
            THEN None ELSE lock_holder[k]
  BY ReleaseFacts DEF IInv
<1> QED
  BY <1>1 DEF IntentsLocked, IntentLocked

\* CommitTxn
LEMMA CommitLocks ==
    ASSUME IInv, IntentsLocked, NEW t \in Txns, Commit(t)
    PROVE  IntentsLocked'
<1> DEFINE ts == write_timestamp[t]
           own == Range(lock_spans[t])
<1>1. /\ status[t] = "PENDING"
      /\ store' = ResolveIntents(store, own, t, ts)
      /\ ReleaseLocks(t, ts)
  BY DEF Commit, AtCommit
<1>2. ts \in Nat /\ ts # Intent
  BY <1>1 DEF IInv, Types, BeginInv, Intent
<1>3. Resolvable(store, own, t) = own
  BY <1>1 DEF IInv, SpanInv, Resolvable
<1> HIDE DEF ts, own
<1>4. /\ DOMAIN store' = (DOMAIN store \ (own \X {Intent})) \cup (own \X {ts})
      /\ \A e \in DOMAIN store' : e \notin own \X {ts} => store'[e] = store[e]
  BY <1>1, <1>3 DEF ResolveIntents, PutEntries, DeleteIntents, Restrict
<1>5. ASSUME NEW k \in Keys, <<k, Intent>> \in DOMAIN store'
      PROVE  /\ k \notin own
             /\ <<k, Intent>> \in DOMAIN store
             /\ store'[<<k, Intent>>] = store[<<k, Intent>>]
  <2>1. <<k, Intent>> \notin own \X {ts}
    BY <1>2
  <2> QED
    BY <1>4, <1>5, <2>1
<1> QED
  BY <1>1, <1>2, <1>5, EndLocks DEF own

\* AbortTxn, by the client or for a deadlock
LEMMA AbortedLocks ==
    ASSUME IInv, IntentsLocked, NEW t \in Txns, Aborted(t)
    PROVE  IntentsLocked'
<1>1. /\ store' = DeleteIntents(store, Range(lock_spans[t]))
      /\ ReleaseLocks(t, 0)
  BY DEF Aborted
<1>2. /\ DOMAIN store' = DOMAIN store \ (Range(lock_spans[t]) \X {Intent})
      /\ \A e \in DOMAIN store' : store'[e] = store[e]
  BY <1>1 DEF DeleteIntents, Restrict
<1>3. \A k \in Keys : <<k, Intent>> \in DOMAIN store' =>
         /\ k \notin Range(lock_spans[t])
         /\ <<k, Intent>> \in DOMAIN store
         /\ store'[<<k, Intent>>] = store[<<k, Intent>>]
  BY <1>2
<1> QED
  BY <1>1, <1>3, EndLocks

\* Every step keeps the intents locked.
LEMMA IntentsStayLocked ==
    ASSUME IInv, IntentsLocked, [Next]_vars
    PROVE  IntentsLocked'
<1>1. ASSUME UNCHANGED <<store, locks, lock_holder, holder_timestamp>>
      PROVE  IntentsLocked'
  BY <1>1 DEF IntentsLocked, IntentLocked
<1>2. CASE UNCHANGED vars
  BY <1>1, <1>2 DEF vars, lockVars
<1>3. ASSUME NEW t \in Txns,
             \/ Begin(t) \/ Get(t) \/ GetMeetsIntent(t) \/ PutWaits(t)
             \/ CommitFails(t) \/ AbortFindsCommitted(t)
      PROVE  IntentsLocked'
  BY <1>1, <1>3 DEF Begin, Get, GetMeetsIntent, PutWaits, CommitFails,
                    AbortFindsCommitted, lockVars
<1>4. ASSUME NEW t \in Txns, CommitPanics(t)
      PROVE  IntentsLocked'
  <2>1. /\ store' = DeleteIntents(store, {Head(lock_spans[t])})
        /\ UNCHANGED <<locks, lock_holder, holder_timestamp>>
    BY <1>4 DEF CommitPanics, lockVars
  <2>2. \A e \in DOMAIN store' : e \in DOMAIN store /\ store'[e] = store[e]
    BY <2>1 DEF DeleteIntents, Restrict
  <2> QED
    BY <2>1, <2>2 DEF IntentsLocked, IntentLocked
<1>5. ASSUME NEW t \in Txns, Abort(t) \/ VictimAborts(t)
      PROVE  IntentsLocked'
  BY <1>5, AbortedLocks DEF Abort, VictimAborts
<1> QED
  BY <1>2, <1>3, <1>4, <1>5, PutLocks, CommitLocks DEF Next

\* The lock table and the store agree on who has written what and when, through
\* waits, failed refreshes, deadlocks and panics.
THEOREM LocksAreIntents == Spec => []LocksMatchIntents
<1>1. Init => IntentsLocked
  <2> SUFFICES ASSUME Init PROVE IntentsLocked
    OBVIOUS
  <2>1. \A e \in DOMAIN store : e[2] # Intent
    BY DEF Init, Intent
  <2> QED
    BY <2>1 DEF IntentsLocked, IntentLocked
<1>2. IInv /\ IntentsLocked /\ [Next]_vars => IntentsLocked'
  BY IntentsStayLocked
<1>3. ASSUME IInv, IntentsLocked PROVE LocksMatchIntents
  <2>1. ASSUME NEW k \in Keys, lock_holder[k] \notin panicked \cup {None}
        PROVE  <<k, Intent>> \in DOMAIN store
    <3>1. /\ lock_holder[k] \in Txns
          /\ status[lock_holder[k]] = "PENDING"
          /\ k \in Range(lock_spans[lock_holder[k]])
      BY <1>3, <2>1 DEF IInv, Types, HolderInv
    <3> QED
      BY <1>3, <3>1 DEF IInv, SpanInv
  <2> QED
    BY <1>3, <2>1 DEF IntentsLocked, IntentLocked, LocksMatchIntents
<1> QED
  BY <1>1, <1>2, <1>3, DatabaseInvariant, PTL DEF Spec
-----------------------------------------------------------------------------
(* The refinement of Transactions.                                         *)

\* Transactions begin after all those that have begun before.
ClockInv == \A t \in Txns : read_timestamp[t] <= clock

\* The status that Transactions sees
Outcomes == [t \in Txns |-> IF t \in panicked THEN "ABORTED" ELSE status[t]]

\* The writes that Transactions sees
Written == [t \in Txns |-> Range(lock_spans[t])]

\* An uncommitted write of Transactions is an intent of a transaction whose commit
\* has not panicked.
LEMMA WriteIsIntent ==
    ASSUME IInv, NEW t \in Txns, NEW k \in Keys
    PROVE  /\ Promise!Writes(t, k) <=>
                 status[t] = "PENDING" /\ k \in Range(lock_spans[t])
           /\ Promise!Writes(t, k) <=>
                 /\ t \notin panicked
                 /\ <<k, Intent>> \in DOMAIN store
                 /\ store[<<k, Intent>>].txn = t
<1>1. Promise!Writes(t, k) <=>
         status[t] = "PENDING" /\ k \in Range(lock_spans[t])
  <2>1. t \in panicked => status[t] # "PENDING"
    BY DEF IInv, PanickedInv
  <2> QED
    BY <2>1 DEF Promise!Writes
<1>2. ASSUME status[t] = "PENDING", k \in Range(lock_spans[t])
      PROVE  /\ t \notin panicked
             /\ <<k, Intent>> \in DOMAIN store
             /\ store[<<k, Intent>>].txn = t
  BY <1>2 DEF IInv, PanickedInv, SpanInv
<1>3. ASSUME t \notin panicked,
             <<k, Intent>> \in DOMAIN store,
             store[<<k, Intent>>].txn = t
      PROVE  status[t] = "PENDING" /\ k \in Range(lock_spans[t])
  BY <1>3 DEF IInv, IntentInv
<1> QED
  BY <1>1, <1>2, <1>3

\* The latest version of a key is the same for both.
LEMMA LatestIsLatest ==
    ASSUME NEW k, NEW ts
    PROVE  Promise!Latest(k, ts) = LatestVersion(store, k, ts)
<1>1. DOMAIN CommittedVersions = {f \in DOMAIN store : f[2] # Intent}
  BY DEF CommittedVersions
<1>2. {e \in DOMAIN CommittedVersions : e[1] = k /\ e[2] <= ts} =
         {e \in DOMAIN store : e[1] = k /\ e[2] # Intent /\ e[2] <= ts}
  BY <1>1
<1> QED
  BY <1>2 DEF Promise!Latest, LatestVersion

\* mvcc_get may be asked for the read of a transaction that has begun.
LEMMA ReaderFacts ==
    ASSUME IInv, NEW t \in Txns, NEW k \in Keys, status[t] # "NEW"
    PROVE  /\ IsStore(store) /\ k \in Nat /\ read_timestamp[t] \in Nat \ {0}
           /\ \A e \in DOMAIN store : e \in Keys \X Nat
<1>1. IsStore(store) /\ \A e \in DOMAIN store : e \in Keys \X Nat
  BY KeysAssumption DEF IInv, StoreTypes, IsStore, MVCCKeys
<1>2. read_timestamp[t] \in Nat /\ read_timestamp[t] > 0
  BY DEF IInv, BeginInv, Types
<1> QED
  BY <1>1, <1>2, KeysAssumption

\* GetRequest gives this value.
GivenValue(t, res) == {<<store[e].txn, e[1]>> : e \in GetValue(t, res)}

\* The key is not behind all keys of the store: GetRequest gives the own write, or
\* the latest version, or, if another transaction has an intent above the read
\* timestamp, nothing.
LEMMA ReadFindsKey ==
    ASSUME IInv, NEW t \in Txns \ panicked, NEW k \in Keys, status[t] # "NEW",
           NEW g \in DOMAIN store, g[1] >= k,
           NEW res, res = MvccGet(store, k, read_timestamp[t]),
           \A e \in res.intent : ~Conflicts(t, e)
    PROVE  \/ GivenValue(t, res) = Promise!Value(t, k)
           \/ /\ GivenValue(t, res) = {}
              /\ \E e \in DOMAIN store : /\ e = <<k, Intent>> /\ store[e].txn # t
                                       /\ store[e].ts > read_timestamp[t]
<1> DEFINE i == <<k, Intent>>
           rt == read_timestamp[t]
<1>1. /\ IsStore(store) /\ k \in Nat /\ rt \in Nat \ {0}
      /\ \A e \in DOMAIN store : e \in Keys \X Nat
  BY ReaderFacts
<1>2. res = IF i \in DOMAIN store THEN [NoResult EXCEPT !.intent = {i}]
            ELSE [NoResult EXCEPT !.value = LatestVersion(store, k, rt)]
  BY <1>1, MvccGetIsLatest DEF GetReturnsLatest
<1>3. CASE i \in DOMAIN store /\ store[i].txn = t
  <2>1. Promise!Writes(t, k)
    BY <1>3, WriteIsIntent
  <2>2. res.value = {} /\ res.intent = {i}
    BY <1>2, <1>3 DEF NoResult
  <2>3. GetValue(t, res) = {i}
    BY <1>3, <2>2 DEF GetValue
  <2>4. GivenValue(t, res) = {<<t, k>>}
    BY <1>3, <2>3 DEF GivenValue
  <2> QED
    BY <2>1, <2>4 DEF Promise!Value
<1>4. CASE i \in DOMAIN store /\ store[i].txn # t
  <2>1. res.value = {} /\ res.intent = {i}
    BY <1>2, <1>4 DEF NoResult
  <2>2. GivenValue(t, res) = {}
    BY <1>4, <2>1 DEF GetValue, GivenValue
  <2>3. store[i].ts \in Nat /\ ~(store[i].ts <= rt)
    BY <1>4, <2>1 DEF Conflicts, IInv, StoreTypes, Entries
  <2>4. store[i].ts > rt
    BY <1>1, <2>3
  <2> QED
    BY <1>4, <2>2, <2>4
<1>5. CASE i \notin DOMAIN store
  <2> DEFINE L == LatestVersion(store, k, rt)
  <2>1. ~Promise!Writes(t, k)
    BY <1>5, WriteIsIntent
  <2>2. res.value = L /\ res.intent = {}
    BY <1>2, <1>5 DEF NoResult
  <2>3. GetValue(t, res) = L
    BY <2>2 DEF GetValue
  <2>4. \A e \in L : e[1] = k /\ CommittedVersions[e] = store[e].txn
    BY DEF LatestVersion, CommittedVersions
  <2>5. Promise!Latest(k, rt) = L
    BY LatestIsLatest
  <2> HIDE DEF L
  <2>6. GivenValue(t, res) = {<<CommittedVersions[e], k>> : e \in L}
    BY <2>3, <2>4 DEF GivenValue
  <2>7. Promise!Value(t, k) = {<<CommittedVersions[e], k>> : e \in Promise!Latest(k, rt)}
    BY <2>1 DEF Promise!Value
  <2> QED
    BY <2>5, <2>6, <2>7
<1> QED
  BY <1>3, <1>4, <1>5

\* The key is behind all keys of the store: GetRequest gives nothing, which is
\* right, or the value of the final entry.
LEMMA ReadPassesEnd ==
    ASSUME IInv, NEW t \in Txns \ panicked, NEW k \in Keys, status[t] # "NEW",
           \A e \in DOMAIN store : ~(e[1] >= k),
           NEW res, res = MvccGet(store, k, read_timestamp[t])
    PROVE  LET f == Final(DOMAIN store)
           IN  \/ GivenValue(t, res) = Promise!Value(t, k)
               \/ /\ DOMAIN store # {} /\ f[1] < k
                  /\ f[2] = Intent => store[f].txn = t
                  /\ GivenValue(t, res) = {<<store[f].txn, f[1]>>}
<1> DEFINE f == Final(DOMAIN store)
           rt == read_timestamp[t]
<1>1. /\ IsStore(store) /\ k \in Nat /\ rt \in Nat \ {0}
      /\ \A e \in DOMAIN store : e \in Keys \X Nat
      /\ \A e \in DOMAIN store : e[1] \in Nat
  BY ReaderFacts, KeysAssumption
<1>2. \A e \in DOMAIN store : e[1] < k /\ e[1] # k
  BY <1>1
<1>3. Promise!Value(t, k) = {}
  <2>1. ~Promise!Writes(t, k)
    <3>1. <<k, Intent>>[1] = k
      OBVIOUS
    <3> QED
      BY <1>2, <3>1, WriteIsIntent
  <2>2. LatestVersion(store, k, rt) = {}
    BY <1>2 DEF LatestVersion
  <2> QED
    BY <2>1, <2>2, LatestIsLatest DEF Promise!Value
<1> HIDE DEF f, rt
<1>4. CASE res.value = {} /\ res.intent = {}
  BY <1>3, <1>4 DEF GetValue, GivenValue
<1>5. ASSUME DOMAIN store # {}, f \in DOMAIN store,
             \/ res.value = {f} /\ res.intent = {} /\ f[2] # Intent
             \/ res.value = {} /\ res.intent = {f} /\ f[2] = Intent
      PROVE  \/ GivenValue(t, res) = {}
             \/ /\ f[2] = Intent => store[f].txn = t
                /\ GivenValue(t, res) = {<<store[f].txn, f[1]>>}
  <2>1. CASE res.value = {f} /\ res.intent = {} /\ f[2] # Intent
    <3>1. GetValue(t, res) = {f}
      BY <2>1 DEF GetValue
    <3> QED
      BY <2>1, <3>1 DEF GivenValue
  <2>2. CASE res.value = {} /\ res.intent = {f} /\ store[f].txn = t
    <3>1. GetValue(t, res) = {f}
      BY <2>2 DEF GetValue
    <3> QED
      BY <2>2, <3>1 DEF GivenValue
  <2>3. CASE res.value = {} /\ res.intent = {f} /\ store[f].txn # t
    BY <2>3 DEF GetValue, GivenValue
  <2> QED
    BY <1>5, <2>1, <2>2, <2>3
<1>6. \/ res.value = {} /\ res.intent = {}
      \/ /\ DOMAIN store # {} /\ f \in DOMAIN store
         /\ \/ res.value = {f} /\ res.intent = {} /\ f[2] # Intent
            \/ res.value = {} /\ res.intent = {f} /\ f[2] = Intent
  BY <1>1, <1>2, MvccGetPastEnd DEF f, rt
<1> QED
  BY <1>2, <1>3, <1>4, <1>5, <1>6 DEF f

\* GetRequest reads as Transactions says, but for two deviations.
LEMMA GetReads ==
    ASSUME IInv, NEW t \in Txns, Get(t)
    PROVE  \E k \in Keys : \/ Promise!Read(t, k)
                           \/ HidesVersion(t, k) \/ ReadsLastKey(t, k)
<1>1. PICK k : k = Request(t).key
  OBVIOUS
<1>2. status[t] # "NEW" /\ t \in Txns \ panicked /\ k \in Keys
  BY <1>1, RequestFacts DEF Get, At, IInv
<1>3. PICK res : /\ res = MvccGet(store, k, read_timestamp[t])
                 /\ \A e \in res.intent : ~Conflicts(t, e)
                 /\ reads' = [reads EXCEPT ![t] = @ \cup
                       {[key |-> k, value |-> {<<store[e].txn, e[1]>> :
                                                  e \in GetValue(t, res)}]}]
  BY Zenon, <1>1 DEF Get
<1>4. Promise!Answers(t, k, GivenValue(t, res))
  <2>1. Outcomes[t] # "NEW"
    BY <1>2 DEF Outcomes
  <2>2. UNCHANGED <<Outcomes, read_timestamp, Written, CommittedVersions>>
    BY DEF Get, Outcomes, Written, CommittedVersions
  <2> QED
    BY <1>3, <2>1, <2>2 DEF Promise!Answers, Outcomes, Written, GivenValue
<1> DEFINE f == Final(DOMAIN store)
<1>5. \/ GivenValue(t, res) = Promise!Value(t, k)
      \/ /\ GivenValue(t, res) = {}
         /\ \E e \in DOMAIN store : /\ e = <<k, Intent>> /\ store[e].txn # t
                                  /\ store[e].ts > read_timestamp[t]
      \/ /\ DOMAIN store # {} /\ f[1] < k
         /\ f[2] = Intent => store[f].txn = t
         /\ GivenValue(t, res) = {<<store[f].txn, f[1]>>}
  <2>1. CASE \E g \in DOMAIN store : g[1] >= k
    BY <1>2, <1>3, <2>1, ReadFindsKey
  <2>2. CASE \A g \in DOMAIN store : ~(g[1] >= k)
    BY <1>2, <1>3, <2>2, ReadPassesEnd
  <2> QED
    BY <2>1, <2>2
<1> QED
  BY <1>2, <1>4, <1>5 DEF Promise!Read, HidesVersion, ReadsLastKey

\* PutRequest writes a key that is nobody else's.
LEMMA PutWrites ==
    ASSUME IInv, NEW t \in Txns, Put(t)
    PROVE  \E k \in Keys : Promise!Write(t, k)
<1>1. PICK k : k = Request(t).key
  OBVIOUS
<1>2. /\ status[t] = "PENDING" /\ t \notin panicked
      /\ k \in Keys
      /\ \A v \in UncommittedValue(store, k) : v.txn = t
  BY <1>1, WriterIsPending DEF Put
<1>3. PICK ts : store' = PutIntent(store, k, t, ts)
  BY <1>1 DEF Put
<1>4. /\ lock_spans' = IF k \in Range(lock_spans[t]) THEN lock_spans
                       ELSE [lock_spans EXCEPT ![t] = Append(@, k)]
      /\ UNCHANGED <<status, panicked, read_timestamp, reads>>
  BY <1>1 DEF Put
<1>5. Outcomes[t] = "PENDING" /\ UNCHANGED Outcomes
  BY <1>2, <1>4 DEF Outcomes
<1>6. ASSUME NEW u \in Txns \ {t} PROVE ~Promise!Writes(u, k)
  <2> SUFFICES ASSUME Promise!Writes(u, k) PROVE FALSE
    OBVIOUS
  <2>1. <<k, Intent>> \in DOMAIN store /\ store[<<k, Intent>>].txn = u
    BY <1>2, WriteIsIntent
  <2>2. IsStore(store) /\ k \in Nat
    BY <1>2, ReaderFacts
  <2>3. UncommittedValue(store, k) = {store[<<k, Intent>>]}
    BY <2>1, <2>2, UncommittedValueIsIntent
  <2> QED
    BY <1>2, <2>1, <2>3
<1>7. Written' = [Written EXCEPT ![t] = @ \cup {k}]
  <2>1. lock_spans \in [Txns -> Seq(Keys)] /\ lock_spans[t] \in Seq(Keys)
    BY DEF IInv, Types
  <2>2. /\ Range(lock_spans'[t]) = Range(lock_spans[t]) \cup {k}
        /\ \A u \in Txns \ {t} : lock_spans'[u] = lock_spans[u]
    <3>1. CASE k \in Range(lock_spans[t])
      BY <1>4, <3>1
    <3>2. CASE k \notin Range(lock_spans[t])
      <4>1. Range(Append(lock_spans[t], k)) = Range(lock_spans[t]) \cup {k}
        BY <1>2, <2>1, AppendFacts
      <4> QED
        BY <1>4, <2>1, <3>2, <4>1
    <3> QED
      BY <3>1, <3>2
  <2> QED
    BY <2>2 DEF Written
<1>8. UNCHANGED CommittedVersions
  <2>1. /\ DOMAIN store' = DOMAIN store \cup {<<k, Intent>>}
        /\ \A e \in DOMAIN store : e # <<k, Intent>> => store'[e] = store[e]
    BY <1>3 DEF PutIntent, PutEntries
  <2>2. {e \in DOMAIN store' : e[2] # Intent} = {e \in DOMAIN store : e[2] # Intent}
    BY <2>1
  <2>3. \A e \in DOMAIN store : e[2] # Intent => store'[e] = store[e]
    BY <2>1
  <2> QED
    BY <2>2, <2>3 DEF CommittedVersions
<1> QED
  BY <1>2, <1>4, <1>5, <1>6, <1>7, <1>8 DEF Promise!Write, Outcomes, Written

\* CommitTxnRequest makes versions of all the writes at once, and unless a key has a
\* later version, as Transactions says.
LEMMA CommitInstalls ==
    ASSUME IInv, NEW t \in Txns, Commit(t)
    PROVE  Promise!Commit(t) \/ CommitsBehind(t)
<1>1. PICK own, ts : own = Range(lock_spans[t]) /\ ts = write_timestamp[t]
  OBVIOUS
<1>2. /\ status[t] = "PENDING" /\ t \notin panicked
      /\ status' = [status EXCEPT ![t] = "COMMITTED"]
      /\ UNCHANGED <<read_timestamp, lock_spans, panicked, reads>>
  BY DEF Commit, AtCommit, At
<1> DEFINE new == own \X {ts}
<1>3. /\ ts # Intent
      /\ DOMAIN store' = (DOMAIN store \ (own \X {Intent})) \cup new
      /\ \A e \in new : store'[e] = Entry(t, ts)
      /\ \A e \in DOMAIN store' : e \notin new => store'[e] = store[e]
  BY <1>1, CommitEntries
<1>4. /\ DOMAIN CommittedVersions' = DOMAIN CommittedVersions \cup new
      /\ \A e \in new : CommittedVersions'[e] = t
      /\ \A e \in DOMAIN CommittedVersions : e \notin new =>
            CommittedVersions'[e] = CommittedVersions[e]
  <2>1. \A e \in new : e[2] # Intent
    BY <1>3
  <2>2. \A e : e[2] # Intent => e \notin own \X {Intent}
    OBVIOUS
  <2> HIDE DEF new
  <2>3. DOMAIN CommittedVersions' = DOMAIN CommittedVersions \cup new
    BY <1>3, <2>1, <2>2 DEF CommittedVersions
  <2>4. \A e \in DOMAIN CommittedVersions' : CommittedVersions'[e] = store'[e].txn
    BY DEF CommittedVersions
  <2>5. \A e \in DOMAIN CommittedVersions : /\ CommittedVersions[e] = store[e].txn
                                            /\ e \in DOMAIN store /\ e[2] # Intent
    BY DEF CommittedVersions
  <2>6. Entry(t, ts).txn = t
    BY DEF Entry
  <2>7. ASSUME NEW e \in new PROVE CommittedVersions'[e] = t
    BY <1>3, <2>3, <2>4, <2>6
  <2>8. ASSUME NEW e \in DOMAIN CommittedVersions, e \notin new
        PROVE  CommittedVersions'[e] = CommittedVersions[e]
    BY <1>3, <2>2, <2>3, <2>4, <2>5, <2>8
  <2> QED
    BY <2>3, <2>7, <2>8
<1>5. CommittedVersions' = [e \in DOMAIN CommittedVersions \cup new |->
                               IF e \in new THEN t ELSE CommittedVersions[e]]
  <2>1. CommittedVersions' = [e \in DOMAIN CommittedVersions' |->
                                 CommittedVersions'[e]]
    BY DEF CommittedVersions
  <2> HIDE DEF new
  <2> QED
    BY <1>4, <2>1
<1>6. Written[t] = own /\ UNCHANGED Written
  BY <1>1, <1>2 DEF Written
<1>7. Outcomes[t] = "PENDING" /\ Outcomes' = [Outcomes EXCEPT ![t] = "COMMITTED"]
  BY <1>2 DEF Outcomes, IInv, Types
<1>8. ASSUME NEW n, own \X {n} = new PROVE Promise!CommitsAt(t, n)
  BY <1>2, <1>5, <1>6, <1>7, <1>8 DEF Promise!CommitsAt, Outcomes, Written
<1>9. CASE ~Promise!Passes(t, ts)
  <2>1. Promise!CommitsAt(t, ts) /\ ts = write_timestamp[t]
    BY <1>1, <1>8
  <2> HIDE DEF new
  <2>2. ~Promise!Passes(t, write_timestamp[t])
    BY <1>9, <2>1 DEF Promise!Passes
  <2>3. Promise!CommitsAt(t, write_timestamp[t])
    BY <2>1 DEF Promise!CommitsAt
  <2> QED
    BY <2>2, <2>3 DEF CommitsBehind
<1>10. CASE own = {}
  <2>1. own \X {0} = new
    BY <1>10
  <2>2. Promise!CommitsAt(t, 0)
    BY <1>8, <2>1
  <2>3. Promise!Passes(t, 0)
    BY <1>6, <1>10 DEF Promise!Passes, Written
  <2> QED
    BY <2>2, <2>3 DEF Promise!Commit
<1>11. CASE Promise!Passes(t, ts) /\ own # {}
  <2>1. PICK k \in own : TRUE
    BY <1>11
  <2>2. <<k, ts>> \in DOMAIN CommittedVersions' /\ <<k, ts>>[2] = ts
    BY <1>4, <2>1
  <2>3. ts \in {0} \cup {e[2] : e \in DOMAIN CommittedVersions'}
    BY <2>2
  <2> QED
    BY <1>8, <1>11, <2>3 DEF Promise!Commit
<1> QED
  BY <1>9, <1>10, <1>11

\* Deleting intents leaves the versions alone.
LEMMA VersionsStay ==
    ASSUME NEW S, store' = DeleteIntents(store, S)
    PROVE  UNCHANGED CommittedVersions
<1>1. /\ DOMAIN store' = DOMAIN store \ (S \X {Intent})
      /\ \A e \in DOMAIN store' : store'[e] = store[e]
  BY DEF DeleteIntents, Restrict
<1>2. {e \in DOMAIN store' : e[2] # Intent} = {e \in DOMAIN store : e[2] # Intent}
  BY <1>1
<1>3. \A e \in DOMAIN store : e[2] # Intent => store'[e] = store[e]
  BY <1>1, <1>2
<1> QED
  BY <1>2, <1>3 DEF CommittedVersions

\* An abort, and a commit that panics, have no effect.
LEMMA EndFails ==
    ASSUME IInv, NEW t \in Txns,
           Abort(t) \/ VictimAborts(t) \/ CommitPanics(t)
    PROVE  Promise!Abort(t)
<1>1. UNCHANGED <<read_timestamp, lock_spans, reads, CommittedVersions>>
  BY VersionsStay DEF Abort, VictimAborts, Aborted, CommitPanics
<1>2. status[t] = "PENDING" /\ t \in Txns \ panicked
  BY VictimIsPending DEF Abort, CommitPanics, AtCommit, At, VictimAborts
<1>3. Outcomes[t] = "PENDING" /\ UNCHANGED Written
  BY <1>1, <1>2 DEF Outcomes, Written
<1>4. Outcomes' = [Outcomes EXCEPT ![t] = "ABORTED"]
  <2>1. CASE Abort(t) \/ VictimAborts(t)
    <3>1. status' = [status EXCEPT ![t] = "ABORTED"] /\ UNCHANGED panicked
      BY <2>1 DEF Abort, VictimAborts, Aborted
    <3> QED
      BY <1>2, <3>1 DEF Outcomes, IInv, Types
  <2>2. CASE CommitPanics(t)
    <3>1. /\ status' = [status EXCEPT ![t] = "COMMITTED"]
          /\ panicked' = panicked \cup {t}
      BY <2>2 DEF CommitPanics
    <3> QED
      BY <1>2, <3>1 DEF Outcomes, IInv, Types
  <2> QED
    BY <2>1, <2>2
<1> QED
  BY <1>1, <1>3, <1>4 DEF Promise!Abort, Outcomes, Written

\* A transaction begins after the others.
LEMMA BeginBegins ==
    ASSUME IInv, ClockInv, NEW t \in Txns, Begin(t)
    PROVE  Promise!Begin(t)
<1>1. /\ status[t] = "NEW"
      /\ status' = [status EXCEPT ![t] = "PENDING"]
      /\ clock' = clock + 1
      /\ read_timestamp' = [read_timestamp EXCEPT ![t] = clock']
      /\ UNCHANGED <<lock_spans, store, panicked, reads>>
  BY DEF Begin
<1>2. t \notin panicked
  BY <1>1 DEF IInv, PanickedInv
<1>3. Outcomes[t] = "NEW" /\ Outcomes' = [Outcomes EXCEPT ![t] = "PENDING"]
  BY <1>1, <1>2 DEF Outcomes, IInv, Types
<1>4. UNCHANGED <<Written, CommittedVersions>>
  BY <1>1 DEF Written, CommittedVersions
<1>5. /\ read_timestamp'[t] = clock'
      /\ \A u \in Txns : read_timestamp[u] < clock'
  BY <1>1 DEF ClockInv, IInv, Types
<1>6. \E now \in {read_timestamp'[t]} :
         /\ \A u \in Txns : read_timestamp[u] < now
         /\ read_timestamp' = [read_timestamp EXCEPT ![t] = now]
  BY <1>1, <1>5
<1> QED
  BY <1>1, <1>3, <1>4, <1>6 DEF Promise!Begin, Outcomes, Written

\* No read timestamp is ahead of the clock.
LEMMA ClockStep ==
    ASSUME IInv, ClockInv, [Next]_vars
    PROVE  ClockInv'
<1>1. ASSUME NEW t \in Txns, Begin(t) PROVE ClockInv'
  BY <1>1 DEF Begin, ClockInv, IInv, Types
<1>2. CASE UNCHANGED <<clock, read_timestamp>>
  BY <1>2 DEF ClockInv
<1> QED
  BY <1>1, <1>2 DEF Next, vars, txnVars, Get, GetMeetsIntent, Put, PutWaits,
                    Commit, CommitFails, CommitPanics, Abort,
                    AbortFindsCommitted, VictimAborts

\* A step of Transactions, or one of the deviations
PromisedStep ==
    \/ Promise!Next
    \/ \E t \in Txns :
          \/ CommitsBehind(t)
          \/ \E k \in Keys : HidesVersion(t, k) \/ ReadsLastKey(t, k)

\* Every step is one of Transactions, a deviation, or leaves its variables alone.
LEMMA StepRefines ==
    ASSUME IInv, ClockInv, [Next]_vars
    PROVE  [PromisedStep]_(Promise!vars)
<1>1. ASSUME UNCHANGED <<status, read_timestamp, lock_spans, store, panicked,
                         reads>>
      PROVE  UNCHANGED Promise!vars
  BY <1>1 DEF Promise!vars, CommittedVersions
<1>2. CASE UNCHANGED vars
  BY <1>1, <1>2 DEF vars, txnVars
<1>3. ASSUME NEW t \in Txns,
             \/ GetMeetsIntent(t) \/ PutWaits(t)
             \/ CommitFails(t) \/ AbortFindsCommitted(t)
      PROVE  UNCHANGED Promise!vars
  BY <1>1, <1>3 DEF GetMeetsIntent, PutWaits, CommitFails,
                    AbortFindsCommitted, txnVars
<1>4. ASSUME NEW t \in Txns, Get(t) \/ Put(t)
      PROVE  PromisedStep
  BY <1>4, GetReads, PutWrites DEF PromisedStep, Promise!Next
<1>5. ASSUME NEW t \in Txns,
             \/ Begin(t) \/ Commit(t)
             \/ Abort(t) \/ VictimAborts(t) \/ CommitPanics(t)
      PROVE  PromisedStep
  BY <1>5, BeginBegins, CommitInstalls, EndFails DEF PromisedStep, Promise!Next
<1> QED
  BY <1>2, <1>3, <1>4, <1>5 DEF Next

\* But for reads that an intent above their timestamp hides the versions from, reads
\* past the end of the store, and commits behind a version of one of their keys, the
\* database implements Transactions: its clients see atomic commits, writes that
\* are private until then, one writer for each key, and reads of the latest version
\* or of the own write.
THEOREM DatabaseKeepsPromises == Spec => KeepsPromises
<1>1. Init => Promise!Init
  <2> SUFFICES ASSUME Init PROVE Promise!Init
    OBVIOUS
  <2>1. PICK b \in Beginnings :
           store = [e \in b[1] \X {1} |-> Entry(None, 1)] /\ b[1] \subseteq Keys
    BY BeginningsAssumption DEF Init
  <2>2. \A e \in DOMAIN CommittedVersions :
           e[1] \in Keys /\ CommittedVersions[e] = None
    BY <2>1 DEF CommittedVersions, Entry
  <2>3. /\ status = [t \in Txns |-> "NEW"] /\ panicked = {}
        /\ read_timestamp = [t \in Txns |-> 0]
        /\ lock_spans = [t \in Txns |-> <<>>]
        /\ reads = [t \in Txns |-> {}]
    BY DEF Init
  <2>4. Outcomes = [t \in Txns |-> "NEW"] /\ Written = [t \in Txns |-> {}]
    BY <2>3 DEF Outcomes, Written, Range
  <2> QED
    BY <2>2, <2>3, <2>4 DEF Promise!Init, Outcomes, Written
<1>2. Init => ClockInv
  BY BeginningsAssumption DEF Init, ClockInv
<1>3. IInv /\ ClockInv /\ [Next]_vars => ClockInv'
  BY ClockStep
<1>4. IInv /\ ClockInv /\ [Next]_vars => [PromisedStep]_(Promise!vars)
  BY StepRefines
<1> QED
  BY <1>1, <1>2, <1>3, <1>4, DatabaseInvariant, PTL
     DEF Spec, KeepsPromises, PromisedStep
=============================================================================
