-------------------------- MODULE LatchManagerProofs --------------------------
(***************************************************************************)
(* Mutual exclusion of the latch manager, and that it implements Latches,  *)
(* for any number of requests, any keys and any spans.                     *)
(***************************************************************************)
EXTENDS LatchManager, TLAPS

\* What TypeOK and SpanSetsAssumption say about the spans of a client.
LEMMA SpansType ==
    ASSUME TypeOK, NEW c \in Clients
    PROVE  /\ spans[c] \in Seq(Keys)
           /\ Len(spans[c]) \in Nat
           /\ DOMAIN spans[c] = 1..Len(spans[c])
           /\ \A i, j \in 1..Len(spans[c]) : spans[c][i] = spans[c][j] => i = j
<1>1. spans[c] \in SpanSets \cup {<<>>}
  BY DEF TypeOK
<1>2. CASE spans[c] = <<>>
  BY <1>2
<1>3. CASE spans[c] \in SpanSets
  BY <1>3, SpanSetsAssumption DEF IsInjective
<1> QED
  BY <1>1, <1>2, <1>3

\* A client that has inserted all its spans and deleted none owns them all.
LEMMA OwnsAllSpans ==
    ASSUME TypeOK, NEW c \in Clients, freed[c] = 0, taken[c] = Len(spans[c])
    PROVE  Range(spans[c]) = Owned(c)
<1>1. DOMAIN spans[c] = 1..Len(spans[c])
  BY SpansType
<1>2. (freed[c] + 1)..taken[c] = DOMAIN spans[c]
  BY <1>1
<1> QED
  BY <1>2 DEF Owned, Range

\* The inductive invariant: nobody owns a key that is not in the tree, so an
\* insert that succeeds takes a key nobody owns.
THEOREM LatchInvariant == Spec => []IInv
<1>1. Init => IInv
  <2> SUFFICES ASSUME Init PROVE IInv
    OBVIOUS
  <2>0. \A c \in Clients :
          /\ pc[c] = "idle" /\ spans[c] = <<>>
          /\ taken[c] = 0 /\ freed[c] = 0 /\ Len(spans[c]) = 0
    BY DEF Init
  <2>1. TypeOK /\ Progress
    <3>1. pc \in [Clients -> PCs]
      BY DEF Init, PCs
    <3>2. spans \in [Clients -> SpanSets \cup {<<>>}]
      BY Zenon DEF Init
    <3>3. /\ taken \in [Clients -> Nat] /\ freed \in [Clients -> Nat]
          /\ \A c \in Clients : freed[c] <= taken[c] /\ taken[c] <= Len(spans[c])
      BY <2>0 DEF Init
    <3>4. tree \subseteq Keys /\ poisoned \in BOOLEAN
      BY DEF Init
    <3>5. Progress
      BY <2>0 DEF Progress
    <3> QED
      BY <3>1, <3>2, <3>3, <3>4, <3>5 DEF TypeOK
  <2>2. \A c \in Clients : Owned(c) = {}
    BY DEF Init, Owned
  <2> QED
    BY <2>1, <2>2 DEF Init, IInv, TreeIsOwned, OwnersExclusive
<1>2. IInv /\ [Next]_vars => IInv'
  <2> SUFFICES ASSUME IInv, [Next]_vars PROVE IInv'
    OBVIOUS
  <2> USE DEF IInv
  <2>1. ASSUME NEW c \in Clients, Request(c) PROVE IInv'
    <3>1. TypeOK' /\ Progress'
      BY <2>1 DEF Request, TypeOK, Progress, PCs
    <3>2. \A d \in Clients : Owned(d)' = Owned(d)
      <4> SUFFICES ASSUME NEW d \in Clients PROVE Owned(d)' = Owned(d)
        OBVIOUS
      <4>1. CASE d = c
        BY <4>1, <2>1 DEF Request, Owned, TypeOK, Progress
      <4>2. CASE d # c
        BY <4>2, <2>1 DEF Request, Owned, TypeOK
      <4> QED
        BY <4>1, <4>2
    <3> QED
      BY <2>1, <3>1, <3>2 DEF Request, TreeIsOwned, OwnersExclusive
  <2>2. ASSUME NEW c \in Clients, Insert(c) PROVE IInv'
    <3> DEFINE k == NextKey(c)
    <3>1. k \in Keys /\ k \notin tree /\ tree' = tree \cup {k}
      BY <2>2, SpansType DEF Insert, AtInsert, NextKey, TypeOK
    <3>2. TypeOK' /\ Progress'
      BY <2>2, <3>1, SpansType DEF Insert, AtInsert, TypeOK, Progress, PCs
    <3>3. Owned(c)' = Owned(c) \cup {k}
      <4>1. /\ taken[c] \in Nat /\ freed[c] = 0 /\ k = spans[c][taken[c] + 1]
            /\ taken'[c] = taken[c] + 1 /\ freed'[c] = freed[c]
            /\ spans'[c] = spans[c]
        BY <2>2 DEF Insert, AtInsert, NextKey, TypeOK, Progress
      <4>2. (freed[c] + 1)..taken'[c]
               = ((freed[c] + 1)..taken[c]) \cup {taken[c] + 1}
        BY <4>1
      <4> QED
        BY <4>1, <4>2 DEF Owned
    <3>4. \A d \in Clients \ {c} : Owned(d)' = Owned(d)
      BY <2>2 DEF Insert, Owned, TypeOK
    <3>5. \A d \in Clients : k \notin Owned(d)
      BY <3>1 DEF TreeIsOwned
    <3>6. TreeIsOwned'
      BY <3>1, <3>3, <3>4 DEF TreeIsOwned
    <3>7. OwnersExclusive'
      BY <3>3, <3>4, <3>5 DEF OwnersExclusive
    <3> QED
      BY <3>2, <3>6, <3>7
  <2>3. ASSUME NEW c \in Clients, Delete(c) PROVE IInv'
    <3> DEFINE k == spans[c][freed[c] + 1]
    <3>1. TypeOK' /\ Progress'
      BY <2>3, SpansType DEF Delete, AtDelete, TypeOK, Progress, PCs
    <3>2. Owned(c)' = Owned(c) \ {k} /\ k \in Owned(c)
      <4> DEFINE f == freed[c] + 1
                 t == taken[c]
      <4>1. /\ f \in Nat /\ t \in Nat /\ 1 <= f /\ f <= t
            /\ t <= Len(spans[c]) /\ Len(spans[c]) \in Nat
            /\ \A i, j \in 1..Len(spans[c]) :
                  spans[c][i] = spans[c][j] => i = j
        BY <2>3, SpansType DEF Delete, AtDelete, TypeOK
      <4>2. /\ Owned(c) = {spans[c][i] : i \in f..t}
            /\ Owned(c)' = {spans[c][i] : i \in (f + 1)..t}
        BY <2>3 DEF Delete, Owned, TypeOK
      <4> HIDE DEF f, t
      <4>3. f..t = {f} \cup (f + 1)..t /\ f \notin (f + 1)..t
        BY <4>1
      <4>4. \A i \in (f + 1)..t : spans[c][i] # spans[c][f]
        BY <4>1
      <4> QED
        BY <4>2, <4>3, <4>4 DEF f
    <3>3. \A d \in Clients \ {c} : Owned(d)' = Owned(d) /\ k \notin Owned(d)
      <4>1. \A d \in Clients \ {c} : Owned(d)' = Owned(d)
        BY <2>3 DEF Delete, Owned, TypeOK
      <4>2. \A d \in Clients \ {c} : k \notin Owned(d)
        BY <3>2 DEF OwnersExclusive
      <4> QED
        BY <4>1, <4>2
    <3>4. tree' = tree \ {k}
      BY <2>3 DEF Delete
    <3>5. TreeIsOwned'
      BY <3>2, <3>3, <3>4 DEF TreeIsOwned
    <3>6. OwnersExclusive'
      BY <3>2, <3>3 DEF OwnersExclusive
    <3> QED
      BY <3>1, <3>5, <3>6
  <2>4. ASSUME NEW c \in Clients, DeletesDone(c) PROVE IInv'
    <3>1. TypeOK' /\ Progress'
      BY <2>4, SpansType DEF DeletesDone, TypeOK, Progress, PCs
    <3>2. \A d \in Clients : Owned(d)' = Owned(d)
      BY <2>4 DEF DeletesDone, Owned, TypeOK
    <3> QED
      BY <2>4, <3>1, <3>2 DEF DeletesDone, TreeIsOwned, OwnersExclusive
  <2>5. ASSUME NEW c \in Clients,
               \/ InsertContended(c) \/ InsertPanics(c) \/ Grant(c)
               \/ Timeout(c) \/ Release(c) \/ PoisonPanics(c)
        PROVE  IInv'
    <3>1. UNCHANGED <<tree, spans, taken, freed>>
      BY <2>5 DEF InsertContended, InsertPanics, Grant, Timeout, Release,
                  PoisonPanics
    <3>2. TypeOK' /\ Progress'
      BY <2>5 DEF InsertContended, InsertPanics, Grant, Timeout, Release,
                  PoisonPanics, AtInsert, AtDelete, TypeOK, Progress, PCs
    <3>3. \A d \in Clients : Owned(d)' = Owned(d)
      BY <3>1 DEF Owned
    <3> QED
      BY <3>1, <3>2, <3>3 DEF TreeIsOwned, OwnersExclusive
  <2>6. CASE UNCHANGED vars
    <3>1. UNCHANGED <<tree, poisoned, pc, spans, taken, freed>>
      BY <2>6 DEF vars
    <3>2. TypeOK' /\ Progress'
      BY <3>1 DEF TypeOK, Progress
    <3>3. \A d \in Clients : Owned(d)' = Owned(d)
      BY <3>1 DEF Owned
    <3> QED
      BY <3>1, <3>2, <3>3 DEF TreeIsOwned, OwnersExclusive
  <2> QED
    BY <2>1, <2>2, <2>3, <2>4, <2>5, <2>6 DEF Next, Step
<1> QED
  BY <1>1, <1>2, PTL DEF Spec

\* The tree holds exactly the keys that some request owns.
THEOREM LatchesAreOwned == Spec => []TreeIsOwned
BY LatchInvariant, PTL DEF IInv

\* Every variable keeps its type, and no loop of acquire, back-off or release runs
\* past the spans of its request.
THEOREM LatchTypes == Spec => []TypeOK
BY LatchInvariant, PTL DEF IInv

\* No key is ever owned by two requests.
THEOREM LatchMutualExclusion == Spec => []OwnersExclusive
BY LatchInvariant, PTL DEF IInv

\* The latch manager implements its abstract specification.
THEOREM LatchManagerImplementsLatches == Spec => ImplementsLatches
<1> DEFINE Held(c) == IF pc[c] = "granted" THEN Range(spans[c]) ELSE {}
<1> DEFINE H == [c \in Clients |-> Held(c)]
<1>1. Init => Guards!Init
  BY DEF Init, Guards!Init
<1>2. IInv /\ [Next]_vars => [Guards!Next]_H
  <2> SUFFICES ASSUME IInv, [Next]_vars, H' # H PROVE Guards!Next
    OBVIOUS
  <2> USE DEF IInv
  <2>1. ASSUME NEW c \in Clients, Grant(c) PROVE Guards!Acquire(c)
    <3>1. \A d \in Clients : Held(d) \subseteq Owned(d)
      BY OwnsAllSpans DEF Progress
    <3>2. Range(spans[c]) = Owned(c)
      BY <2>1, OwnsAllSpans DEF Grant, Progress
    <3>3. Range(spans[c]) \in SUBSET Keys
      BY SpansType DEF Range
    <3>4. H[c] = {}
      BY <2>1 DEF Grant
    <3>5. Guards!Grantable(c, Range(spans[c]))
      BY <3>1, <3>2 DEF Guards!Grantable, OwnersExclusive
    <3>6. H' = [H EXCEPT ![c] = Range(spans[c])]
      BY <2>1 DEF Grant, TypeOK
    <3> QED
      BY <3>3, <3>4, <3>5, <3>6 DEF Guards!Acquire
  <2>2. ASSUME NEW c \in Clients, Release(c) PROVE Guards!Release(c)
    BY <2>2 DEF Release, Guards!Release, TypeOK
  <2>3. ASSUME NEW c \in Clients,
               \/ Request(c) \/ Insert(c) \/ InsertContended(c)
               \/ InsertPanics(c) \/ Timeout(c) \/ Delete(c)
               \/ DeletesDone(c) \/ PoisonPanics(c)
        PROVE  FALSE
    <3>1. \A d \in Clients : Held(d)' = Held(d)
      BY <2>3 DEF Request, Insert, InsertContended, InsertPanics, Timeout,
                  Delete, DeletesDone, PoisonPanics, AtInsert, AtDelete, TypeOK
    <3> QED
      BY <3>1
  <2>4. CASE UNCHANGED vars
    BY <2>4 DEF vars
  <2> QED
    BY <2>1, <2>2, <2>3, <2>4 DEF Next, Step, Guards!Next
<1> QED
  BY <1>1, <1>2, LatchInvariant, PTL DEF Spec, ImplementsLatches, Guards!Spec
=============================================================================
