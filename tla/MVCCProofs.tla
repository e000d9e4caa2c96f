----------------------------- MODULE MVCCProofs -----------------------------
(***************************************************************************)
(* What the iterator, the scanner and mvcc_get find in any finite store.   *)
(*                                                                         *)
(* The order of Storage::compare is total, so a finite set of entries has  *)
(* a first and a final one: a smallest set without them would have one     *)
(* element more than a set that has them.                                  *)
(***************************************************************************)
EXTENDS MVCC, FiniteSetTheorems, TLAPS

MVCCKeys == Nat \X Nat

\* R is a total order of the elements of M.
IsTotalOrder(R, M) ==
    /\ \A e, f \in M : e = f \/ <<e, f>> \in R \/ <<f, e>> \in R
    /\ \A e, f, g \in M : <<e, f>> \in R /\ <<f, g>> \in R => <<e, g>> \in R

\* A finite set that a relation orders totally has a first element.
LEMMA FiniteOrderHasFirst ==
    ASSUME NEW M, NEW R, IsTotalOrder(R, M),
           NEW S \in SUBSET M, IsFiniteSet(S), S # {}
    PROVE  \E e \in S : \A f \in S : f = e \/ <<e, f>> \in R
<1> DEFINE HasFirst(T) == \E e \in T : \A f \in T : f = e \/ <<e, f>> \in R
           Smaller == StrictSubsetOrdering(M)
           Bad == {T \in FiniteSubsetsOf(M) : T # {} /\ ~HasFirst(T)}
<1>1. ASSUME Bad # {} PROVE FALSE
  <2>1. IsWellFoundedOn(Smaller, FiniteSubsetsOf(M))
    BY FS_StrictSubsetOrderingWellFounded
  <2>2. PICK T \in Bad : \A U \in Bad : <<U, T>> \notin Smaller
    <3> HIDE DEF Smaller
    <3>1. Bad \subseteq FiniteSubsetsOf(M)
      OBVIOUS
    <3> HIDE DEF Bad
    <3> QED
      BY <1>1, <2>1, <3>1, WFMin
  <2>3. PICK x : x \in T
    OBVIOUS
  <2> DEFINE U == T \ {x}
  <2>4. U \in FiniteSubsetsOf(M) /\ <<U, T>> \in Smaller
    BY <2>2, <2>3, FS_RemoveElement DEF FiniteSubsetsOf, StrictSubsetOrdering
  <2>5. U = {} \/ HasFirst(U)
    BY <2>2, <2>4
  <2>6. x \in M /\ T \subseteq M
    BY <2>2, <2>3 DEF FiniteSubsetsOf
  <2>7. CASE U = {}
    BY <2>2, <2>3, <2>7
  <2>8. CASE HasFirst(U)
    <3>1. PICK y \in U : \A f \in U : f = y \/ <<y, f>> \in R
      BY <2>8
    <3>2. CASE <<x, y>> \in R
      <4>1. \A f \in T : f = x \/ <<x, f>> \in R
        BY <3>1, <3>2, <2>6 DEF IsTotalOrder
      <4> QED
        BY <4>1, <2>2, <2>3
    <3>3. CASE <<y, x>> \in R
      <4>1. \A f \in T : f = y \/ <<y, f>> \in R
        BY <3>1, <3>3
      <4> QED
        BY <4>1, <2>2, <3>1
    <3> QED
      BY <3>1, <3>2, <3>3, <2>6 DEF IsTotalOrder
  <2> QED
    BY <2>5, <2>7, <2>8
<1> QED
  BY <1>1 DEF FiniteSubsetsOf

\* Storage::compare is a strict total order.
LEMMA BeforeIsTotal ==
    /\ \A e \in MVCCKeys : ~Before(e, e)
    /\ \A e, f \in MVCCKeys : e = f \/ Before(e, f) \/ Before(f, e)
    /\ \A e, f \in MVCCKeys : ~(Before(e, f) /\ Before(f, e))
    /\ \A e, f, g \in MVCCKeys : Before(e, f) /\ Before(f, g) => Before(e, g)
  BY DEF MVCCKeys, Before, AtMost, Intent

\* A store that is not empty has a first and a final entry.
LEMMA FirstAndFinalExist ==
    ASSUME NEW S \in SUBSET MVCCKeys, IsFiniteSet(S), S # {}
    PROVE  /\ First(S) \in S
           /\ \A f \in S : f = First(S) \/ Before(First(S), f)
           /\ Final(S) \in S
           /\ \A f \in S : f = Final(S) \/ Before(f, Final(S))
<1> DEFINE R == {p \in MVCCKeys \X MVCCKeys : Before(p[1], p[2])}
           Q == {p \in MVCCKeys \X MVCCKeys : Before(p[2], p[1])}
<1>1. \A e, f \in MVCCKeys : (<<e, f>> \in R <=> Before(e, f))
                          /\ (<<e, f>> \in Q <=> Before(f, e))
  OBVIOUS
<1> HIDE DEF R, Q
<1>2. \E e \in S : \A f \in S : f = e \/ <<e, f>> \in R
  <2>1. IsTotalOrder(R, MVCCKeys)
    BY <1>1, BeforeIsTotal DEF IsTotalOrder
  <2> QED
    BY <2>1, FiniteOrderHasFirst
<1>3. \E e \in S : \A f \in S : f = e \/ <<e, f>> \in Q
  <2>1. IsTotalOrder(Q, MVCCKeys)
    BY <1>1, BeforeIsTotal DEF IsTotalOrder
  <2> QED
    BY <2>1, FiniteOrderHasFirst
<1>4. \E e \in S : \A f \in S : f = e \/ Before(e, f)
  BY <1>1, <1>2
<1>5. \E e \in S : \A f \in S : f = e \/ Before(f, e)
  BY <1>1, <1>3
<1> QED
  BY <1>4, <1>5 DEF First, Final

\* A store as KVStore has it: finitely many entries.
IsStore(store) == DOMAIN store \subseteq MVCCKeys /\ IsFiniteSet(DOMAIN store)

\* The entries at which seek_ge may stop.
Found(store, at, key, ts) ==
    {e \in DOMAIN store : ~Before(e, at) /\ Matches(e, key, ts)}

\* seek_ge that finds an entry stops at the first one of the key at or below the
\* timestamp.
LEMMA SeekGeFinds ==
    ASSUME NEW store, IsStore(store), NEW at, NEW key, NEW ts,
           Found(store, at, key, ts) # {}
    PROVE  LET found == Found(store, at, key, ts) IN
           /\ SeekGe(store, at, key, ts) = [valid |-> TRUE, at |-> First(found)]
           /\ First(found) \in found
           /\ \A f \in found : f = First(found) \/ Before(First(found), f)
<1> DEFINE found == Found(store, at, key, ts)
<1>1. found \in SUBSET MVCCKeys /\ IsFiniteSet(found)
  BY FS_Subset DEF IsStore, Found
<1>2. SeekGe(store, at, key, ts) = [valid |-> TRUE, at |-> First(found)]
  BY DEF SeekGe, Found
<1> QED
  BY <1>1, <1>2, FirstAndFinalExist

\* seek_ge from the first entry finds the intent of the key, or else its latest
\* version.
LEMMA SeekFromFirst ==
    ASSUME NEW store, IsStore(store), DOMAIN store # {}, NEW key \in Nat,
           NEW res, res = SeekGe(store, First(DOMAIN store), key, Intent)
    PROVE  /\ res.valid =>
                 /\ res.at \in DOMAIN store /\ res.at[1] = key
                 /\ \A f \in DOMAIN store :
                       f[1] = key => f = res.at \/ Before(res.at, f)
           /\ ~res.valid => /\ res.at = Final(DOMAIN store)
                            /\ \A f \in DOMAIN store : f[1] # key
           /\ res.valid \in BOOLEAN
<1> DEFINE at == First(DOMAIN store)
           found == Found(store, at, key, Intent)
<1>1. /\ at \in DOMAIN store
      /\ \A f \in DOMAIN store : f = at \/ Before(at, f)
      /\ DOMAIN store \subseteq MVCCKeys
  BY FirstAndFinalExist DEF IsStore
<1>2. \A f \in DOMAIN store : f \in found <=> f[1] = key
  BY <1>1, BeforeIsTotal DEF Found, Matches, AtMost
<1>3. CASE found = {}
  BY <1>2, <1>3 DEF SeekGe, Found
<1>4. CASE found # {}
  <2>1. /\ res = [valid |-> TRUE, at |-> First(found)]
        /\ First(found) \in found
        /\ \A f \in found : f = First(found) \/ Before(First(found), f)
    BY <1>4, SeekGeFinds
  <2> QED
    <3> DEFINE e == First(found)
    <3>1. e \in DOMAIN store /\ e[1] = key
      BY <1>2, <2>1 DEF Found
    <3>2. \A f \in DOMAIN store : f[1] = key => f = e \/ Before(e, f)
      BY <1>2, <2>1
    <3>3. res.valid = TRUE /\ res.at = e
      BY <2>1
    <3> QED
      BY <3>1, <3>2, <3>3
<1> QED
  BY <1>3, <1>4

\* mvcc_get_uncommited_value gives the intent of the key if there is one.
LEMMA UncommittedValueIsIntent ==
    ASSUME NEW store, IsStore(store), NEW key \in Nat
    PROVE  UncommittedValue(store, key) =
               IF <<key, Intent>> \in DOMAIN store
               THEN {store[<<key, Intent>>]} ELSE {}
<1> DEFINE res == SeekGe(store, First(DOMAIN store), key, Intent)
<1>1. CASE DOMAIN store = {}
  BY <1>1 DEF UncommittedValue
<1>2. CASE DOMAIN store # {}
  <2>1. /\ res.valid =>
              /\ res.at \in DOMAIN store /\ res.at[1] = key
              /\ \A f \in DOMAIN store :
                    f[1] = key => f = res.at \/ Before(res.at, f)
        /\ ~res.valid => \A f \in DOMAIN store : f[1] # key
    BY <1>2, SeekFromFirst
  <2> HIDE DEF res
  <2>2. \A e \in DOMAIN store : e \in MVCCKeys
    BY DEF IsStore
  <2>3. CASE <<key, Intent>> \in DOMAIN store
    <3>1. res.valid /\ res.at \in MVCCKeys
      BY <2>1, <2>2, <2>3
    <3>2. res.at = <<key, Intent>>
      <4>1. ~Before(res.at, <<key, Intent>>)
         BY <3>1, <2>1 DEF Before, AtMost, MVCCKeys, Intent
      <4> QED
         BY <4>1, <2>1, <2>3, <3>1
    <3> QED
      BY <1>2, <2>3, <3>1, <3>2 DEF UncommittedValue, res
  <2>4. CASE <<key, Intent>> \notin DOMAIN store
    <3>1. res.valid => res.at[2] # Intent
      BY <2>1, <2>2, <2>4 DEF MVCCKeys
    <3> QED
      BY <2>4, <3>1 DEF UncommittedValue, res
  <2> QED
    BY <2>3, <2>4
<1> QED
  BY <1>1, <1>2

\* At a timestamp that is not the one of intents, the value of mvcc_get is that of
\* a version at or below it, and what it takes for an intent is one.
LEMMA MvccGetFacts ==
    ASSUME NEW store, IsStore(store), NEW key \in Nat, NEW ts \in Nat \ {0},
           NEW res, res = MvccGet(store, key, ts)
    PROVE  /\ \A e \in res.value : e \in DOMAIN store /\ e[2] # Intent
           /\ \A e \in res.intent : e \in DOMAIN store /\ e[2] = Intent
<1> DEFINE start == SeekGe(store, First(DOMAIN store), key, Intent).at
           older == SeekGe(store, start, start[1], ts)
           found == Found(store, start, start[1], ts)
<1>1. CASE DOMAIN store = {} \/ start[1] > key
  BY <1>1 DEF MvccGet, NoResult
<1>2. CASE ~(DOMAIN store = {} \/ start[1] > key)
  <2>1. start \in DOMAIN store
    <3> DEFINE res0 == SeekGe(store, First(DOMAIN store), key, Intent)
    <3>0. DOMAIN store # {}
      BY <1>2
    <3>1. /\ res0.valid => res0.at \in DOMAIN store
          /\ ~res0.valid => res0.at = Final(DOMAIN store)
      BY <3>0, SeekFromFirst
    <3>2. Final(DOMAIN store) \in DOMAIN store
      BY <1>2, FirstAndFinalExist DEF IsStore
    <3> QED
      BY <3>1, <3>2
  <2>2. older.valid => older.at \in found
    <3>1. CASE found = {}
      BY <3>1 DEF SeekGe, Found
    <3>2. CASE found # {}
      BY <3>2, SeekGeFinds
    <3> QED
      BY <3>1, <3>2
  <2>3. \A e \in found : e \in DOMAIN store /\ e[2] # Intent
    BY DEF Found, Matches, AtMost, Intent
  <2> HIDE DEF found
  <2>4. res = IF start[2] = Intent THEN [NoResult EXCEPT !.intent = {start}]
              ELSE IF older.valid THEN [NoResult EXCEPT !.value = {older.at}]
              ELSE NoResult
    BY <1>2 DEF MvccGet, GetCurrentKey
  <2> HIDE DEF start, older
  <2> QED
    BY <2>1, <2>2, <2>3, <2>4 DEF NoResult
<1> QED
  BY <1>1, <1>2

\* For a key that has an entry, or is followed by one of a larger key, mvcc_get
\* finds the intent or else the latest version at or below the timestamp.
LEMMA MvccGetIsLatest ==
    ASSUME NEW store, IsStore(store), NEW key \in Nat, NEW ts \in Nat \ {0}
    PROVE  GetReturnsLatest(store, key, ts)
<1> SUFFICES ASSUME NEW g \in DOMAIN store, g[1] >= key
             PROVE  MvccGet(store, key, ts) =
                        IF <<key, Intent>> \in DOMAIN store
                        THEN [NoResult EXCEPT !.intent = {<<key, Intent>>}]
                        ELSE [NoResult EXCEPT
                                  !.value = LatestVersion(store, key, ts)]
  BY DEF GetReturnsLatest
<1> DEFINE res == SeekGe(store, First(DOMAIN store), key, Intent)
           start == res.at
           older == SeekGe(store, start, start[1], ts)
           found == Found(store, start, start[1], ts)
           versions == {e \in DOMAIN store :
                           e[1] = key /\ e[2] # Intent /\ e[2] <= ts}
<1>1. DOMAIN store # {} /\ DOMAIN store \subseteq MVCCKeys
  BY DEF IsStore
<1>2. /\ res.valid =>
            /\ start \in DOMAIN store /\ start[1] = key
            /\ \A f \in DOMAIN store :
                  f[1] = key => f = start \/ Before(start, f)
      /\ ~res.valid => /\ start = Final(DOMAIN store)
                       /\ \A f \in DOMAIN store : f[1] # key
  BY <1>1, SeekFromFirst
<1>3. MvccGet(store, key, ts) =
          IF start[1] > key THEN NoResult
          ELSE IF start[2] = Intent THEN [NoResult EXCEPT !.intent = {start}]
          ELSE IF older.valid THEN [NoResult EXCEPT !.value = {older.at}]
          ELSE NoResult
  BY <1>1 DEF MvccGet, GetCurrentKey
<1>4. LatestVersion(store, key, ts) =
          {e \in versions : \A f \in versions : f[2] <= e[2]}
  BY DEF LatestVersion
<1>5. CASE ~res.valid
  <2>1. /\ Final(DOMAIN store) \in DOMAIN store
        /\ \A f \in DOMAIN store :
              f = Final(DOMAIN store) \/ Before(f, Final(DOMAIN store))
    BY <1>1, FirstAndFinalExist DEF IsStore
  <2>2. start \in DOMAIN store /\ (g = start \/ Before(g, start))
    BY <1>2, <1>5, <2>1
  <2>3. start[1] # key /\ g \in MVCCKeys /\ start \in MVCCKeys
    BY <1>1, <1>2, <1>5, <2>2
  <2>4. start[1] > key
    BY <2>2, <2>3 DEF Before, MVCCKeys
  <2>5. LatestVersion(store, key, ts) = {} /\ <<key, Intent>> \notin DOMAIN store
    BY <1>2, <1>4, <1>5
  <2> QED
    BY <1>3, <2>4, <2>5 DEF NoResult
<1>6. CASE res.valid /\ <<key, Intent>> \in DOMAIN store
  <2>1. start \in MVCCKeys /\ start[1] = key
    BY <1>1, <1>2, <1>6
  <2>2. ~Before(start, <<key, Intent>>)
    BY <2>1 DEF Before, AtMost, MVCCKeys, Intent
  <2>3. start = <<key, Intent>>
    BY <1>2, <1>6, <2>2
  <2> QED
    BY <1>3, <1>6, <2>3
<1>7. CASE res.valid /\ <<key, Intent>> \notin DOMAIN store
  <2>1. start \in MVCCKeys /\ start[1] = key /\ start[2] # Intent
    <3>1. start \in MVCCKeys /\ start[1] = key /\ start \in DOMAIN store
      BY <1>1, <1>2, <1>7
    <3> QED
      BY <3>1, <1>7 DEF MVCCKeys
  <2>2. found = versions
    <3>1. ASSUME NEW f \in DOMAIN store PROVE f \in found <=> f \in versions
      <4>1. f \in MVCCKeys /\ (f[1] = key => ~Before(f, start))
        BY <1>1, <1>2, <1>7, <2>1, BeforeIsTotal
      <4> QED
        BY <4>1, <2>1 DEF Found, Matches, AtMost, MVCCKeys, Intent
    <3> QED
      BY <3>1 DEF Found
  <2>3. CASE versions = {}
    <3>1. ~older.valid
      BY <2>2, <2>3 DEF SeekGe, Found
    <3>2. LatestVersion(store, key, ts) = {}
      BY <1>4, <2>3
    <3> QED
      BY <1>3, <1>7, <2>1, <3>1, <3>2 DEF NoResult
  <2>4. CASE versions # {}
    <3> DEFINE e == First(found)
    <3>1. /\ older = [valid |-> TRUE, at |-> e]
          /\ e \in found
          /\ \A f \in found : f = e \/ Before(e, f)
      BY <2>2, <2>4, SeekGeFinds
    <3>2. older.valid /\ older.at = e
      BY <3>1
    <3> HIDE DEF found, older
    <3>3. e \in versions /\ \A f \in versions : f = e \/ Before(e, f)
      BY <2>2, <3>1
    <3> HIDE DEF e
    <3>4. \A f \in versions : /\ f \in MVCCKeys /\ f[1] = key
                             /\ f[2] # Intent
      BY <1>1
    <3> HIDE DEF versions
    <3>5. \A f \in versions : f[2] <= e[2] /\ (f[2] = e[2] => f = e)
      BY <3>3, <3>4 DEF Before, AtMost, MVCCKeys
    <3>6. {x \in versions : \A f \in versions : f[2] <= x[2]} = {e}
      <4>1. ASSUME NEW x \in versions, \A f \in versions : f[2] <= x[2]
            PROVE  x = e
        <5>1. e[2] <= x[2] /\ x[2] <= e[2]
          BY <4>1, <3>3, <3>5
        <5>2. x[2] = e[2]
          BY <5>1, <3>3, <3>4 DEF MVCCKeys
        <5> QED
          BY <5>2, <3>5
      <4> QED
        BY <4>1, <3>3, <3>5
    <3>7. LatestVersion(store, key, ts) = {e}
      BY <1>4, <3>6
    <3>8. ~(start[1] > key)
      BY <2>1
    <3>9. MvccGet(store, key, ts) = [NoResult EXCEPT !.value = {e}]
      BY <1>3, <2>1, <3>2, <3>8
    <3> QED
      BY <1>7, <3>7, <3>9
  <2> QED
    BY <2>3, <2>4
<1> QED
  BY <1>5, <1>6, <1>7

\* For a key behind all others mvcc_get gives nothing, or the final entry.
LEMMA MvccGetPastEnd ==
    ASSUME NEW store, IsStore(store), NEW key \in Nat, NEW ts \in Nat \ {0},
           \A e \in DOMAIN store : e[1] # key,
           NEW res, res = MvccGet(store, key, ts)
    PROVE  LET f == Final(DOMAIN store)
           IN  \/ res.value = {} /\ res.intent = {}
               \/ /\ DOMAIN store # {} /\ f \in DOMAIN store
                  /\ \/ res.value = {f} /\ res.intent = {} /\ f[2] # Intent
                     \/ res.value = {} /\ res.intent = {f} /\ f[2] = Intent
<1> DEFINE f == Final(DOMAIN store)
           res0 == SeekGe(store, First(DOMAIN store), key, Intent)
           older == SeekGe(store, f, f[1], ts)
           found == Found(store, f, f[1], ts)
<1>1. CASE DOMAIN store = {}
  BY <1>1 DEF MvccGet, NoResult
<1>2. CASE DOMAIN store # {}
  <2>1. /\ f \in DOMAIN store
        /\ \A e \in DOMAIN store : e = f \/ Before(e, f)
    BY <1>2, FirstAndFinalExist DEF IsStore
  <2>2. res0.at = f
    BY <1>2, SeekFromFirst
  <2>3. older.valid => older.at = f
    <3>1. CASE found = {}
      BY <3>1 DEF SeekGe, Found
    <3>2. CASE found # {}
      <4>1. older = [valid |-> TRUE, at |-> First(found)] /\ First(found) \in found
        BY <3>2, SeekGeFinds
      <4>2. \A e \in found : e = f
        BY <2>1 DEF Found
      <4> QED
        BY <4>1, <4>2
    <3> QED
      BY <3>1, <3>2
  <2>4. res = IF f[1] > key THEN NoResult
              ELSE IF f[2] = Intent THEN [NoResult EXCEPT !.intent = {f}]
              ELSE IF older.valid THEN [NoResult EXCEPT !.value = {older.at}]
              ELSE NoResult
    BY <1>2, <2>2 DEF MvccGet, GetCurrentKey
  <2> HIDE DEF f, older
  <2>5. \/ res = NoResult
        \/ res = [NoResult EXCEPT !.intent = {f}] /\ f[2] = Intent
        \/ res = [NoResult EXCEPT !.value = {f}] /\ f[2] # Intent
    BY <2>3, <2>4
  <2> QED
    BY <1>2, <2>1, <2>5 DEF NoResult, f
<1> QED
  BY <1>1, <1>2
=============================================================================
