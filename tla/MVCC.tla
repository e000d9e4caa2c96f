-------------------------------- MODULE MVCC --------------------------------
(***************************************************************************)
(* The multi-version store of storage/: KVStore over MVCCScanner and       *)
(* MVCCIterator over the keys of a RocksDB column family.                  *)
(*                                                                         *)
(* A store is a function.  Its domain is a set of MVCCKeys <<key, ts>>, in *)
(* the order of Storage::compare; its values say which transaction wrote   *)
(* the entry and with which write timestamp (the value itself is that      *)
(* transaction's value for that key).  Keys are numbers, and so are        *)
(* timestamps: the logical part of hybrid timestamps with one wall time.   *)
(* Timestamp 0 is the intent timestamp.                                    *)
(***************************************************************************)
EXTENDS Integers, Functions

Intent == 0

Entry(t, ts) == [txn |-> t, ts |-> ts]

\* Timestamp::cmp, as <=: the intent timestamp is the largest.
AtMost(a, b) == b = Intent \/ (a # Intent /\ a <= b)

\* Mutant: versions in the order of their timestamps.
BeforeOldestFirst(e, f) == e[1] < f[1] \/ (e[1] = f[1] /\ e[2] < f[2])

\* Storage::compare, as <: by key, then the intent, then the latest version.
Before(e, f) ==
    \/ e[1] < f[1]
    \/ /\ e[1] = f[1]
       /\ e[2] # f[2]
       /\ AtMost(f[2], e[2])

First(S) == CHOOSE e \in S : \A f \in S : f = e \/ Before(e, f)

Final(S) == CHOOSE e \in S : \A f \in S : f = e \/ Before(f, e)

Matches(e, key, ts) == e[1] = key /\ AtMost(e[2], ts)

\* MVCCIterator::seek_ge from the entry `at`: to the first entry of the key at
\* or below the timestamp.  Without one the iterator stops at the final entry of
\* the store, and is still valid.
SeekGe(store, at, key, ts) ==
    LET found == {e \in DOMAIN store : ~Before(e, at) /\ Matches(e, key, ts)}
    IN  IF found = {}
        THEN [valid |-> FALSE, at |-> Final(DOMAIN store)]
        ELSE [valid |-> TRUE, at |-> First(found)]

NoResult == [value |-> {}, intent |-> {}]

\* get_current_key with the iterator at entry e: an intent hides the versions
\* of its key; otherwise e, or an older version (seek_older_version).
GetCurrentKey(store, e, ts) ==
    LET older == SeekGe(store, e, e[1], ts)
    IN  IF e[2] = Intent THEN [NoResult EXCEPT !.intent = {e}]
        ELSE IF older.valid THEN [NoResult EXCEPT !.value = {older.at}]
        ELSE NoResult

\* mvcc_get, a scan of one key.  The scan is over after one turn: the next key
\* is past the end.  If the iterator has stopped at the end of the store, the
\* turn is for a smaller key.
MvccGet(store, key, ts) ==
    LET start == SeekGe(store, First(DOMAIN store), key, Intent).at
    IN  IF DOMAIN store = {} \/ start[1] > key THEN NoResult
        ELSE GetCurrentKey(store, start, ts)

\* mvcc_get_uncommited_value: the intent of a key, as a set
UncommittedValue(store, key) ==
    LET res == SeekGe(store, First(DOMAIN store), key, Intent)
    IN  IF DOMAIN store # {} /\ res.valid /\ res.at[2] = Intent
        THEN {store[res.at]} ELSE {}

\* The entries of S are put into the store.
PutEntries(store, S, entry) ==
    [e \in DOMAIN store \cup S |-> IF e \in S THEN entry ELSE store[e]]

\* mvcc_delete of the intents of the keys in S
DeleteIntents(store, S) == Restrict(store, DOMAIN store \ (S \X {Intent}))

\* mvcc_put_raw with a transaction
PutIntent(store, key, t, ts) ==
    PutEntries(store, {<<key, Intent>>}, Entry(t, ts))

Resolvable(store, S, t) ==
    {k \in S : <<k, Intent>> \in DOMAIN store /\ store[<<k, Intent>>].txn = t}

\* Mutant: the version is written and the intent is left behind.
ResolveIntentsKeepsIntent(store, S, t, ts) ==
    PutEntries(store, Resolvable(store, S, t) \X {ts}, Entry(t, ts))

\* mvcc_resolve_intent for the keys in S: what is not the transaction's own
\* intent is left alone.
ResolveIntents(store, S, t, ts) ==
    LET own == Resolvable(store, S, t)
    IN  PutEntries(DeleteIntents(store, own), own \X {ts}, Entry(t, ts))

\* MVCCKey::to_string wants the encoded key to be UTF-8.  The bytes of the logical
\* time come lowest first and between bytes that are 0: each is an ASCII character,
\* or the two are one character.  (Bound: timestamps below 2^16.)
Encodable(ts) ==
    LET low == ts % 256
        high == (ts \div 256) % 256
    IN  \/ low < 128 /\ high < 128
        \/ low \in 194..223 /\ high \in 128..191
-----------------------------------------------------------------------------
\* The latest version of a key at or below a timestamp, as a set.
LatestVersion(store, key, ts) ==
    LET versions == {e \in DOMAIN store :
                        e[1] = key /\ e[2] # Intent /\ e[2] <= ts}
    IN  {e \in versions : \A f \in versions : f[2] <= e[2]}

\* For a key that has an entry, or is followed by one of a larger key, mvcc_get
\* gives the intent if there is one and else the latest version.
GetReturnsLatest(store, key, ts) ==
    (\E e \in DOMAIN store : e[1] >= key) =>
        MvccGet(store, key, ts) =
            IF <<key, Intent>> \in DOMAIN store
            THEN [NoResult EXCEPT !.intent = {<<key, Intent>>}]
            ELSE [NoResult EXCEPT !.value = LatestVersion(store, key, ts)]
=============================================================================
