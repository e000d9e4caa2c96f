---------------------------- MODULE Transactions ----------------------------
(***************************************************************************)
(* What the database promises the clients of db/db.rs, in the words of     *)
(* mdbook/src/chapter_3/dealing_with_anomalies.md and the tests of         *)
(* db/db_test.rs, without locks, latches, intents and the oracle: the      *)
(* writes of a transaction are its own until a commit makes versions of    *)
(* them all, in one step, at one timestamp and after all versions that     *)
(* their keys have; an abort leaves nothing; a key has one writer at a     *)
(* time; and a read finds the transaction's own write or the latest        *)
(* version at its read timestamp, whatever others have yet to commit.      *)
(*                                                                         *)
(* Database breaks three of these promises: its actions HidesVersion,      *)
(* ReadsLastKey and CommitsBehind say how, and that there is no fourth.    *)
(***************************************************************************)
EXTENDS Naturals

CONSTANTS Txns, Keys, None

VARIABLES
    status,         \* NEW, PENDING, COMMITTED or ABORTED
    read_timestamp, \* the time at which each transaction reads
    writes,         \* the keys that each transaction has written
    versions,       \* the writer of each version, a pair of key and timestamp
    reads           \* what each transaction has read

vars == <<status, read_timestamp, writes, versions, reads>>

\* t has an uncommitted write of k.
Writes(t, k) == status[t] = "PENDING" /\ k \in writes[t]

\* The latest version of k at or below a timestamp, as a set.
Latest(k, ts) ==
    LET old == {e \in DOMAIN versions : e[1] = k /\ e[2] <= ts}
    IN  {e \in old : \A f \in old : f[2] <= e[2]}

\* What k is to t: the writer of its value and the key, as a set.
Value(t, k) ==
    IF Writes(t, k) THEN {<<t, k>>}
    ELSE {<<versions[e], k>> : e \in Latest(k, read_timestamp[t])}

\* The keys of the versions that were there before have no writer among Txns.
Init ==
    /\ status = [t \in Txns |-> "NEW"]
    /\ read_timestamp = [t \in Txns |-> 0]
    /\ writes = [t \in Txns |-> {}]
    /\ \A e \in DOMAIN versions : e[1] \in Keys /\ versions[e] = None
    /\ reads = [t \in Txns |-> {}]

Begin(t) ==
    /\ status[t] = "NEW"
    /\ status' = [status EXCEPT ![t] = "PENDING"]
    /\ \E now \in {read_timestamp'[t]} :
          /\ \A u \in Txns : read_timestamp[u] < now
          /\ read_timestamp' = [read_timestamp EXCEPT ![t] = now]
    /\ UNCHANGED <<writes, versions, reads>>

\* t asks for k and is given this value.
Answers(t, k, value) ==
    /\ status[t] # "NEW"
    /\ reads' = [reads EXCEPT ![t] = @ \cup {[key |-> k, value |-> value]}]
    /\ UNCHANGED <<status, read_timestamp, writes, versions>>

Read(t, k) == Answers(t, k, Value(t, k))

Write(t, k) ==
    /\ status[t] = "PENDING"
    /\ \A u \in Txns \ {t} : ~Writes(u, k)
    /\ writes' = [writes EXCEPT ![t] = @ \cup {k}]
    /\ UNCHANGED <<status, read_timestamp, versions, reads>>

\* The writes of t come after all versions of their keys.
Passes(t, ts) == \A e \in DOMAIN versions : e[1] \in writes[t] => e[2] < ts

\* The writes of t become versions with timestamp ts.
CommitsAt(t, ts) ==
    /\ status[t] = "PENDING"
    /\ status' = [status EXCEPT ![t] = "COMMITTED"]
    /\ LET new == writes[t] \X {ts}
       IN  versions' = [e \in DOMAIN versions \cup new |->
                           IF e \in new THEN t ELSE versions[e]]
    /\ UNCHANGED <<read_timestamp, writes, reads>>

\* The timestamp of a commit is that of a version, if there is one at all.
Commit(t) ==
    \E ts \in {0} \cup {e[2] : e \in DOMAIN versions'} :
        Passes(t, ts) /\ CommitsAt(t, ts)

\* A transaction ends without effect.
Abort(t) ==
    /\ status[t] = "PENDING"
    /\ status' = [status EXCEPT ![t] = "ABORTED"]
    /\ UNCHANGED <<read_timestamp, writes, versions, reads>>

Next ==
    \E t \in Txns :
        \/ Begin(t) \/ Commit(t) \/ Abort(t)
        \/ \E k \in Keys : Read(t, k) \/ Write(t, k)

Spec == Init /\ [][Next]_vars
=============================================================================
