---------------------------- MODULE LatchManager ----------------------------
(***************************************************************************)
(* The latch manager of latch_manager/latch_manager.rs: acquire inserts    *)
(* the keys of a request into the latch tree one at a time, in the order   *)
(* of the request; a key that is already there means waiting.  The senders *)
(* kept for the waiters are never used, so a wait always ends with the     *)
(* random timeout, after which the keys taken so far are deleted one by    *)
(* one and the whole acquisition starts again.                             *)
(*                                                                         *)
(* The tree (latch_interval_btree.rs) is the set of the keys in it; each   *)
(* insert and delete is one step.  LatchTree has the tree itself and shows *)
(* that this is what it does, with one worker thread and up to four keys   *)
(* latched at once; beyond that the tree is not a set any more.  One       *)
(* behaviour of the tree shows through: a leaf keeps one list of waiters,  *)
(* however many keys it has, and insert_range indexes the lists with the   *)
(* position of the key in its leaf.  A contended key that is not the first *)
(* of its leaf makes the inserting task panic, with the locks of the leaf  *)
(* and of its full ancestors held for writing; they stay poisoned, and     *)
(* every later operation on the tree panics as well.  Which leaf a key is  *)
(* in depends on the splits and merges that went before: only the smallest *)
(* key of the tree is sure to be the first of its leaf.                    *)
(***************************************************************************)
EXTENDS Integers, Sequences, Functions

CONSTANTS
    Clients,        \* the requests: each acquires and releases its keys once
    Keys,           \* the keys, ordered
    SpanSets        \* the key sequences that requests ask for

ASSUME KeysAssumption == Keys \subseteq Int

\* Command::collect_spans never returns a key twice (dedupe_spanset).
ASSUME SpanSetsAssumption ==
    SpanSets \subseteq {s \in Seq(Keys) : IsInjective(s)}

VARIABLES
    tree,       \* the keys in the latch tree
    poisoned,   \* a task panicked with the tree locked
    pc,         \* where each client is
    spans,      \* the spans argument of acquire, later those of the guard
    taken,      \* how many of the spans were inserted in this attempt
    freed       \* how many of those were deleted again

vars == <<tree, poisoned, pc, spans, taken, freed>>

\* The keys that client c has inserted and not deleted.
Owned(c) == {spans[c][i] : i \in (freed[c] + 1)..taken[c]}
-----------------------------------------------------------------------------
Init ==
    /\ tree = {}
    /\ poisoned = FALSE
    /\ pc = [c \in Clients |-> "idle"]
    /\ spans = [c \in Clients |-> <<>>]
    /\ taken = [c \in Clients |-> 0]
    /\ freed = [c \in Clients |-> 0]

\* A call of acquire.
Request(c) ==
    /\ pc[c] = "idle"
    /\ pc' = [pc EXCEPT ![c] = "acquire"]
    /\ \E s \in SpanSets : spans' = [spans EXCEPT ![c] = s]
    /\ UNCHANGED <<tree, poisoned, taken, freed>>

\* Client c is about to insert its next key.
AtInsert(c) == pc[c] = "acquire" /\ taken[c] < Len(spans[c])

NextKey(c) == spans[c][taken[c] + 1]

\* tree.insert returns LatchKeyGuard::Acquired.
Insert(c) ==
    /\ AtInsert(c)
    /\ ~poisoned
    /\ NextKey(c) \notin tree
    /\ tree' = tree \cup {NextKey(c)}
    /\ taken' = [taken EXCEPT ![c] = @ + 1]
    /\ UNCHANGED <<poisoned, pc, spans, freed>>

\* tree.insert returns LatchKeyGuard::NotAcquired.
InsertContended(c) ==
    /\ AtInsert(c)
    /\ ~poisoned
    /\ NextKey(c) \in tree
    /\ pc' = [pc EXCEPT ![c] = "wait"]
    /\ UNCHANGED <<tree, poisoned, spans, taken, freed>>

\* tree.insert finds the key behind another key of the same leaf and indexes
\* the list of waiters out of bounds.
InsertPanics(c) ==
    /\ AtInsert(c)
    /\ ~poisoned
    /\ NextKey(c) \in tree
    /\ \E k \in tree : k < NextKey(c)
    /\ pc' = [pc EXCEPT ![c] = "panicked"]
    /\ poisoned' = TRUE
    /\ UNCHANGED <<tree, spans, taken, freed>>

\* Mutant: acquire returns although the last key is still missing.
GrantOneShort(c) ==
    /\ pc[c] = "acquire"
    /\ taken[c] + 1 >= Len(spans[c])
    /\ pc' = [pc EXCEPT ![c] = "granted"]
    /\ UNCHANGED <<tree, poisoned, spans, taken, freed>>

\* All spans are inserted: acquire returns the guard.
Grant(c) ==
    /\ pc[c] = "acquire"
    /\ taken[c] = Len(spans[c])
    /\ pc' = [pc EXCEPT ![c] = "granted"]
    /\ UNCHANGED <<tree, poisoned, spans, taken, freed>>

\* Mutant: the wait listens on the receiver alone, which nobody signals.
TimeoutNever(c) == FALSE

\* The sleep of 50 to 150 ms ends.
Timeout(c) ==
    /\ pc[c] = "wait"
    /\ pc' = [pc EXCEPT ![c] = "backoff"]
    /\ UNCHANGED <<tree, poisoned, spans, taken, freed>>

\* The caller is done with its keys and calls release.
Release(c) ==
    /\ pc[c] = "granted"
    /\ pc' = [pc EXCEPT ![c] = "release"]
    /\ UNCHANGED <<tree, poisoned, spans, taken, freed>>

\* Mutant: the back-off goes through all spans, not through the acquired ones.
AtDeleteAnySpan(c) ==
    pc[c] \in {"backoff", "release"} /\ freed[c] < Len(spans[c])

\* Client c is about to delete its next key.
AtDelete(c) == pc[c] \in {"backoff", "release"} /\ freed[c] < taken[c]

\* tree.delete of the next key, after a timeout or in release.
Delete(c) ==
    /\ AtDelete(c)
    /\ ~poisoned
    /\ tree' = tree \ {spans[c][freed[c] + 1]}
    /\ freed' = [freed EXCEPT ![c] = @ + 1]
    /\ UNCHANGED <<poisoned, pc, spans, taken>>

\* The taken keys are deleted: try again, or return from release.
DeletesDone(c) ==
    /\ pc[c] \in {"backoff", "release"}
    /\ freed[c] = taken[c]
    /\ pc' = [pc EXCEPT ![c] = IF @ = "backoff" THEN "acquire" ELSE "done"]
    /\ taken' = [taken EXCEPT ![c] = 0]
    /\ freed' = [freed EXCEPT ![c] = 0]
    /\ UNCHANGED <<tree, poisoned, spans>>

\* Any operation on the poisoned tree panics.
PoisonPanics(c) ==
    /\ poisoned
    /\ AtInsert(c) \/ AtDelete(c)
    /\ pc' = [pc EXCEPT ![c] = "panicked"]
    /\ UNCHANGED <<tree, poisoned, spans, taken, freed>>

Step(c) ==
    \/ Request(c) \/ Insert(c) \/ InsertContended(c) \/ InsertPanics(c)
    \/ Grant(c) \/ Timeout(c) \/ Release(c) \/ Delete(c) \/ DeletesDone(c)
    \/ PoisonPanics(c)

Next == \E c \in Clients : Step(c)

Spec == Init /\ [][Next]_vars

\* The runtime keeps running every task, the timers fire, and a granted request
\* is executed and released without waiting for other latches.  No request has
\* to be made, and no task has to panic.
Fairness ==
    \A c \in Clients :
        WF_vars(\/ Insert(c) \/ InsertContended(c) \/ Grant(c) \/ Timeout(c)
                \/ Release(c) \/ Delete(c) \/ DeletesDone(c) \/ PoisonPanics(c))

FairSpec == Spec /\ Fairness
-----------------------------------------------------------------------------
PCs == {"idle", "acquire", "wait", "backoff", "granted", "release", "done",
        "panicked"}

\* Every variable has its type, and the counters stay within the spans.
TypeOK ==
    /\ tree \subseteq Keys
    /\ poisoned \in BOOLEAN
    /\ pc \in [Clients -> PCs]
    /\ spans \in [Clients -> SpanSets \cup {<<>>}]
    /\ taken \in [Clients -> Nat]
    /\ freed \in [Clients -> Nat]
    /\ \A c \in Clients : freed[c] <= taken[c] /\ taken[c] <= Len(spans[c])

\* How far each client has come in the loops of acquire and release: only a
\* client that is deleting has deleted some of its keys, and a granted client
\* has inserted all keys of its spans.
Progress ==
    \A c \in Clients :
        /\ pc[c] \in {"acquire", "wait", "granted"} => freed[c] = 0
        /\ pc[c] \in {"idle", "done"} => taken[c] = 0
        /\ pc[c] = "granted" => taken[c] = Len(spans[c])

\* The tree holds a key exactly while some client owns it: no latch is
\* orphaned by a timeout in the middle of an acquisition, and no client's
\* release or back-off deletes a key that another client has inserted.
TreeIsOwned == tree = UNION {Owned(c) : c \in Clients}

\* No key is owned by two clients, whatever part of acquire, back-off or
\* release each of them is in; panics change nothing about it.
OwnersExclusive ==
    \A c, d \in Clients : c # d => Owned(c) \cap Owned(d) = {}

\* The inductive invariant behind OwnersExclusive and ImplementsLatches.
IInv == TypeOK /\ Progress /\ TreeIsOwned /\ OwnersExclusive

\* The latch manager gives out guards as Latches says.
Guards == INSTANCE Latches WITH
            held <- [c \in Clients |->
                        IF pc[c] = "granted" THEN Range(spans[c]) ELSE {}]
ImplementsLatches == Guards!Spec

\* If all requests take their keys in the same order, every call of acquire is
\* granted in the end, unless the tree is poisoned: a timeout loses no request,
\* and giving up the keys taken so far lets the others finish.  (Two requests
\* with opposite orders may retry forever: each retakes its first key while the
\* other waits for it, the TODO in acquire.)
Ascending ==
    \A c \in Clients : \A i, j \in DOMAIN spans[c] :
        i < j => spans[c][i] < spans[c][j]
EventuallyGranted ==
    []Ascending =>
        \A c \in Clients :
            pc[c] = "acquire" ~> (pc[c] = "granted" \/ poisoned)

\* A request that meets a latched key waits for it; it never panics.
ContendersWait == \A c \in Clients : pc[c] # "panicked"
=============================================================================
