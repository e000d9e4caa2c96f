------------------------------ MODULE LatchTree ------------------------------
(***************************************************************************)
(* The latch manager on the B+tree it really uses                          *)
(* (latch_manager/latch_interval_btree.rs).  The variables of LatchManager *)
(* keep their meaning: tree is the set of the keys in the leaves that the  *)
(* root leads to, and poisoned says that some node is.                     *)
(*                                                                         *)
(* A tree value is a record: its nodes, its root, the poisoned nodes, and  *)
(* what the operation that produced it has returned.  Nodes are numbered,  *)
(* because threads keep pointers to nodes that leave the tree.  The        *)
(* operators below follow the recursion of the code; each returns a tree   *)
(* value.  end_keys equal start_keys in every latch and are left out, and  *)
(* so are the pointers between leaves, which nothing follows.              *)
(*                                                                         *)
(* TreeSpec is one worker thread: nothing in insert or delete awaits, so   *)
(* an operation is one step.  RacingSpec has as many threads as clients:   *)
(* an operation clones the root, descends while the next node is safe      *)
(* (which releases the node it leaves before it locks the next one), and   *)
(* does the rest in one step, under the locks of the nodes from there on.  *)
(***************************************************************************)
EXTENDS LatchManager, SequencesExt

CONSTANTS
    Order,      \* the order of the tree: LatchManager::new makes it 3
    NodeIds     \* names for the nodes that exist at one time

ASSUME OrderAssumption == Order \in Nat /\ Order > 2

ASSUME NodeIdsAssumption == NodeIds \subseteq Nat \ {0}

None == 0

VARIABLES
    nodes,      \* the nodes in memory
    root,       \* BTree::root
    poison,     \* the nodes whose lock is poisoned
    at,         \* the node each client's thread comes to next
    cloned      \* the root that its operation has started from

nodeVars == <<nodes, root, poison>>

treeVars == <<nodeVars, at, cloned>>

Leaf(ks) == [leaf |-> TRUE, keys |-> ks, edges |-> <<>>]

Internal(ks, es) == [leaf |-> FALSE, keys |-> ks, edges |-> es]

Unused == Internal(<<>>, <<>>)

Tree == [nodes |-> nodes, root |-> root, poison |-> poison, res |-> "ok",
         split |-> <<>>]
-----------------------------------------------------------------------------
(* Helpers of InternalNode and LeafNode.                                   *)

\* Where key belongs in ks: the position of the first larger key.  In an
\* internal node this is the edge to follow.
Position(ks, key) ==
    LET larger == {i \in DOMAIN ks : key < ks[i]}
    IN  IF larger = {} THEN Len(ks) + 1 ELSE Min(larger)

\* The key of a node that goes with edge e: the one to its right, or the last.
KeyIndex(ks, e) == IF e > Len(ks) THEN e - 1 ELSE e

IsUnderflow(node) == Len(node.keys) < Order \div 2

HasSpareKey(node) == Len(node.keys) > Order \div 2

Returns(t, res) == [t EXCEPT !.res = res]

\* A panic while the nodes of S are locked for writing.
Panicked(t, S) == [t EXCEPT !.res = "panicked", !.poison = @ \cup S]

Fresh(t) == CHOOSE n \in NodeIds :
                /\ t.nodes[n] = Unused
                /\ \A m \in NodeIds : m < n => t.nodes[m] # Unused

LeftSibling(t, parent, e) ==
    IF e = 1 THEN None ELSE t.nodes[parent].edges[e - 1]

RightSibling(t, parent, e) ==
    IF e = Len(t.nodes[parent].edges) THEN None
    ELSE t.nodes[parent].edges[e + 1]
-----------------------------------------------------------------------------
(* Insertion.                                                              *)

\* InternalNode::insert_node
InsertNode(t, parent, n, key) ==
    LET i == Position(t.nodes[parent].keys, key)
    IN  [t EXCEPT !.nodes[parent].keys = InsertAt(@, i, key),
                  !.nodes[parent].edges = InsertAt(@, i + 1, n)]

\* LeafNode::split: the median stays, as the first key of the right node ...
SplitLeaf(node) ==
    LET mid == Len(node.keys) \div 2
    IN  << Leaf(SubSeq(node.keys, 1, mid)),
           Leaf(SubSeq(node.keys, mid + 1, Len(node.keys))) >>

\* ... InternalNode::split: it leaves the node.
SplitInternal(node) ==
    LET mid == Len(node.keys) \div 2
        last == Len(node.keys)
    IN  << Internal(SubSeq(node.keys, 1, mid), SubSeq(node.edges, 1, mid + 1)),
           Internal(SubSeq(node.keys, mid + 2, last),
                    SubSeq(node.edges, mid + 2, last + 1)) >>

\* A node that is full is split; without a (locked) parent it is taken for the
\* root.
SplitIfFull(t, parent, n) ==
    LET node == t.nodes[n]
        median == node.keys[Len(node.keys) \div 2 + 1]
        halves == IF node.leaf THEN SplitLeaf(node) ELSE SplitInternal(node)
        right == Fresh(t)
        s == [t EXCEPT !.nodes[n] = halves[1], !.nodes[right] = halves[2]]
        top == Fresh(s)
    IN  IF Len(node.keys) < Order THEN t
        ELSE IF parent # None THEN InsertNode(s, parent, right, median)
        ELSE [s EXCEPT !.nodes[top] = Internal(<<median>>, <<n, right>>),
                       !.root = top]

\* Mutant: keys that are in the leaf are not looked for.
InsertRangeUnchecked(t, n, key) ==
    Returns([t EXCEPT !.nodes[n].keys = InsertAt(@, Position(@, key), key)],
            "acquired")

\* LeafNode::insert_range.  A leaf has one list of waiters.
InsertRange(t, n, key) ==
    LET ks == t.nodes[n].keys
    IN  CASE key \notin Range(ks) ->
                Returns([t EXCEPT !.nodes[n].keys =
                            InsertAt(@, Position(@, key), key)], "acquired")
          [] key \in Range(ks) /\ ks[1] = key -> Returns(t, "contended")
          [] OTHER -> Panicked(t, {n})

\* The child that the operation on key goes to from internal node n.
Child(t, n, key) ==
    t.nodes[n].edges[Position(t.nodes[n].keys, key)]

InsertSafe(t, n, key) ==
    LET child == Child(t, n, key)
    IN  child \notin t.poison /\ Len(t.nodes[child].keys) < Order - 1

\* A thread cannot pass node n: its lock is poisoned, or it has lost its last
\* key to a merge.
Impassable(t, n) ==
    n \in t.poison \/ (~t.nodes[n].leaf /\ t.nodes[n].keys = <<>>)

\* BTree::insert_helper
RECURSIVE InsertHelper(_, _, _, _)
InsertHelper(t, parent, n, key) ==
    LET safe == InsertSafe(t, n, key)
        child == Child(t, n, key)
        down == InsertHelper(t, IF safe THEN None ELSE n, child, key)
        Split(u) == IF u.res = "acquired" THEN SplitIfFull(u, parent, n)
                    ELSE IF u.res = "panicked" THEN Panicked(u, {n})
                    ELSE u
    IN  CASE Impassable(t, n) -> Panicked(t, {n})
          [] ~Impassable(t, n) /\ t.nodes[n].leaf ->
                Split(InsertRange(t, n, key))
          [] ~Impassable(t, n) /\ ~t.nodes[n].leaf ->
                IF safe THEN down ELSE Split(down)
-----------------------------------------------------------------------------
(* Deletion.  split is the new split key for the ancestors, if any.        *)

\* Mutant: the parent's split key is not updated.
StealFromLeftLeafOnly(t, parent, e, n, left) ==
    [t EXCEPT !.nodes[left].keys = Front(@),
              !.nodes[n].keys = <<Last(t.nodes[left].keys)>> \o @]

\* LeafNode::delete_key, steal_from_left_leaf_sibling: the parent's split key
\* becomes the stolen key.
StealFromLeftLeaf(t, parent, e, n, left) ==
    LET stolen == Last(t.nodes[left].keys)
    IN  [t EXCEPT !.nodes[left].keys = Front(@),
                  !.nodes[n].keys = <<stolen>> \o @,
                  !.nodes[parent].keys[e - 1] = stolen]

\* steal_from_right_leaf_sibling: the parent's split key becomes what is now
\* the sibling's smallest key; the stolen key is passed up.
StealFromRightLeaf(t, parent, e, n, right) ==
    LET stolen == Head(t.nodes[right].keys)
        i == KeyIndex(t.nodes[parent].keys, e)
    IN  [t EXCEPT !.nodes[right].keys = Tail(@),
                  !.nodes[n].keys = Append(@, stolen),
                  !.nodes[parent].keys[i] = t.nodes[right].keys[2],
                  !.split = <<stolen>>]

\* Mutant: the keys of the right node are lost.
MergeEdgesOnly(t, parent, e) ==
    [t EXCEPT !.nodes[t.nodes[parent].edges[e + 1]].keys = <<>>,
              !.nodes[parent].keys = RemoveAt(@, e),
              !.nodes[parent].edges = RemoveAt(@, e + 1)]

\* The node at edge e + 1 of the parent goes into the one at edge e (merge_node,
\* merge_with_sibling); an internal node takes the split key with it.
MergeEdges(t, parent, e) ==
    LET l == t.nodes[parent].edges[e]
        r == t.nodes[parent].edges[e + 1]
        between == IF t.nodes[l].leaf THEN <<>>
                   ELSE <<t.nodes[parent].keys[e]>>
    IN  [t EXCEPT !.nodes[l].keys = @ \o between \o t.nodes[r].keys,
                  !.nodes[l].edges = @ \o t.nodes[r].edges,
                  !.nodes[r].keys = <<>>,
                  !.nodes[r].edges = <<>>,
                  !.nodes[parent].keys = RemoveAt(@, e),
                  !.nodes[parent].edges = RemoveAt(@, e + 1)]

Merge(t, parent, e) ==
    MergeEdges(t, parent, IF e = 1 THEN 1 ELSE e - 1)

\* find_next_largest_key, when the leaf has not lost its last key
NextLargest(t, key, n, right) ==
    LET ks == t.nodes[n].keys
        i == Position(ks, key)
    IN  CASE i <= Len(ks) -> [t EXCEPT !.split = <<ks[i]>>]
          [] i > Len(ks) /\ right # None /\ right \notin t.poison
                /\ t.nodes[right].keys # <<>> ->
                [t EXCEPT !.split = <<t.nodes[right].keys[1]>>]
          [] OTHER -> Panicked(t, {n})

\* The siblings that a node without keys locks in turn, left before right.
Locks(t, left, right) ==
    IF left # None /\ HasSpareKey(t.nodes[left]) THEN {left}
    ELSE {left, right} \ {None}

\* LeafNode::delete_key
DeleteKey(t, key, parent, e, n) ==
    LET s == [t EXCEPT !.nodes[n].keys = Remove(@, key)]
        left == LeftSibling(s, parent, e)
        right == RightSibling(s, parent, e)
    IN  CASE key \notin Range(t.nodes[n].keys) -> t
          [] key \in Range(t.nodes[n].keys) /\ parent = None -> s
          [] OTHER ->
                IF ~IsUnderflow(s.nodes[n]) THEN NextLargest(s, key, n, right)
                ELSE IF Locks(s, left, right) \cap s.poison # {}
                THEN Panicked(s, {n})
                ELSE IF left # None /\ HasSpareKey(s.nodes[left])
                THEN StealFromLeftLeaf(s, parent, e, n, left)
                ELSE IF right # None /\ HasSpareKey(s.nodes[right])
                THEN StealFromRightLeaf(s, parent, e, n, right)
                ELSE Merge(s, parent, e)

\* InternalNode::steal_from_left_sibling
StealFromLeft(t, parent, e, n, left) ==
    LET p == t.nodes[parent]
        l == t.nodes[left]
    IN  [t EXCEPT !.nodes[n].keys = <<p.keys[e - 1]>> \o @,
                  !.nodes[n].edges = <<Last(l.edges)>> \o @,
                  !.nodes[left].keys = Front(@),
                  !.nodes[left].edges = Front(@),
                  !.nodes[parent].keys[e - 1] = Last(l.keys)]

\* InternalNode::steal_from_right_sibling
StealFromRight(t, parent, e, n, right) ==
    LET p == t.nodes[parent]
        r == t.nodes[right]
    IN  [t EXCEPT !.nodes[n].keys = Append(@, p.keys[e]),
                  !.nodes[n].edges = Append(@, Head(r.edges)),
                  !.nodes[right].keys = Tail(@),
                  !.nodes[right].edges = Tail(@),
                  !.nodes[parent].keys[e] = Head(r.keys)]

\* InternalNode::deal_with_underflow.  Edge e is the one that n was left by,
\* not the one that leads to n, so that the sibling may be n itself, whose lock
\* the thread holds: it waits for itself forever.
DealWithUnderflow(t, parent, e, n) ==
    LET left == LeftSibling(t, parent, e)
        right == RightSibling(t, parent, e)
    IN  CASE parent = None \/ ~IsUnderflow(t.nodes[n]) -> t
          [] OTHER ->
                IF n \in Locks(t, left, right) THEN Returns(t, "stuck")
                ELSE IF Locks(t, left, right) \cap t.poison # {}
                THEN Panicked(t, {n})
                ELSE IF left # None /\ HasSpareKey(t.nodes[left])
                THEN StealFromLeft(t, parent, e, n, left)
                ELSE IF right # None /\ HasSpareKey(t.nodes[right])
                THEN StealFromRight(t, parent, e, n, right)
                ELSE Merge(t, parent, e)

EdgeKeyIsDeleted(t, n, key) ==
    LET ks == t.nodes[n].keys
    IN  ks[KeyIndex(ks, Position(ks, key))] = key

DeleteSafe(t, n, key) ==
    LET child == Child(t, n, key)
    IN  /\ child \notin t.poison
        /\ HasSpareKey(t.nodes[child])
        /\ ~EdgeKeyIsDeleted(t, n, key)

\* The parent's key at the index of the edge that n was left by becomes the
\* new split key (the index belongs to n).
UpdateParentKey(t, parent, i) ==
    CASE parent = None \/ t.split = <<>> -> t
      [] OTHER -> [t EXCEPT !.nodes[parent].keys[i] = t.split[1]]

\* BTree::delete_helper
RECURSIVE DeleteHelper(_, _, _, _, _, _)
DeleteHelper(t, key, parent, e, n, ancestorSafe) ==
    LET ks == t.nodes[n].keys
        edge == Position(ks, key)
        i == KeyIndex(ks, edge)
        child == Child(t, n, key)
        safe == DeleteSafe(t, n, key) /\ ancestorSafe
        below == ~EdgeKeyIsDeleted(t, n, key) /\ ancestorSafe
        down == DeleteHelper(t, key, n, edge, child, below)
        Rebalance(u) ==
            CASE u.res = "ok" ->
                    DealWithUnderflow(UpdateParentKey(u, parent, i),
                                      parent, edge, n)
              [] u.res = "panicked" -> Panicked(u, {n})
              [] u.res = "stuck" -> u
    IN  CASE Impassable(t, n) -> Panicked(t, {n})
          [] ~Impassable(t, n) /\ t.nodes[n].leaf ->
                DeleteKey(t, key, parent, e, n)
          [] ~Impassable(t, n) /\ ~t.nodes[n].leaf ->
                IF safe THEN DeleteHelper(t, key, None, 0, child, TRUE)
                ELSE Rebalance(down)

\* The end of BTree::delete: the root it has started from is replaced by its
\* only child when it has lost its last key.
ReplaceRoot(t, start) ==
    LET node == t.nodes[start]
    IN  CASE t.res # "ok" -> t
          [] t.res = "ok" /\ start \in t.poison -> Panicked(t, {})
          [] OTHER -> IF ~node.leaf /\ node.keys = <<>>
                      THEN [t EXCEPT !.root = node.edges[1]] ELSE t

\* BTree::delete, of which a thread has come to node n
DeleteAndReplace(t, key, n, start) ==
    ReplaceRoot(DeleteHelper(t, key, None, 0, n, TRUE), start)
-----------------------------------------------------------------------------
(* The latch manager on the tree.                                          *)

\* The nodes that are reached from those of S.
RECURSIVE Reached(_, _)
Reached(ns, S) ==
    IF S = {} THEN {}
    ELSE S \cup Reached(ns, UNION {Range(ns[n].edges) : n \in S})

KeysIn(ns, S) ==
    UNION {Range(ns[n].keys) : n \in {m \in Reached(ns, S) : ns[m].leaf}}

\* The operation of client c has made the tree t.  Nodes that nothing leads to
\* are freed.
Becomes(t, c) ==
    LET others == {at[d] : d \in Clients \ {c}} \cup
                  {cloned[d] : d \in Clients \ {c}}
        live == Reached(t.nodes, ({t.root} \cup others) \ {None})
    IN  /\ nodes' = [n \in NodeIds |-> IF n \in live THEN t.nodes[n] ELSE Unused]
        /\ root' = t.root
        /\ poison' = t.poison \cap live
        /\ tree' = KeysIn(t.nodes, {t.root})
        /\ poisoned' = (poison' # {})
        /\ at' = [at EXCEPT ![c] = None]
        /\ cloned' = [cloned EXCEPT ![c] = None]

\* No thread waits for itself with the root locked.
TreeIsOpen == \A c \in Clients : pc[c] # "stuck"

DeletedKey(c) == spans[c][freed[c] + 1]

\* tree.insert of the next key, from node n on.
InsertFrom(c, n) ==
    /\ AtInsert(c)
    /\ TreeIsOpen
    /\ \E t \in {InsertHelper(Tree, None, n, NextKey(c))} :
           /\ Becomes(t, c)
           /\ taken' = IF t.res = "acquired" THEN [taken EXCEPT ![c] = @ + 1]
                       ELSE taken
           /\ pc' = [pc EXCEPT ![c] = CASE t.res = "acquired" -> "acquire"
                                        [] t.res = "contended" -> "wait"
                                        [] OTHER -> t.res]
    /\ UNCHANGED <<spans, freed>>

\* tree.delete of the next key, from node n on, started at the root r.
DeleteFrom(c, n, r) ==
    /\ AtDelete(c)
    /\ TreeIsOpen
    /\ \E t \in {DeleteAndReplace(Tree, DeletedKey(c), n, r)} :
           /\ Becomes(t, c)
           /\ IF t.res = "ok"
              THEN freed' = [freed EXCEPT ![c] = @ + 1] /\ UNCHANGED pc
              ELSE pc' = [pc EXCEPT ![c] = t.res] /\ UNCHANGED freed
    /\ UNCHANGED <<spans, taken>>

\* The steps of acquire and release that leave the tree alone.
OutsideTree(c) ==
    /\ Request(c) \/ Grant(c) \/ Timeout(c) \/ Release(c) \/ DeletesDone(c)
    /\ UNCHANGED treeVars

TreeInit ==
    /\ Init
    /\ root = 1
    /\ nodes = [n \in NodeIds |-> IF n = 1 THEN Leaf(<<>>) ELSE Unused]
    /\ poison = {}
    /\ at = [c \in Clients |-> None]
    /\ cloned = [c \in Clients |-> None]

TreeNext ==
    \E c \in Clients :
        OutsideTree(c) \/ InsertFrom(c, root) \/ DeleteFrom(c, root, root)

\* The fairness of LatchManager, whose steps these are (ImplementsLatchManager).
\* Where LatchManager lets an insertion wait, the tree may make it panic.
TreeSpec ==
    TreeInit /\ [][TreeNext]_<<vars, treeVars>> /\ Fairness

\* A thread clones the root.
CloneRoot(c) ==
    /\ AtInsert(c) \/ AtDelete(c)
    /\ at[c] = None
    /\ at' = [at EXCEPT ![c] = root]
    /\ cloned' = [cloned EXCEPT ![c] = root]
    /\ UNCHANGED <<nodeVars, vars>>

\* It locks the node it has come to, finds the next one safe, and unlocks.
Descend(c) ==
    /\ at[c] # None
    /\ TreeIsOpen
    /\ ~Impassable(Tree, at[c])
    /\ ~nodes[at[c]].leaf
    /\ \/ /\ AtInsert(c)
          /\ InsertSafe(Tree, at[c], NextKey(c))
          /\ at' = [at EXCEPT ![c] = Child(Tree, @, NextKey(c))]
       \/ /\ AtDelete(c)
          /\ DeleteSafe(Tree, at[c], DeletedKey(c))
          /\ at' = [at EXCEPT ![c] = Child(Tree, @, DeletedKey(c))]
    /\ UNCHANGED <<nodeVars, cloned, vars>>

\* The rest, unless it can descend.
Operate(c) ==
    /\ at[c] # None
    /\ ~ENABLED Descend(c)
    /\ InsertFrom(c, at[c]) \/ DeleteFrom(c, at[c], cloned[c])

RacingSpec ==
    TreeInit /\ [][\E c \in Clients :
                        OutsideTree(c) \/ CloneRoot(c) \/ Descend(c)
                            \/ Operate(c)]_<<vars, treeVars>>
-----------------------------------------------------------------------------
\* A search from the root finds every key that is in a leaf, and the keys of a
\* leaf are in order: after any sequence of splits, steals and merges no
\* latched key is hidden behind a stale split key.
RECURSIVE Found(_, _)
Found(n, key) ==
    IF nodes[n].leaf THEN key \in Range(nodes[n].keys)
    ELSE Found(Child(Tree, n, key), key)
Searchable ==
    /\ \A k \in tree : Found(root, k)
    /\ \A n \in NodeIds : IsInjective(nodes[n].keys)

\* The latch manager on the tree does what LatchManager does on a set of keys:
\* splits, merges and the search neither lose a latch nor grant one twice, and
\* after a panic every operation comes to a poisoned node.
ImplementsLatchManager == Spec
=============================================================================
