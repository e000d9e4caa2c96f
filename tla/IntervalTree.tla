---------------------------- MODULE IntervalTree ----------------------------
(***************************************************************************)
(* The interval tree of the timestamp oracle (interval/interval_tree.rs)   *)
(* on the red-black tree of llrb/llrb.rs.                                  *)
(*                                                                         *)
(* A tree is its vector of nodes, to which nodes are only ever added, and  *)
(* the index of its root.  NIL is the index 0.  The two directions of the  *)
(* code's mirrored branches are a parameter: side is "left" or "right",    *)
(* and nodes[n][side] the child on that side.                              *)
(***************************************************************************)
EXTENDS Integers, Sequences, FiniteSetsExt

NIL == 0

EmptyTree == [nodes |-> <<>>, root |-> NIL]

NewNode(start, end, value, color, parent) ==
    [start_key |-> start, end_key |-> end, value |-> value,
     left |-> NIL, right |-> NIL, parent |-> parent, color |-> color]

Opposite(side) == IF side = "left" THEN "right" ELSE "left"

\* The child leaves the parent it has.
Detach(t, child) ==
    LET old == t.nodes[child].parent
        was == IF t.nodes[old].left = child THEN "left" ELSE "right"
    IN  IF old = NIL THEN t ELSE [t EXCEPT !.nodes[old][was] = NIL]

\* The child on that side has no parent any more.
Vacate(t, side, parent) ==
    LET replaced == t.nodes[parent][side]
    IN  IF replaced = NIL THEN t ELSE [t EXCEPT !.nodes[replaced].parent = NIL]

\* set_left, set_right
SetChild(t, side, parent, child) ==
    IF child = NIL THEN [t EXCEPT !.nodes[parent][side] = NIL]
    ELSE [Vacate(Detach(t, child), side, parent) EXCEPT
              !.nodes[parent][side] = child, !.nodes[child].parent = parent]

\* up takes the place of k.
TakePlace(t, k, up) ==
    LET parent == t.nodes[k].parent
        which == IF t.nodes[parent].right = k THEN "right" ELSE "left"
    IN  IF parent = NIL
        THEN [t EXCEPT !.root = up, !.nodes[up].parent = NIL]
        ELSE SetChild(t, which, parent, up)

\* right_rotate (side is "left") and left_rotate (side is "right"): the child of k
\* on that side takes k's place, and k its inner child.
Rotate(t, k, side) ==
    LET up == t.nodes[k][side]
        inner == t.nodes[up][Opposite(side)]
    IN  SetChild(SetChild(TakePlace(t, k, up), Opposite(side), up, k),
                 side, k, inner)

IsRed(t, n) == n # NIL /\ t.nodes[n].color = "red"

\* Mutant: the grandparent stays black.
RecolorParentOnly(t, parent, grand) ==
    [t EXCEPT !.nodes[parent].color = "black"]

Recolor(t, parent, grand) ==
    [t EXCEPT !.nodes[parent].color = "black", !.nodes[grand].color = "red"]

\* One turn of the loop of fix_insert, for a node with a red parent.
FixStep(s) ==
    LET t == s.tree
        parent == t.nodes[s.node].parent
        grand == t.nodes[parent].parent
        side == IF t.nodes[grand].right = parent THEN "right" ELSE "left"
        uncle == t.nodes[grand][Opposite(side)]
        inner == s.node = t.nodes[parent][Opposite(side)]
        u == IF inner THEN Rotate(t, parent, Opposite(side)) ELSE t
        top == IF inner THEN s.node ELSE parent
    IN  IF IsRed(t, uncle)
        THEN [tree |-> [Recolor(t, parent, grand) EXCEPT
                            !.nodes[uncle].color = "black"],
              node |-> grand]
        ELSE [tree |-> Rotate(Recolor(u, top, grand), grand, side),
              node |-> IF inner THEN parent ELSE s.node]

\* fix_insert.  The loop climbs, so it has at most one turn for each node.
FixInsert(t, n) ==
    LET turn[i \in 0..Len(t.nodes)] ==
            IF i = 0 THEN [tree |-> t, node |-> n]
            ELSE LET s == turn[i - 1]
                 IN  IF IsRed(s.tree, s.tree.nodes[s.node].parent)
                     THEN FixStep(s) ELSE s
        fixed == turn[Len(t.nodes)].tree
    IN  [fixed EXCEPT !.nodes[fixed.root].color = "black"]

\* Where insert_node goes from node n: to the left for an equal key.
SideOf(t, n, start) ==
    IF t.nodes[n].start_key < start THEN "right" ELSE "left"

\* insert_node.  Under the root, which is black, nothing needs fixing.
InsertNode(t, start, end, value) ==
    LET last[n \in 1..Len(t.nodes)] ==
            LET next == t.nodes[n][SideOf(t, n, start)]
            IN  IF next = NIL THEN n ELSE last[next]
        parent == last[t.root]
        new == Len(t.nodes) + 1
        color == IF t.root = NIL THEN "black" ELSE "red"
        above == IF t.root = NIL THEN NIL ELSE parent
        added == [t EXCEPT !.nodes =
                      Append(@, NewNode(start, end, value, color, above))]
        linked == [added EXCEPT
                      !.nodes[parent][SideOf(t, parent, start)] = new]
    IN  IF t.root = NIL THEN [added EXCEPT !.root = new]
        ELSE IF t.nodes[parent].parent = NIL THEN linked
        ELSE FixInsert(linked, new)

DoesRangeOverlap(start1, end1, start2, end2) ==
    \/ start1 > start2 /\ end2 >= start1
    \/ start1 < start2 /\ end1 >= start2
    \/ start1 = start2

\* Mutant: the walk ends at a node that starts at the end of the range.
IsPastTooEarly(end, node) == end <= node.start_key

\* The nodes after this one start after the range.
IsPast(end, node) == end < node.start_key

\* get_overlap, collect_overlapping_nodes: the nodes that overlap, in order; the
\* walk is done at the first node that starts after the range.
GetOverlap(t, start, end) ==
    LET from[n \in 0..Len(t.nodes)] ==
            LET node == t.nodes[n]
                left == from[node.left]
                right == from[node.right]
                here == IF DoesRangeOverlap(start, end, node.start_key,
                                            node.end_key)
                        THEN Append(left.found, n) ELSE left.found
            IN  IF n = NIL THEN [done |-> FALSE, found |-> <<>>]
                ELSE IF left.done THEN left
                ELSE IF IsPast(end, node)
                THEN [done |-> TRUE, found |-> here]
                ELSE [done |-> right.done, found |-> here \o right.found]
    IN  from[t.root].found

\* get_max_timestamp, without the transaction, which no caller looks at; 0 if
\* there is none.
GetMaxTimestamp(t, start, end) ==
    LET found == GetOverlap(t, start, end)
    IN  Max({0} \cup {t.nodes[found[i]].value : i \in DOMAIN found})
-----------------------------------------------------------------------------
\* The tree is ordered by start keys, no red node has a red child, every path
\* from the root to a NIL has as many black nodes, and every parent pointer is
\* the inverse of a child pointer.
IsRedBlack(t) ==
    LET ns == DOMAIN t.nodes
        inorder[n \in {NIL} \cup ns] ==
            IF n = NIL THEN <<>>
            ELSE inorder[t.nodes[n].left] \o <<n>> \o inorder[t.nodes[n].right]
        height[n \in {NIL} \cup ns] ==
            IF n = NIL THEN 0
            ELSE height[t.nodes[n].left] + (IF IsRed(t, n) THEN 0 ELSE 1)
        walk == inorder[t.root]
    IN  /\ Len(walk) = Cardinality(ns)
        /\ \A i \in 2..Len(walk) :
               t.nodes[walk[i - 1]].start_key <= t.nodes[walk[i]].start_key
        /\ ~IsRed(t, t.root)
        /\ \A n \in ns :
               /\ height[t.nodes[n].left] = height[t.nodes[n].right]
               /\ \A c \in {t.nodes[n].left, t.nodes[n].right} \ {NIL} :
                      t.nodes[c].parent = n /\ ~(IsRed(t, n) /\ IsRed(t, c))
=============================================================================
