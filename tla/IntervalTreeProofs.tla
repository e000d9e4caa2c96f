------------------------- MODULE IntervalTreeProofs -------------------------
(***************************************************************************)
(* The tree of the timestamp oracle stays a red-black tree, and its walk   *)
(* finds every node that overlaps, for every sequence of insertions.       *)
(***************************************************************************)
EXTENDS IntervalTree, FiniteSetTheorems, SequenceTheorems,
        WellFoundedInduction, TLAPS

-----------------------------------------------------------------------------
(* Induction.  The provers have no induction over data; a family of finite *)
(* sets has a smallest one, and that is enough.                            *)

\* A set of finite sets has an element that contains no other one.
LEMMA SmallestSet ==
    ASSUME NEW M, NEW F \in SUBSET FiniteSubsetsOf(M), F # {}
    PROVE  \E S \in F : \A T \in F : T \subseteq S => T = S
<1> DEFINE R == StrictSubsetOrdering(M)
<1>1. IsWellFoundedOn(R, FiniteSubsetsOf(M))
  BY FS_StrictSubsetOrderingWellFounded
<1>2. PICK S \in F : \A T \in F : <<T, S>> \notin R
  <2> HIDE DEF R
  <2> QED
    BY <1>1, WFMin
<1> QED
  BY <1>2 DEF StrictSubsetOrdering, FiniteSubsetsOf

\* A set of numbers up to N that has 0, and with a number the next one, has all.
LEMMA CountingUp ==
    ASSUME NEW N \in Nat, NEW G, 0 \in G,
           \A i \in 1..N : i - 1 \in G => i \in G
    PROVE  \A i \in 0..N : i \in G
<1> DEFINE F == {0..i : i \in {j \in 0..N : j \notin G}}
<1> SUFFICES ASSUME NEW b \in 0..N, b \notin G PROVE FALSE
  OBVIOUS
<1>1. F \in SUBSET FiniteSubsetsOf(Nat) /\ F # {}
  <2>1. \A i \in 0..N : IsFiniteSet(0..i)
    BY FS_Interval
  <2> QED
    BY <2>1 DEF FiniteSubsetsOf
<1>2. PICK S \in F : \A T \in F : T \subseteq S => T = S
  <2> HIDE DEF F
  <2> QED
    BY <1>1, SmallestSet
<1>3. PICK i \in 0..N : i \notin G /\ S = 0..i
  OBVIOUS
<1>4. i \in 1..N /\ i - 1 \in 0..N /\ i - 1 \notin G
  BY <1>3
<1>5. 0..(i - 1) \in F
  BY <1>4
<1>6. 0..(i - 1) \subseteq S /\ i \in S /\ i \notin 0..(i - 1)
  BY <1>3, <1>4
<1> QED
  BY <1>2, <1>5, <1>6

\* f is defined by its value before each argument.
IsByCounting(N, T, a, next, f) ==
    /\ f \in [0..N -> T]
    /\ f[0] = a /\ \A i \in 1..N : f[i] = next[<<f[i - 1], i>>]

\* A function that is defined by its value before each argument exists.
LEMMA FunctionByCounting ==
    ASSUME NEW N \in Nat, NEW T, NEW a \in T, NEW next \in [T \X (1..N) -> T]
    PROVE  \E f : IsByCounting(N, T, a, next, f)
<1> DEFINE IsUpTo(f, n) ==
               f[0] = a /\ \A i \in 1..n : f[i] = next[<<f[i - 1], i>>]
           G == {n \in 0..N : \E f \in [0..N -> T] : IsUpTo(f, n)}
<1>1. 0 \in G
  <2> DEFINE g == [i \in 0..N |-> a]
  <2>1. g \in [0..N -> T] /\ IsUpTo(g, 0)
    OBVIOUS
  <2> HIDE DEF g
  <2> QED
    BY <2>1
<1>2. ASSUME NEW n \in 1..N, n - 1 \in G PROVE n \in G
  <2>1. PICK f \in [0..N -> T] : IsUpTo(f, n - 1)
    BY <1>2
  <2> DEFINE g == [f EXCEPT ![n] = next[<<f[n - 1], n>>]]
  <2>2. g \in [0..N -> T]
    OBVIOUS
  <2>3. g[0] = a
    BY <2>1
  <2>4. ASSUME NEW i \in 1..n PROVE g[i] = next[<<g[i - 1], i>>]
    <3>1. CASE i = n
      BY SMTT(30), <3>1
    <3>2. CASE i # n
      <4>1. i \in 1..(n - 1)
        BY <3>2
      <4> QED
        BY <2>1, <4>1
    <3> QED
      BY <3>1, <3>2
  <2> HIDE DEF g
  <2> QED
    BY <2>2, <2>3, <2>4
<1>3. N \in G
  <2> HIDE DEF G
  <2> QED
    BY <1>1, <1>2, CountingUp
<1> QED
  BY <1>3 DEF IsByCounting
-----------------------------------------------------------------------------
(* The shape of a tree.  D are its nodes, A and B the children of a node   *)
(* on one side and on the other, P its parent, and sub[n] the nodes of the *)
(* tree whose root is n.  Nothing here depends on which side is which.     *)

Shape(D, A, B, P, root, sub) ==
    /\ NIL \notin D /\ IsFiniteSet(D)
    /\ A \in [D -> D \cup {NIL}] /\ B \in [D -> D \cup {NIL}]
    /\ P \in [D -> D \cup {NIL}] /\ root \in D \cup {NIL}
    /\ sub \in [D \cup {NIL} -> SUBSET D]
    /\ sub[NIL] = {} /\ sub[root] = D
    /\ \A n \in D :
          /\ sub[n] = {n} \cup sub[A[n]] \cup sub[B[n]]
          /\ n \notin sub[A[n]] /\ n \notin sub[B[n]]
          /\ sub[A[n]] \cap sub[B[n]] = {}
          /\ A[n] # NIL => P[A[n]] = n
          /\ B[n] # NIL => P[B[n]] = n
          /\ P[n] = NIL <=> n = root
          /\ P[n] # NIL => n = A[P[n]] \/ n = B[P[n]]
    /\ \A n, m \in D : m \in sub[n] => sub[m] \subseteq sub[n]
    /\ \A n, m \in D : m \in sub[n] /\ m # n => P[m] \in sub[n]

\* The two sides may be exchanged.
LEMMA ShapeMirror ==
    ASSUME NEW D, NEW A, NEW B, NEW P, NEW root, NEW sub,
           Shape(D, A, B, P, root, sub)
    PROVE  Shape(D, B, A, P, root, sub)
  BY DEF Shape

\* What holds of NIL, and of a node if it does of its children, holds of all.
LEMMA TreeInduction ==
    ASSUME NEW D, NEW A, NEW B, NEW P, NEW root, NEW sub,
           Shape(D, A, B, P, root, sub),
           NEW G, NIL \in G,
           \A n \in D : A[n] \in G /\ B[n] \in G => n \in G
    PROVE  \A n \in D : n \in G
<1> SUFFICES ASSUME NEW b \in D, b \notin G PROVE FALSE
  OBVIOUS
<1> DEFINE F == {sub[n] : n \in {m \in D : m \notin G}}
<1>1. F \in SUBSET FiniteSubsetsOf(D) /\ F # {}
  <2>1. \A n \in D : sub[n] \in SUBSET D
    BY DEF Shape
  <2>2. \A S \in SUBSET D : IsFiniteSet(S)
    BY FS_Subset DEF Shape
  <2> QED
    BY <2>1, <2>2 DEF FiniteSubsetsOf
<1>2. PICK S \in F : \A T \in F : T \subseteq S => T = S
  <2> HIDE DEF F
  <2> QED
    BY <1>1, SmallestSet
<1>3. PICK n \in D : n \notin G /\ S = sub[n]
  OBVIOUS
<1>4. A[n] \in D \cup {NIL} /\ B[n] \in D \cup {NIL}
  BY DEF Shape
<1>5. PICK c \in D : c \notin G /\ c \in {A[n], B[n]}
  BY <1>3, <1>4
<1>6. sub[c] \subseteq sub[n] /\ n \in sub[n] /\ n \notin sub[c]
  BY <1>5 DEF Shape
<1>7. sub[c] \in F
  BY <1>5
<1> QED
  BY <1>2, <1>3, <1>6, <1>7

\* f is defined by its values at the children.
IsByTree(D, A, B, T, z, h, f) ==
    /\ f \in [D \cup {NIL} -> T]
    /\ f[NIL] = z /\ \A n \in D : f[n] = h[<<n, f[A[n]], f[B[n]]>>]

\* A function that is defined by its values at the children exists.
LEMMA FunctionByTree ==
    ASSUME NEW D, NEW A, NEW B, NEW P, NEW root, NEW sub,
           Shape(D, A, B, P, root, sub),
           NEW T, NEW z \in T, NEW h \in [D \X T \X T -> T]
    PROVE  \E f : IsByTree(D, A, B, T, z, h, f)
<1> DEFINE Fs == [D \cup {NIL} -> T]
           IsOn(f, S) == /\ f[NIL] = z
                         /\ \A n \in S : f[n] = h[<<n, f[A[n]], f[B[n]]>>]
           G == {n \in D \cup {NIL} : \E f \in Fs : IsOn(f, sub[n])}
<1>1. NIL \in G
  <2> DEFINE g == [n \in D \cup {NIL} |-> z]
  <2>1. g \in Fs /\ g[NIL] = z /\ sub[NIL] = {}
    BY DEF Shape
  <2> HIDE DEF g, Fs
  <2> QED
    BY <2>1
<1>2. ASSUME NEW m \in D, A[m] \in G, B[m] \in G PROVE m \in G
  <2>1. PICK fa \in Fs : IsOn(fa, sub[A[m]])
    BY <1>2
  <2>2. PICK fb \in Fs : IsOn(fb, sub[B[m]])
    BY <1>2
  <2>3. /\ A[m] \in D \cup {NIL} /\ B[m] \in D \cup {NIL} /\ NIL \notin D
        /\ sub[A[m]] \subseteq D /\ sub[B[m]] \subseteq D
        /\ m \notin sub[A[m]] /\ m \notin sub[B[m]]
        /\ sub[A[m]] \cap sub[B[m]] = {}
        /\ sub[m] = {m} \cup sub[A[m]] \cup sub[B[m]]
        /\ A[m] = NIL \/ A[m] \in sub[A[m]]
        /\ B[m] = NIL \/ B[m] \in sub[B[m]]
    BY DEF Shape
  <2>4. \A c \in D \cup {NIL} : \A n \in sub[c] :
           /\ n \in D
           /\ A[n] = NIL \/ A[n] \in sub[c]
           /\ B[n] = NIL \/ B[n] \in sub[c]
    BY DEF Shape
  <2> DEFINE g == [n \in D \cup {NIL} |->
                      IF n \in sub[A[m]] THEN fa[n]
                      ELSE IF n \in sub[B[m]] THEN fb[n]
                      ELSE IF n = m THEN h[<<m, fa[A[m]], fb[B[m]]>>]
                      ELSE z]
  <2>5. g \in Fs
    <3>1. fa[A[m]] \in T /\ fb[B[m]] \in T
      BY <2>1, <2>2, <2>3
    <3> QED
      BY <3>1
  <2>6. /\ g[NIL] = z /\ fa[NIL] = z /\ fb[NIL] = z
        /\ \A n \in sub[A[m]] : g[n] = fa[n]
        /\ \A n \in sub[B[m]] : g[n] = fb[n]
        /\ g[m] = h[<<m, fa[A[m]], fb[B[m]]>>]
    BY <2>1, <2>2, <2>3
  <2> HIDE DEF g, Fs
  <2>7. \A n \in sub[A[m]] : g[n] = h[<<n, g[A[n]], g[B[n]]>>]
    BY <2>1, <2>3, <2>4, <2>6
  <2>8. \A n \in sub[B[m]] : g[n] = h[<<n, g[A[n]], g[B[n]]>>]
    BY <2>2, <2>3, <2>4, <2>6
  <2>9. g[m] = h[<<m, g[A[m]], g[B[m]]>>]
    BY <2>3, <2>6
  <2>10. IsOn(g, sub[m])
    BY <2>3, <2>6, <2>7, <2>8, <2>9
  <2> QED
    BY <2>5, <2>10
<1>3. root \in G
  <2>1. root \in D \cup {NIL}
    BY DEF Shape
  <2> HIDE DEF G
  <2> QED
    BY <1>1, <1>2, <2>1, TreeInduction
<1> QED
  BY <1>3 DEF Shape, IsByTree

\* Facts about a node and its child on one side.
LEMMA ChildFacts ==
    ASSUME NEW D, NEW A, NEW B, NEW P, NEW root, NEW sub,
           Shape(D, A, B, P, root, sub), NEW k \in D, A[k] # NIL
    PROVE  /\ A[k] \in D /\ A[k] # k /\ P[A[k]] = k /\ P[k] # A[k]
           /\ A[k] # B[k] /\ A[k] # root
           /\ \A n \in D : A[n] = A[k] => n = k
           /\ \A n \in D : B[n] # A[k]
           /\ \A n \in D : n \in sub[n]
           /\ sub[A[k]] \subseteq sub[k] /\ k \notin sub[A[k]]
<1>1. A[k] \in D /\ P[A[k]] = k
  BY DEF Shape
<1>2. \A n \in D : n \in sub[n]
  BY DEF Shape
<1>3. k \notin sub[A[k]] /\ sub[A[k]] \subseteq sub[k]
  BY DEF Shape
<1>4. \A n \in D : A[n] = A[k] => n = k
  BY <1>1 DEF Shape
<1>5. \A n \in D : B[n] # A[k]
  <2>1. A[k] # B[k]
    BY <1>1, <1>2 DEF Shape
  <2> QED
    BY <1>1, <2>1 DEF Shape
<1>6. P[k] # A[k]
  <2>1. P[k] # NIL => k \in sub[P[k]]
    BY <1>2 DEF Shape
  <2> QED
    BY <1>1, <1>3, <2>1
<1>7. A[k] # root
  BY <1>1 DEF Shape
<1> QED
  BY <1>1, <1>2, <1>3, <1>4, <1>5, <1>6, <1>7

\* Facts about a node and its parent.
LEMMA ParentFacts ==
    ASSUME NEW D, NEW A, NEW B, NEW P, NEW root, NEW sub,
           Shape(D, A, B, P, root, sub), NEW k \in D
    PROVE  /\ NIL \notin D /\ P[k] \in D \cup {NIL} /\ P[k] # k
           /\ P[k] # NIL => k # root /\ (k = A[P[k]] \/ k = B[P[k]])
           /\ P[k] = NIL => k = root
           /\ k \in sub[k] /\ sub[k] \in SUBSET D /\ IsFiniteSet(sub[k])
<1>1. /\ NIL \notin D /\ IsFiniteSet(D) /\ P[k] \in D \cup {NIL}
      /\ sub[k] = {k} \cup sub[A[k]] \cup sub[B[k]]
      /\ k \notin sub[A[k]] /\ k \notin sub[B[k]]
      /\ P[k] = NIL <=> k = root
      /\ P[k] # NIL => k = A[P[k]] \/ k = B[P[k]]
      /\ sub[k] \in SUBSET D
  BY DEF Shape
<1>2. P[k] # k
  BY <1>1
<1>3. IsFiniteSet(sub[k])
  BY <1>1, FS_Subset
<1> QED
  BY <1>1, <1>2, <1>3

\* A2, B2, P2 and root2 are the tree after the child of k on side A has taken the
\* place of k, and k its child on side B.
Rotated(D, A, B, P, root, k, A2, B2, P2, root2) ==
    LET up == A[k]
        inner == B[up]
    IN  /\ A2 \in [D -> D \cup {NIL}] /\ B2 \in [D -> D \cup {NIL}]
        /\ P2 \in [D -> D \cup {NIL}]
        /\ root2 = IF P[k] = NIL THEN up ELSE root
        /\ A2[k] = inner /\ B2[k] = B[k] /\ P2[k] = up
        /\ A2[up] = A[up] /\ B2[up] = k /\ P2[up] = P[k]
        /\ \A n \in D \ {k, up} :
              /\ A2[n] = IF A[n] = k THEN up ELSE A[n]
              /\ B2[n] = IF B[n] = k THEN up ELSE B[n]
              /\ P2[n] = IF n = inner THEN k ELSE P[n]

SubRotated(A, B, k, sub) ==
    [sub EXCEPT ![k] = (sub[k] \ sub[A[k]]) \cup sub[B[A[k]]], ![A[k]] = sub[k]]

\* A rotation makes a tree of the same nodes.
LEMMA RotateShape ==
    ASSUME NEW D, NEW A, NEW B, NEW P, NEW root, NEW sub,
           Shape(D, A, B, P, root, sub), NEW k \in D, A[k] # NIL,
           NEW A2, NEW B2, NEW P2, NEW root2,
           Rotated(D, A, B, P, root, k, A2, B2, P2, root2)
    PROVE  Shape(D, A2, B2, P2, root2, SubRotated(A, B, k, sub))
<1> DEFINE up == A[k]
           inner == B[up]
           sub2 == SubRotated(A, B, k, sub)
<1>1. /\ up \in D /\ up # k /\ P[up] = k /\ P[k] # up /\ up # B[k] /\ up # root
      /\ \A n \in D : A[n] = up => n = k
      /\ \A n \in D : B[n] # up
      /\ \A n \in D : n \in sub[n]
      /\ sub[up] \subseteq sub[k] /\ k \notin sub[up]
  BY ChildFacts
<1>2. /\ NIL \notin D /\ IsFiniteSet(D) /\ root \in D \cup {NIL} /\ sub[NIL] = {}
      /\ A \in [D -> D \cup {NIL}] /\ B \in [D -> D \cup {NIL}]
      /\ P \in [D -> D \cup {NIL}]
      /\ sub \in [D \cup {NIL} -> SUBSET D]
  BY DEF Shape
<1>3. /\ sub2 \in [D \cup {NIL} -> SUBSET D]
      /\ sub2[up] = sub[k]
      /\ sub2[k] = (sub[k] \ sub[up]) \cup sub[inner]
      /\ \A n \in D \cup {NIL} : n \notin {k, up} => sub2[n] = sub[n]
  BY <1>1, <1>2 DEF SubRotated
<1>4. /\ inner \in D \cup {NIL} /\ inner # k /\ inner # up
      /\ inner # NIL => P[inner] = up
      /\ up \notin sub[inner] /\ sub[inner] \subseteq sub[up]
      /\ sub[up] = {up} \cup sub[A[up]] \cup sub[inner]
      /\ up \notin sub[A[up]]
      /\ sub[A[up]] \cap sub[inner] = {}
      /\ A[up] \notin {up, k} /\ A[up] \in D \cup {NIL}
  <2>1. inner # NIL => P[inner] = up /\ inner # up /\ inner \in D
    BY <1>1, <1>2 DEF Shape
  <2>2. A[up] # NIL => P[A[up]] = up /\ A[up] # up /\ A[up] \in D
    BY <1>1, <1>2 DEF Shape
  <2> QED
    BY <1>1, <1>2, <2>1, <2>2 DEF Shape
<1>5. /\ B[k] \in D \cup {NIL} /\ B[k] \notin {k, up}
      /\ B[k] # NIL => P[B[k]] = k
      /\ sub[k] = {k} \cup sub[up] \cup sub[B[k]]
      /\ k \notin sub[B[k]]
      /\ sub[up] \cap sub[B[k]] = {}
  BY <1>1, <1>2 DEF Shape
<1>6. sub2[k] = {k} \cup sub[inner] \cup sub[B[k]]
  BY <1>1, <1>3, <1>4, <1>5
<1>7. /\ A2[k] = inner /\ B2[k] = B[k] /\ P2[k] = up
      /\ A2[up] = A[up] /\ B2[up] = k /\ P2[up] = P[k]
      /\ root2 = IF P[k] = NIL THEN up ELSE root
      /\ A2 \in [D -> D \cup {NIL}] /\ B2 \in [D -> D \cup {NIL}]
      /\ P2 \in [D -> D \cup {NIL}]
      /\ \A n \in D \ {k, up} :
            /\ A2[n] = IF A[n] = k THEN up ELSE A[n]
            /\ B2[n] = IF B[n] = k THEN up ELSE B[n]
            /\ P2[n] = IF n = inner THEN k ELSE P[n]
  BY DEF Rotated
<1>8. \A n \in D \ {k, up} : sub2[A2[n]] = sub[A[n]] /\ sub2[B2[n]] = sub[B[n]]
  BY <1>1, <1>2, <1>3, <1>7
<1>9. /\ sub2[A2[k]] = sub[inner] /\ sub2[B2[k]] = sub[B[k]]
      /\ sub2[A2[up]] = sub[A[up]] /\ sub2[B2[up]] = sub2[k]
  BY <1>3, <1>4, <1>5, <1>7
<1> HIDE DEF up, inner, sub2
<1>10. ASSUME NEW n \in D
       PROVE  /\ sub2[n] = {n} \cup sub2[A2[n]] \cup sub2[B2[n]]
              /\ n \notin sub2[A2[n]] /\ n \notin sub2[B2[n]]
              /\ sub2[A2[n]] \cap sub2[B2[n]] = {}
  <2>1. CASE n = k
    BY <1>1, <1>4, <1>5, <1>6, <1>9, <2>1
  <2>2. CASE n = up
    BY <1>1, <1>3, <1>4, <1>5, <1>6, <1>9, <2>2
  <2>3. CASE n \notin {k, up}
    <3>1. /\ sub[n] = {n} \cup sub[A[n]] \cup sub[B[n]]
          /\ n \notin sub[A[n]] /\ n \notin sub[B[n]]
          /\ sub[A[n]] \cap sub[B[n]] = {}
      BY DEF Shape
    <3> QED
      BY <1>3, <1>8, <2>3, <3>1
  <2> QED
    BY <2>1, <2>2, <2>3
<1>11. \A n \in D : /\ A[n] # NIL => P[A[n]] = n
                    /\ B[n] # NIL => P[B[n]] = n
                    /\ P[n] = NIL <=> n = root
                    /\ P[n] # NIL => n = A[P[n]] \/ n = B[P[n]]
  BY DEF Shape
<1>12. ASSUME NEW n \in D
       PROVE  /\ A2[n] # NIL => P2[A2[n]] = n
              /\ B2[n] # NIL => P2[B2[n]] = n
  <2>1. CASE n = k
    BY <1>1, <1>2, <1>4, <1>5, <1>7, <1>11, <2>1
  <2>2. CASE n = up
    BY <1>1, <1>2, <1>4, <1>5, <1>7, <1>11, <2>2
  <2>3. CASE n \notin {k, up}
    <3>1. A[n] # inner \/ inner = NIL
      BY <1>4, <1>11, <2>3
    <3>2. B[n] # inner \/ inner = NIL
      BY <1>4, <1>11, <2>3
    <3> QED
      BY <1>1, <1>2, <1>4, <1>7, <1>11, <2>3, <3>1, <3>2
  <2> QED
    BY <2>1, <2>2, <2>3
<1>13. ASSUME NEW n \in D
       PROVE  /\ P2[n] = NIL <=> n = root2
              /\ P2[n] # NIL => n = A2[P2[n]] \/ n = B2[P2[n]]
  <2>1. CASE n = k
    BY <1>1, <1>2, <1>7, <1>11, <2>1
  <2>2. CASE n = up
    <3>1. P[k] # NIL => P[k] \in D \ {k, up}
      <4>1. A[k] # k /\ B[k] # k
        BY <1>1, <1>5 DEF up
      <4> QED
        BY <1>1, <1>2, <1>11, <4>1
    <3> QED
      BY <1>1, <1>7, <1>11, <2>2, <3>1
  <2>3. CASE n = inner
    BY <1>1, <1>2, <1>4, <1>7, <1>11, <2>3
  <2>4. CASE n \notin {k, up, inner}
    <3>1. P2[n] = P[n]
      BY <1>7, <2>4
    <3>2. P2[n] = NIL <=> n = root2
      BY <1>1, <1>2, <1>7, <1>11, <2>4, <3>1
    <3>3. CASE P[n] = k
      BY <1>1, <1>7, <1>11, <2>4, <3>1, <3>2, <3>3
    <3>4. CASE P[n] = up
      <4>1. n = A[up]
        BY <1>2, <1>1, <1>11, <2>4, <3>4 DEF inner
      <4> QED
        BY <1>7, <3>1, <3>2, <3>4, <4>1
    <3>5. CASE P[n] \notin {k, up}
      BY <1>1, <1>2, <1>7, <1>11, <2>4, <3>1, <3>2, <3>5
    <3> QED
      BY <3>3, <3>4, <3>5
  <2> QED
    BY <2>1, <2>2, <2>3, <2>4
<1>14. /\ \A n, m \in D : m \in sub[n] => sub[m] \subseteq sub[n]
       /\ \A n, m \in D : m \in sub[n] /\ m # n => P[m] \in sub[n]
  BY DEF Shape
<1>15. sub2[k] \subseteq sub[k]
  BY <1>1, <1>3, <1>4
<1>16. \A n \in D \ {k, up} : up \in sub[n] => k \in sub[n]
  BY <1>1, <1>14
<1>17. ASSUME NEW n \in D, NEW m \in D, m \in sub2[n]
       PROVE  sub2[m] \subseteq sub2[n] /\ (m # n => P2[m] \in sub2[n])
  <2>1. CASE n = up
    <3>1. m \in sub[k] /\ sub2[n] = sub[k]
      BY <1>3, <1>17, <2>1
    <3>2. sub2[m] \subseteq sub[k]
      BY <1>3, <1>15, <1>14, <3>1
    <3>3. ASSUME m # up PROVE P2[m] \in sub[k]
      <4>1. up \in sub[k] /\ k \in sub[k]
        BY <1>1
      <4>2. CASE m = k
        BY <1>7, <4>1, <4>2
      <4>3. CASE m # k
        BY <1>7, <1>14, <3>1, <3>3, <4>1, <4>3
      <4> QED
        BY <4>2, <4>3
    <3> QED
      BY <2>1, <3>1, <3>2, <3>3
  <2>2. CASE n = k
    <3>1. m # up /\ up \notin sub2[k]
      BY <1>1, <1>4, <1>5, <1>6, <1>17, <2>2
    <3>2. CASE m = k
      BY <2>2, <3>2
    <3>3. CASE m \in sub[inner]
      <4>1. inner \in D
        BY <1>2, <1>4, <3>3
      <4>2. m # k /\ sub[m] \subseteq sub[inner]
        BY <1>1, <1>4, <1>14, <3>3, <4>1
      <4>3. m # inner => P2[m] \in sub[inner]
        BY <1>7, <1>14, <3>1, <3>3, <4>1, <4>2
      <4>4. m = inner => P2[m] = k
        BY <1>7, <3>1, <4>2
      <4> QED
        BY <1>3, <1>6, <2>2, <3>1, <4>2, <4>3, <4>4
    <3>4. CASE m \in sub[B[k]]
      <4>1. B[k] \in D
        BY <1>2, <1>5, <3>4
      <4>2. m # k /\ sub[m] \subseteq sub[B[k]] /\ m # inner
        <5>1. inner # NIL => inner \in sub[up]
          BY <1>1, <1>4
        <5> QED
          BY <1>1, <1>2, <1>4, <1>5, <1>14, <3>4, <4>1, <5>1
      <4>3. m # B[k] => P[m] \in sub[B[k]]
        BY <1>14, <3>4, <4>1
      <4>4. P2[m] = P[m]
        BY <1>7, <3>1, <4>2
      <4>5. m = B[k] => P[m] = k
        BY <1>5, <4>1, <1>2
      <4> QED
        BY <1>3, <1>6, <2>2, <3>1, <4>2, <4>3, <4>4, <4>5
    <3> QED
      BY <1>6, <1>17, <2>2, <3>2, <3>3, <3>4
  <2>3. CASE n \notin {k, up}
    <3>1. sub2[n] = sub[n] /\ m \in sub[n]
      BY <1>3, <1>17, <2>3
    <3>2. up \in sub[n] => k \in sub[n]
      BY <1>16, <2>3
    <3>3. k \in sub[n] => sub[k] \subseteq sub[n]
      BY <1>14
    <3>4. sub2[m] \subseteq sub[n]
      BY <1>3, <1>14, <1>15, <3>1, <3>2, <3>3
    <3>5. k \in sub[n] => up \in sub[n] /\ P[k] \in sub[n]
      BY <1>1, <1>14, <2>3, <3>3
    <3>6. inner \in sub[n] /\ inner # n => k \in sub[n]
      <4>1. inner \in sub[n] /\ inner # n => up \in sub[n]
        BY <1>2, <1>4, <1>14, <3>1
      <4> QED
        BY <4>1, <3>2
    <3>7. m # n => P[m] \in sub[n]
      BY <1>14, <3>1
    <3>8. m # n => P2[m] \in sub[n]
      BY <1>7, <3>1, <3>2, <3>5, <3>6, <3>7
    <3> QED
      BY <3>1, <3>4, <3>8
  <2> QED
    BY <2>1, <2>2, <2>3
<1>18. sub2[root2] = D /\ root2 \in D \cup {NIL}
  <2>1. sub[root] = D
    BY DEF Shape
  <2> QED
    BY <1>1, <1>2, <1>3, <1>7, <1>11, <2>1
<1>19. sub2[NIL] = {}
  BY <1>1, <1>2, <1>3
<1>20. \A n \in D : /\ sub2[n] = {n} \cup sub2[A2[n]] \cup sub2[B2[n]]
                    /\ n \notin sub2[A2[n]] /\ n \notin sub2[B2[n]]
                    /\ sub2[A2[n]] \cap sub2[B2[n]] = {}
                    /\ A2[n] # NIL => P2[A2[n]] = n
                    /\ B2[n] # NIL => P2[B2[n]] = n
                    /\ P2[n] = NIL <=> n = root2
                    /\ P2[n] # NIL => n = A2[P2[n]] \/ n = B2[P2[n]]
  BY <1>10, <1>12, <1>13
<1>21. /\ \A n, m \in D : m \in sub2[n] => sub2[m] \subseteq sub2[n]
       /\ \A n, m \in D : m \in sub2[n] /\ m # n => P2[m] \in sub2[n]
  BY <1>17
<1>22. Shape(D, A2, B2, P2, root2, sub2)
  BY <1>2, <1>3, <1>7, <1>18, <1>19, <1>20, <1>21 DEF Shape
<1> QED
  BY <1>22 DEF sub2

\* Every node comes after the nodes on its side A and before those on its side B,
\* in the order le.
Ordered(D, A, B, sub, le) ==
    \A n \in D : /\ \A m \in sub[A[n]] : <<m, n>> \in le
                 /\ \A m \in sub[B[n]] : <<n, m>> \in le

IsTransitive(le) ==
    \A a, b, c : <<a, b>> \in le /\ <<b, c>> \in le => <<a, c>> \in le

\* A rotation keeps the order.
LEMMA RotateOrdered ==
    ASSUME NEW D, NEW A, NEW B, NEW P, NEW root, NEW sub,
           Shape(D, A, B, P, root, sub), NEW k \in D, A[k] # NIL,
           NEW A2, NEW B2, NEW P2, NEW root2,
           Rotated(D, A, B, P, root, k, A2, B2, P2, root2),
           NEW le, IsTransitive(le), Ordered(D, A, B, sub, le)
    PROVE  Ordered(D, A2, B2, SubRotated(A, B, k, sub), le)
<1> DEFINE up == A[k]
           inner == B[up]
           sub2 == SubRotated(A, B, k, sub)
<1>1. /\ up \in D /\ up # k /\ P[k] # up /\ up # B[k]
      /\ \A n \in D : A[n] = up => n = k
      /\ \A n \in D : B[n] # up
      /\ \A n \in D : n \in sub[n]
      /\ k \notin sub[up]
  BY ChildFacts
<1>2. /\ NIL \notin D
      /\ A \in [D -> D \cup {NIL}] /\ B \in [D -> D \cup {NIL}]
      /\ sub \in [D \cup {NIL} -> SUBSET D]
      /\ sub[k] = {k} \cup sub[up] \cup sub[B[k]]
      /\ sub[up] = {up} \cup sub[A[up]] \cup sub[inner]
      /\ inner # k /\ inner # up /\ B[k] # k /\ A[up] # up /\ A[up] # k
  <2>1. inner # NIL => P[inner] = up
    BY <1>1 DEF Shape
  <2>2. A[up] # NIL => P[A[up]] = up
    BY <1>1 DEF Shape
  <2>3. up \notin sub[A[up]] /\ up \notin sub[inner] /\ k \notin sub[B[k]]
    BY <1>1 DEF Shape
  <2> QED
    BY <1>1, <2>1, <2>2, <2>3 DEF Shape
<1>3. /\ sub2[up] = sub[k]
      /\ sub2[k] \subseteq {k} \cup sub[inner] \cup sub[B[k]]
      /\ \A n \in D \cup {NIL} : n \notin {k, up} => sub2[n] = sub[n]
  BY <1>1, <1>2 DEF SubRotated
<1>4. /\ A2[k] = inner /\ B2[k] = B[k]
      /\ A2[up] = A[up] /\ B2[up] = k
      /\ \A n \in D \ {k, up} :
            /\ A2[n] = IF A[n] = k THEN up ELSE A[n]
            /\ B2[n] = IF B[n] = k THEN up ELSE B[n]
  BY DEF Rotated
<1>5. /\ sub2[A2[k]] = sub[inner] /\ sub2[B2[k]] = sub[B[k]]
      /\ sub2[A2[up]] = sub[A[up]] /\ sub2[B2[up]] = sub2[k]
      /\ \A n \in D \ {k, up} : sub2[A2[n]] = sub[A[n]] /\ sub2[B2[n]] = sub[B[n]]
  BY ZenonT(40), <1>1, <1>2, <1>3, <1>4
<1>6. \A n \in D : /\ \A m \in sub[A[n]] : <<m, n>> \in le
                   /\ \A m \in sub[B[n]] : <<n, m>> \in le
  BY DEF Ordered
<1>7. <<up, k>> \in le
  BY <1>1, <1>6
<1>8. \A m \in sub2[k] : <<up, m>> \in le
  <2>1. \A m \in sub[B[k]] : <<up, m>> \in le
    BY <1>6, <1>7 DEF IsTransitive
  <2> QED
    BY <1>1, <1>3, <1>6, <1>7, <2>1
<1>9. \A m \in sub[inner] : <<m, k>> \in le
  BY <1>2, <1>6
<1> HIDE DEF sub2, up, inner
<1>10. Ordered(D, A2, B2, sub2, le)
  BY <1>1, <1>5, <1>6, <1>8, <1>9 DEF Ordered, up
<1> QED
  BY <1>10 DEF sub2

\* The other way round, the order is the inverse one.
LEMMA OrderedMirror ==
    ASSUME NEW D, NEW A, NEW B, NEW sub, NEW le, NEW ge,
           \A a, b \in D : <<a, b>> \in le <=> <<b, a>> \in ge,
           \A n \in D : sub[A[n]] \subseteq D /\ sub[B[n]] \subseteq D,
           Ordered(D, A, B, sub, le)
    PROVE  Ordered(D, B, A, sub, ge)
  BY DEF Ordered

\* The tree with a new node as the child of p on side A.
Attached(D, A, B, P, p, new, A2, B2, P2) ==
    /\ A2 \in [D \cup {new} -> D \cup {new} \cup {NIL}]
    /\ B2 \in [D \cup {new} -> D \cup {new} \cup {NIL}]
    /\ P2 \in [D \cup {new} -> D \cup {new} \cup {NIL}]
    /\ A2[new] = NIL /\ B2[new] = NIL /\ P2[new] = p /\ A2[p] = new
    /\ \A n \in D : /\ n # p => A2[n] = A[n]
                    /\ B2[n] = B[n] /\ P2[n] = P[n]

\* C2 are the colours C with a red new node.
RedAdded(D, new, C, C2) ==
    /\ C2 \in [D \cup {new} -> {"red", "black"}]
    /\ C2[new] = "red" /\ \A n \in D : C2[n] = C[n]

SubAttached(D, p, new, sub) ==
    [n \in D \cup {new, NIL} |->
        IF n = new THEN {new}
        ELSE IF p \in sub[n] THEN sub[n] \cup {new} ELSE sub[n]]

\* A new leaf makes a tree of one more node.
LEMMA AttachShape ==
    ASSUME NEW D, NEW A, NEW B, NEW P, NEW root, NEW sub,
           Shape(D, A, B, P, root, sub), NEW p \in D, A[p] = NIL,
           NEW new, new \notin D, new # NIL,
           NEW A2, NEW B2, NEW P2,
           Attached(D, A, B, P, p, new, A2, B2, P2)
    PROVE  Shape(D \cup {new}, A2, B2, P2, root, SubAttached(D, p, new, sub))
<1> DEFINE D2 == D \cup {new}
           sub2 == SubAttached(D, p, new, sub)
<1>1. /\ NIL \notin D /\ root \in D \cup {NIL} /\ sub[NIL] = {}
      /\ A \in [D -> D \cup {NIL}] /\ B \in [D -> D \cup {NIL}]
      /\ P \in [D -> D \cup {NIL}]
      /\ sub \in [D \cup {NIL} -> SUBSET D]
      /\ sub[root] = D
  BY DEF Shape
<1>2. IsFiniteSet(D2) /\ NIL \notin D2
  BY FS_AddElement DEF Shape
<1>3. /\ A2 \in [D2 -> D2 \cup {NIL}] /\ B2 \in [D2 -> D2 \cup {NIL}]
      /\ P2 \in [D2 -> D2 \cup {NIL}]
      /\ A2[new] = NIL /\ B2[new] = NIL /\ P2[new] = p /\ A2[p] = new
      /\ \A n \in D : /\ n # p => A2[n] = A[n]
                      /\ B2[n] = B[n] /\ P2[n] = P[n]
  BY <1>1 DEF Attached
<1>4. /\ sub2 \in [D2 \cup {NIL} -> SUBSET D2]
      /\ sub2[new] = {new} /\ sub2[NIL] = {}
      /\ \A n \in D : sub2[n] = IF p \in sub[n] THEN sub[n] \cup {new} ELSE sub[n]
  BY <1>1 DEF SubAttached
<1>5. \A n \in D :
          /\ sub[n] = {n} \cup sub[A[n]] \cup sub[B[n]]
          /\ n \notin sub[A[n]] /\ n \notin sub[B[n]]
          /\ sub[A[n]] \cap sub[B[n]] = {}
  BY DEF Shape
<1>6. \A n \in D : /\ A[n] # NIL => P[A[n]] = n
                   /\ B[n] # NIL => P[B[n]] = n
                   /\ P[n] = NIL <=> n = root
                   /\ P[n] # NIL => n = A[P[n]] \/ n = B[P[n]]
  BY DEF Shape
<1>7. /\ \A n, m \in D : m \in sub[n] => sub[m] \subseteq sub[n]
      /\ \A n, m \in D : m \in sub[n] /\ m # n => P[m] \in sub[n]
  BY DEF Shape
<1> HIDE DEF sub2
<1>8. ASSUME NEW n \in D2
      PROVE  /\ sub2[n] = {n} \cup sub2[A2[n]] \cup sub2[B2[n]]
             /\ n \notin sub2[A2[n]] /\ n \notin sub2[B2[n]]
             /\ sub2[A2[n]] \cap sub2[B2[n]] = {}
  <2>1. CASE n = new
    BY <1>3, <1>4, <2>1
  <2>2. CASE n = p
    BY <1>1, <1>3, <1>4, <1>5, <2>2
  <2>3. CASE n \in D \ {p}
    <3>1. /\ A2[n] = A[n] /\ B2[n] = B[n]
          /\ A[n] \in D \cup {NIL} /\ B[n] \in D \cup {NIL}
      BY <1>1, <1>3, <2>3
    <3>2. /\ sub2[A[n]] = IF p \in sub[A[n]] THEN sub[A[n]] \cup {new} ELSE sub[A[n]]
          /\ sub2[B[n]] = IF p \in sub[B[n]] THEN sub[B[n]] \cup {new} ELSE sub[B[n]]
          /\ sub2[n] = IF p \in sub[n] THEN sub[n] \cup {new} ELSE sub[n]
      BY <1>1, <1>4, <2>3, <3>1
    <3> QED
      BY <1>1, <1>5, <2>3, <3>1, <3>2
  <2> QED
    BY <2>1, <2>2, <2>3
<1>9. ASSUME NEW n \in D2
      PROVE  /\ A2[n] # NIL => P2[A2[n]] = n
             /\ B2[n] # NIL => P2[B2[n]] = n
             /\ P2[n] = NIL <=> n = root
             /\ P2[n] # NIL => n = A2[P2[n]] \/ n = B2[P2[n]]
  <2>1. CASE n = new
    BY <1>1, <1>3, <2>1
  <2>2. CASE n \in D
    <3>1. P[n] = p => n = B[p]
      BY <1>1, <1>6, <2>2
    <3> QED
      BY <1>1, <1>3, <1>6, <2>2, <3>1
  <2> QED
    BY <2>1, <2>2
<1>10. ASSUME NEW n \in D2, NEW m \in D2, m \in sub2[n]
       PROVE  sub2[m] \subseteq sub2[n] /\ (m # n => P2[m] \in sub2[n])
  <2>1. CASE n = new
    BY <1>4, <1>10, <2>1
  <2>2. CASE n \in D /\ m = new
    BY <1>1, <1>3, <1>4, <1>10, <2>2
  <2>3. CASE n \in D /\ m \in D
    BY <1>3, <1>4, <1>7, <1>10, <2>3
  <2> QED
    BY <2>1, <2>2, <2>3
<1>11. sub2[root] = D2
  BY <1>1, <1>4
<1>12. Shape(D2, A2, B2, P2, root, sub2)
  <2>1. D2 \cup {NIL} = D \cup {new, NIL} /\ root \in D2 \cup {NIL}
    BY <1>1
  <2> HIDE DEF D2
  <2> QED
    BY <1>2, <1>3, <1>4, <1>8, <1>9, <1>10, <1>11, <2>1 DEF Shape
<1> QED
  BY <1>12 DEF sub2

\* n is where a node like new belongs, as far as the nodes above n go.
Fits(D, A, B, sub, le, new, n) ==
    \A m \in D : /\ n \in sub[A[m]] => <<new, m>> \in le
                 /\ n \in sub[B[m]] => <<m, new>> \in le

\* The order after a new leaf was put where it belongs.
LEMMA AttachOrdered ==
    ASSUME NEW D, NEW A, NEW B, NEW P, NEW root, NEW sub,
           Shape(D, A, B, P, root, sub), NEW p \in D, A[p] = NIL,
           NEW new, new \notin D, new # NIL,
           NEW A2, NEW B2, NEW P2,
           Attached(D, A, B, P, p, new, A2, B2, P2),
           NEW le, Ordered(D, A, B, sub, le),
           Fits(D, A, B, sub, le, new, p), <<new, p>> \in le
    PROVE  Ordered(D \cup {new}, A2, B2, SubAttached(D, p, new, sub), le)
<1> DEFINE sub2 == SubAttached(D, p, new, sub)
<1>1. /\ NIL \notin D /\ sub[NIL] = {}
      /\ A \in [D -> D \cup {NIL}] /\ B \in [D -> D \cup {NIL}]
      /\ sub \in [D \cup {NIL} -> SUBSET D]
      /\ p \notin sub[B[p]]
  BY DEF Shape
<1>2. /\ A2[new] = NIL /\ B2[new] = NIL /\ A2[p] = new
      /\ \A n \in D : (n # p => A2[n] = A[n]) /\ B2[n] = B[n]
  BY <1>1 DEF Attached
<1>3. /\ sub2[new] = {new} /\ sub2[NIL] = {}
      /\ \A n \in D : sub2[n] = IF p \in sub[n] THEN sub[n] \cup {new} ELSE sub[n]
  BY <1>1 DEF SubAttached
<1> HIDE DEF sub2
<1>4. ASSUME NEW n \in D
      PROVE  /\ \A m \in sub2[A2[n]] : <<m, n>> \in le
             /\ \A m \in sub2[B2[n]] : <<n, m>> \in le
  <2>1. \A m \in sub2[B2[n]] : m \in sub[B[n]] \/ (m = new /\ p \in sub[B[n]])
    BY ZenonT(40), <1>1, <1>2, <1>3
  <2>2. CASE n = p
    BY <1>1, <1>2, <1>3, <2>1, <2>2 DEF Ordered
  <2>3. CASE n # p
    <3>1. \A m \in sub2[A2[n]] : m \in sub[A[n]] \/ (m = new /\ p \in sub[A[n]])
      BY ZenonT(40), <1>1, <1>2, <1>3, <2>3
    <3> QED
      BY <2>1, <3>1 DEF Ordered, Fits
  <2> QED
    BY <2>2, <2>3
<1>5. Ordered(D \cup {new}, A2, B2, sub2, le)
  BY <1>2, <1>3, <1>4 DEF Ordered
<1> QED
  BY <1>5 DEF sub2
-----------------------------------------------------------------------------
(* Colours.  C[n] is the colour of a node and bh[n] the number of black    *)
(* nodes on every path from it down.                                       *)

Heights(D, A, B, C, bh) ==
    /\ C \in [D -> {"red", "black"}]
    /\ bh \in [D \cup {NIL} -> Nat] /\ bh[NIL] = 0
    /\ \A n \in D : /\ bh[A[n]] = bh[B[n]]
                    /\ C[n] = "red" => bh[n] = bh[A[n]]
                    /\ C[n] = "black" => bh[n] = bh[A[n]] + 1

\* No red node but x has a red parent.
RedsApart(D, P, C, x) ==
    \A n \in D : n # x /\ C[n] = "red" /\ P[n] # NIL => C[P[n]] = "black"

\* What fix_insert keeps while it goes up: x, the node it is at, is red, and
\* nothing but x and its parent, or x as the root, is wrong.
Fixing(D, A, B, P, root, C, bh, x) ==
    /\ Heights(D, A, B, C, bh) /\ RedsApart(D, P, C, x)
    /\ x \in D /\ C[x] = "red"
    /\ root # x => C[root] = "black"

\* The colours of a red-black tree.
WellColored(D, A, B, P, root, C, bh) ==
    /\ Heights(D, A, B, C, bh) /\ RedsApart(D, P, C, NIL)
    /\ root # NIL => C[root] = "black"

\* The colours that a turn of fix_insert sets.
BlackRed(C, p, g) == [C EXCEPT ![p] = "black", ![g] = "red"]

BlackRedBlack(C, p, g, u) == [C EXCEPT ![p] = "black", ![g] = "red", ![u] = "black"]

Colored(C, n, col) == [C EXCEPT ![n] = col]

\* Nothing here depends on the side.
LEMMA ColorsMirror ==
    ASSUME NEW D, NEW A, NEW B, NEW P, NEW root, NEW C, NEW bh
    PROVE  /\ Heights(D, A, B, C, bh) <=> Heights(D, B, A, C, bh)
           /\ \A x : Fixing(D, A, B, P, root, C, bh, x)
                        <=> Fixing(D, B, A, P, root, C, bh, x)
           /\ WellColored(D, A, B, P, root, C, bh)
                        <=> WellColored(D, B, A, P, root, C, bh)
<1>1. Heights(D, A, B, C, bh) <=> Heights(D, B, A, C, bh)
  BY DEF Heights
<1> QED
  BY <1>1 DEF Fixing, WellColored

\* The new leaf is red.
LEMMA AttachColors ==
    ASSUME NEW D, NEW A, NEW B, NEW P, NEW root, NEW sub,
           Shape(D, A, B, P, root, sub), NEW p \in D, A[p] = NIL,
           NEW new, new \notin D, new # NIL,
           NEW A2, NEW B2, NEW P2,
           Attached(D, A, B, P, p, new, A2, B2, P2),
           NEW C, NEW bh, WellColored(D, A, B, P, root, C, bh),
           NEW C2, RedAdded(D, new, C, C2)
    PROVE  \E bh2 : Fixing(D \cup {new}, A2, B2, P2, root, C2, bh2, new)
<1> DEFINE bh2 == [n \in D \cup {new, NIL} |-> IF n = new THEN 0 ELSE bh[n]]
<1>1. /\ NIL \notin D /\ root \in D
      /\ A \in [D -> D \cup {NIL}] /\ B \in [D -> D \cup {NIL}]
      /\ P \in [D -> D \cup {NIL}]
  BY DEF Shape
<1>2. /\ A2[new] = NIL /\ B2[new] = NIL /\ A2[p] = new
      /\ \A n \in D : (n # p => A2[n] = A[n]) /\ B2[n] = B[n] /\ P2[n] = P[n]
  BY <1>1 DEF Attached
<1>3. /\ C \in [D -> {"red", "black"}]
      /\ bh \in [D \cup {NIL} -> Nat] /\ bh[NIL] = 0
      /\ \A n \in D : /\ bh[A[n]] = bh[B[n]]
                      /\ C[n] = "red" => bh[n] = bh[A[n]]
                      /\ C[n] = "black" => bh[n] = bh[A[n]] + 1
  BY DEF WellColored, Heights
<1>4. /\ bh2 \in [(D \cup {new}) \cup {NIL} -> Nat] /\ bh2[NIL] = 0
      /\ bh2[new] = 0 /\ \A n \in D : bh2[n] = bh[n]
  BY <1>1, <1>3
<1>5. /\ C2 \in [D \cup {new} -> {"red", "black"}] /\ C2[new] = "red"
      /\ \A n \in D : C2[n] = C[n]
  BY DEF RedAdded
<1> HIDE DEF bh2
<1>6. ASSUME NEW n \in D
      PROVE  /\ bh2[A2[n]] = bh2[B2[n]]
             /\ C2[n] = "red" => bh2[n] = bh2[A2[n]]
             /\ C2[n] = "black" => bh2[n] = bh2[A2[n]] + 1
  BY <1>1, <1>2, <1>3, <1>4, <1>5
<1>7. Heights(D \cup {new}, A2, B2, C2, bh2)
  BY <1>2, <1>4, <1>5, <1>6 DEF Heights
<1>8. RedsApart(D \cup {new}, P2, C2, new)
  BY <1>1, <1>2, <1>5 DEF RedsApart, WellColored
<1>9. root # new => C2[root] = "black"
  BY <1>1, <1>5 DEF WellColored
<1> QED
  BY <1>5, <1>7, <1>8, <1>9 DEF Fixing

\* p is the red parent of x, on side A of its parent g, and u its red brother.
HasRedUncle(D, A, B, P, C, x, p, g, u) ==
    /\ p \in D /\ p = P[x] /\ C[p] = "red"
    /\ g \in D /\ g = P[p] /\ p = A[g]
    /\ u \in D /\ u = B[g] /\ C[u] = "red"

\* The turn of fix_insert that only recolours.
LEMMA RecolorColors ==
    ASSUME NEW D, NEW A, NEW B, NEW P, NEW root, NEW sub,
           Shape(D, A, B, P, root, sub),
           NEW C, NEW bh, NEW x, Fixing(D, A, B, P, root, C, bh, x),
           NEW p, NEW g, NEW u, HasRedUncle(D, A, B, P, C, x, p, g, u),
           NEW C2, C2 = BlackRedBlack(C, p, g, u)
    PROVE  /\ \E bh2 : Fixing(D, A, B, P, root, C2, bh2, g)
           /\ sub[x] \subseteq sub[g] /\ sub[x] # sub[g]
<1> USE DEF BlackRedBlack
<1>0. /\ p \in D /\ p = P[x] /\ C[p] = "red"
      /\ g \in D /\ g = P[p] /\ p = A[g]
      /\ u \in D /\ u = B[g] /\ C[u] = "red"
  BY DEF HasRedUncle
<1> USE <1>0
<1> DEFINE bh2 == [bh EXCEPT ![p] = @ + 1, ![u] = @ + 1]
<1>1. /\ NIL \notin D /\ p # g /\ u # g /\ p # u /\ x # p /\ x \in D /\ P[u] = g
      /\ \A n \in D : n \in sub[n]
      /\ sub[x] \subseteq sub[p] /\ sub[p] \subseteq sub[g] /\ g \notin sub[p]
  <2>1. x \in D
    BY DEF Fixing
  <2>2. NIL \notin D /\ \A n \in D : n \in sub[n]
    BY DEF Shape
  <2>3. /\ g \notin sub[A[g]] /\ g \notin sub[B[g]] /\ sub[A[g]] \cap sub[B[g]] = {}
        /\ sub[A[g]] \subseteq sub[g]
        /\ B[g] # NIL => P[B[g]] = g
    <3>1. /\ sub[g] = {g} \cup sub[A[g]] \cup sub[B[g]]
          /\ g \notin sub[A[g]] /\ g \notin sub[B[g]]
          /\ sub[A[g]] \cap sub[B[g]] = {}
      BY DEF Shape
    <3>2. B[g] # NIL => P[B[g]] = g
      BY DEF Shape
    <3> QED
      BY <3>1, <3>2
  <2>4. p # g /\ u # g /\ p # u /\ P[u] = g /\ sub[p] \subseteq sub[g] /\ g \notin sub[p]
    BY <2>2, <2>3
  <2>5. /\ p \notin sub[A[p]] /\ p \notin sub[B[p]]
        /\ sub[A[p]] \subseteq sub[p] /\ sub[B[p]] \subseteq sub[p]
        /\ x = A[p] \/ x = B[p]
    <3>1. P[x] # NIL => x = A[P[x]] \/ x = B[P[x]]
      BY <2>1 DEF Shape
    <3>2. /\ sub[p] = {p} \cup sub[A[p]] \cup sub[B[p]]
          /\ p \notin sub[A[p]] /\ p \notin sub[B[p]]
      BY DEF Shape
    <3> QED
      BY <2>2, <3>1, <3>2
  <2>6. x # p /\ sub[x] \subseteq sub[p]
    BY <2>1, <2>2, <2>5
  <2> QED
    BY <2>1, <2>2, <2>4, <2>6
<1>2. /\ C \in [D -> {"red", "black"}]
      /\ bh \in [D \cup {NIL} -> Nat] /\ bh[NIL] = 0
      /\ \A n \in D : /\ bh[A[n]] = bh[B[n]]
                      /\ C[n] = "red" => bh[n] = bh[A[n]]
                      /\ C[n] = "black" => bh[n] = bh[A[n]] + 1
  BY DEF Fixing, Heights
<1>3. C[g] = "black"
  BY <1>1 DEF Fixing, RedsApart
<1>4. /\ A \in [D -> D \cup {NIL}] /\ B \in [D -> D \cup {NIL}]
      /\ P \in [D -> D \cup {NIL}]
      /\ \A n \in D : A[n] \in {p, u} \/ B[n] \in {p, u} => n = g
      /\ \A n \in D : P[n] = g => n \in {p, u}
  <2>1. /\ A \in [D -> D \cup {NIL}] /\ B \in [D -> D \cup {NIL}]
        /\ P \in [D -> D \cup {NIL}]
    BY DEF Shape
  <2>2. \A n \in D : /\ A[n] # NIL => P[A[n]] = n
                     /\ B[n] # NIL => P[B[n]] = n
                     /\ P[n] # NIL => n = A[P[n]] \/ n = B[P[n]]
    BY DEF Shape
  <2>3. p # NIL /\ u # NIL /\ g # NIL /\ P[u] = g
    BY <1>1
  <2>4. ASSUME NEW n \in D, A[n] \in {p, u} \/ B[n] \in {p, u}
        PROVE  n = g
    <3>1. CASE A[n] \in {p, u}
      BY <2>2, <2>3, <3>1
    <3>2. CASE B[n] \in {p, u}
      BY <2>2, <2>3, <3>2
    <3> QED
      BY <2>4, <3>1, <3>2
  <2>5. ASSUME NEW n \in D, P[n] = g
        PROVE  n \in {p, u}
    BY <2>2, <2>3, <2>5
  <2> QED
    BY <2>1, <2>4, <2>5
<1> HIDE <1>0
<1>11. p \in D /\ g \in D /\ u \in D
  BY <1>0
<1> USE <1>11
<1>5. /\ bh2 \in [D \cup {NIL} -> Nat]
      /\ bh2[p] = bh[p] + 1 /\ bh2[u] = bh[u] + 1
      /\ \A n \in D \cup {NIL} : n \notin {p, u} => bh2[n] = bh[n]
  BY <1>1, <1>2
<1>6. /\ C2 \in [D -> {"red", "black"}]
      /\ C2[p] = "black" /\ C2[u] = "black" /\ C2[g] = "red"
      /\ \A n \in D : n \notin {p, u, g} => C2[n] = C[n]
  BY <1>1, <1>2
<1> HIDE DEF bh2
<1>7. ASSUME NEW n \in D
      PROVE  /\ bh2[A[n]] = bh2[B[n]]
             /\ C2[n] = "red" => bh2[n] = bh2[A[n]]
             /\ C2[n] = "black" => bh2[n] = bh2[A[n]] + 1
  <2>1. CASE n = g
    <3>1. bh[p] = bh[u] /\ bh[g] = bh[p] + 1
      BY <1>0, <1>2, <1>3
    <3>2. bh2[g] = bh[g]
      BY <1>1, <1>5
    <3>3. bh2[A[n]] = bh2[B[n]] /\ bh2[n] = bh2[A[n]]
      BY <1>0, <1>5, <2>1, <3>1, <3>2
    <3>4. C2[n] # "black"
      BY <1>6, <2>1
    <3> QED
      BY <3>3, <3>4
  <2>2. CASE n \in {p, u}
    <3>1. C[n] = "red" /\ n # g /\ C2[n] = "black" /\ bh2[n] = bh[n] + 1
      BY <1>0, <1>1, <1>5, <1>6, <2>2
    <3>2. /\ A[n] \notin {p, u} /\ B[n] \notin {p, u}
          /\ A[n] \in D \cup {NIL} /\ B[n] \in D \cup {NIL}
      BY <1>4, <3>1
    <3> QED
      BY <1>2, <1>5, <3>1, <3>2
  <2>3. CASE n \notin {p, u, g}
    BY <1>1, <1>2, <1>4, <1>5, <1>6, <2>3
  <2> QED
    BY <2>1, <2>2, <2>3
<1>8. Heights(D, A, B, C2, bh2)
  BY <1>1, <1>2, <1>5, <1>6, <1>7 DEF Heights
<1>9. RedsApart(D, P, C2, g)
  <2>1. P[x] = p /\ RedsApart(D, P, C, x)
    BY <1>0 DEF Fixing
  <2> SUFFICES ASSUME NEW n \in D, n # g, C2[n] = "red", P[n] # NIL
               PROVE  C2[P[n]] = "black"
    BY DEF RedsApart
  <2>2. n \notin {p, u} /\ C[n] = "red" /\ P[n] # g /\ P[n] \in D
    BY <1>4, <1>6
  <2>3. n # x => C[P[n]] = "black"
    BY <2>1, <2>2 DEF RedsApart
  <2> QED
    BY <1>6, <2>1, <2>2, <2>3
<1>10. root # g => C2[root] = "black"
  <2>1. root \in D /\ root # x
    BY <1>0, <1>1 DEF Shape
  <2> QED
    BY <1>0, <1>6, <2>1 DEF Fixing
<1> QED
  BY <1>1, <1>6, <1>8, <1>9, <1>10 DEF Fixing

\* The rotation that brings an inner node out: the parent is then the lower one.
LEMMA InnerColors ==
    ASSUME NEW D, NEW A, NEW B, NEW P, NEW root, NEW sub,
           Shape(D, A, B, P, root, sub),
           NEW C, NEW bh, NEW x, Fixing(D, A, B, P, root, C, bh, x),
           NEW p \in D, x = A[p], C[p] = "red",
           NEW A2, NEW B2, NEW P2, NEW root2,
           Rotated(D, A, B, P, root, p, A2, B2, P2, root2),
           P[p] # NIL
    PROVE  Fixing(D, A2, B2, P2, root2, C, bh, p)
<1> DEFINE inner == B[x]
<1>1. /\ x \in D /\ C[x] = "red"
  BY DEF Fixing
<1>2. /\ NIL \notin D /\ x # NIL /\ x # p /\ P[x] = p /\ P[p] # x /\ x # root
      /\ \A n \in D : A[n] = x => n = p
      /\ \A n \in D : B[n] # x
  <2>1. A[p] # NIL /\ NIL \notin D
    BY <1>1 DEF Shape
  <2> QED
    BY <1>1, <2>1, ChildFacts
<1>3. /\ A2[p] = inner /\ B2[p] = B[p] /\ P2[p] = x
      /\ A2[x] = A[x] /\ B2[x] = p /\ P2[x] = P[p]
      /\ root2 = root
      /\ \A n \in D \ {p, x} :
            /\ A2[n] = IF A[n] = p THEN x ELSE A[n]
            /\ B2[n] = IF B[n] = p THEN x ELSE B[n]
            /\ P2[n] = IF n = inner THEN p ELSE P[n]
  BY DEF Rotated
<1>4. /\ C \in [D -> {"red", "black"}]
      /\ bh \in [D \cup {NIL} -> Nat] /\ bh[NIL] = 0
      /\ \A n \in D : /\ bh[A[n]] = bh[B[n]]
                      /\ C[n] = "red" => bh[n] = bh[A[n]]
                      /\ C[n] = "black" => bh[n] = bh[A[n]] + 1
  BY DEF Fixing, Heights
<1>5. /\ A \in [D -> D \cup {NIL}] /\ B \in [D -> D \cup {NIL}]
      /\ P \in [D -> D \cup {NIL}]
      /\ inner # NIL => P[inner] = x /\ inner \in D /\ inner # x
  BY <1>1 DEF Shape
<1>6. bh[p] = bh[x] /\ bh[x] = bh[inner] /\ bh[x] = bh[B[p]] /\ bh[x] = bh[A[x]]
  BY <1>1, <1>4, <1>5
<1> HIDE DEF inner
<1>7. ASSUME NEW n \in D
      PROVE  /\ bh[A2[n]] = bh[B2[n]]
             /\ C[n] = "red" => bh[n] = bh[A2[n]]
             /\ C[n] = "black" => bh[n] = bh[A2[n]] + 1
  <2>1. CASE n = p
    BY <1>3, <1>6, <2>1
  <2>3. CASE n = x
    BY <1>1, <1>3, <1>6, <2>3
  <2>2. CASE n \notin {p, x}
    <3>1. bh[A2[n]] = bh[A[n]] /\ bh[B2[n]] = bh[B[n]]
      BY <1>3, <1>6, <2>2
    <3> QED
      BY <1>4, <3>1
  <2> QED
    BY <2>1, <2>2, <2>3
<1>8. Heights(D, A2, B2, C, bh)
  BY <1>4, <1>7 DEF Heights
<1>9. RedsApart(D, P2, C, p)
  <2> SUFFICES ASSUME NEW n \in D, n # p, C[n] = "red", P2[n] # NIL
               PROVE  C[P2[n]] = "black"
    BY DEF RedsApart
  <2>1. CASE n = x
    BY <1>2, <1>3, <2>1 DEF Fixing, RedsApart
  <2>2. CASE n = inner
    BY <1>1, <1>2, <1>5, <2>2 DEF Fixing, RedsApart
  <2>3. CASE n # x /\ n # inner
    BY <1>3, <2>3 DEF Fixing, RedsApart
  <2> QED
    BY <2>1, <2>2, <2>3
<1>10. C[root2] = "black"
  BY <1>2, <1>3 DEF Fixing
<1> QED
  BY <1>8, <1>9, <1>10 DEF Fixing

\* The rotation that ends fix_insert: x and its parent p are on the same side.
LEMMA OuterColors ==
    ASSUME NEW D, NEW A, NEW B, NEW P, NEW root, NEW sub,
           Shape(D, A, B, P, root, sub),
           NEW C, NEW bh, NEW x, Fixing(D, A, B, P, root, C, bh, x),
           NEW p \in D, x = A[p], C[p] = "red",
           NEW g \in D, p = A[g],
           B[g] = NIL \/ C[B[g]] = "black",
           NEW A2, NEW B2, NEW P2, NEW root2,
           Rotated(D, A, B, P, root, g, A2, B2, P2, root2),
           NEW C2, C2 = BlackRed(C, p, g)
    PROVE  /\ \E bh2 : Fixing(D, A2, B2, P2, root2, C2, bh2, x)
           /\ C2[P2[x]] = "black"
<1> USE DEF BlackRed
<1> DEFINE inner == B[p]
           bh2 == [bh EXCEPT ![g] = bh[p], ![p] = bh[g]]
<1>1. x \in D /\ C[x] = "red"
  BY DEF Fixing
<1>2. /\ NIL \notin D /\ p # NIL /\ p # g /\ P[p] = g /\ P[g] # p /\ p # root
      /\ \A n \in D : A[n] = p => n = g
      /\ \A n \in D : B[n] # p
  <2>1. A[g] # NIL /\ NIL \notin D
    BY DEF Shape
  <2> QED
    BY <2>1, ChildFacts
<1>3. /\ x # p /\ P[x] = p /\ x # B[p] /\ x # root /\ x # g
  <2>1. A[p] # NIL
    BY <1>1, <1>2
  <2>2. x # p /\ P[x] = p /\ x # B[p] /\ x # root /\ P[p] # x
    BY <2>1, ChildFacts
  <2> QED
    BY <1>2, <2>2
<1>4. /\ A2[g] = inner /\ B2[g] = B[g] /\ P2[g] = p
      /\ A2[p] = A[p] /\ B2[p] = g /\ P2[p] = P[g]
      /\ root2 = IF P[g] = NIL THEN p ELSE root
      /\ \A n \in D \ {g, p} :
            /\ A2[n] = IF A[n] = g THEN p ELSE A[n]
            /\ B2[n] = IF B[n] = g THEN p ELSE B[n]
            /\ P2[n] = IF n = inner THEN g ELSE P[n]
  BY DEF Rotated
<1>5. /\ C \in [D -> {"red", "black"}]
      /\ bh \in [D \cup {NIL} -> Nat] /\ bh[NIL] = 0
      /\ \A n \in D : /\ bh[A[n]] = bh[B[n]]
                      /\ C[n] = "red" => bh[n] = bh[A[n]]
                      /\ C[n] = "black" => bh[n] = bh[A[n]] + 1
  BY DEF Fixing, Heights
<1>6. C[g] = "black"
  BY <1>2, <1>3 DEF Fixing, RedsApart
<1>7. /\ A \in [D -> D \cup {NIL}] /\ B \in [D -> D \cup {NIL}]
      /\ P \in [D -> D \cup {NIL}]
      /\ inner # NIL => P[inner] = p /\ inner \in D /\ inner # p /\ inner # g
      /\ x # inner /\ A[p] # p /\ A[p] # g /\ B[g] # g /\ B[g] # p
      /\ \A n \in D : P[n] = g => n = p \/ n = B[g]
  BY <1>2, <1>3 DEF Shape
<1>8. /\ bh[p] = bh[A[p]] /\ bh[p] = bh[inner] /\ bh[p] = bh[B[g]]
      /\ bh[g] = bh[p] + 1
  BY <1>5, <1>6
<1>9. /\ bh2 \in [D \cup {NIL} -> Nat] /\ bh2[g] = bh[p] /\ bh2[p] = bh[g]
      /\ \A n \in D \cup {NIL} : n \notin {g, p} => bh2[n] = bh[n]
  BY <1>2, <1>5
<1>10. /\ C2 \in [D -> {"red", "black"}] /\ C2[p] = "black" /\ C2[g] = "red"
       /\ \A n \in D : n \notin {g, p} => C2[n] = C[n]
  BY <1>2, <1>5
<1>11. inner # NIL => C[inner] = "black"
  BY <1>2, <1>5, <1>7 DEF Fixing, RedsApart
<1>12. inner # g /\ inner # p /\ inner \in D \cup {NIL}
  BY <1>2, <1>7
<1> HIDE DEF inner, bh2
<1>13. ASSUME NEW n \in D
       PROVE  /\ bh2[A2[n]] = bh2[B2[n]]
              /\ C2[n] = "red" => bh2[n] = bh2[A2[n]]
              /\ C2[n] = "black" => bh2[n] = bh2[A2[n]] + 1
  <2>1. CASE n = g
    <3>1. bh2[A2[n]] = bh[inner] /\ bh2[B2[n]] = bh[B[g]]
      BY <1>4, <1>7, <1>9, <1>12, <2>1
    <3>2. bh2[A2[n]] = bh2[B2[n]] /\ bh2[n] = bh2[A2[n]]
      BY <1>8, <1>9, <2>1, <3>1
    <3>3. C2[n] # "black"
      BY <1>10, <2>1
    <3> QED
      BY <3>2, <3>3
  <2>2. CASE n = p
    <3>1. bh2[A2[n]] = bh[A[p]] /\ bh2[B2[n]] = bh[p]
      BY <1>4, <1>7, <1>9, <2>2
    <3> QED
      BY <1>5, <1>8, <1>9, <1>10, <2>2, <3>1
  <2>3. CASE n \notin {g, p}
    <3>1. A[n] # p /\ B[n] # p /\ A[n] \in D \cup {NIL} /\ B[n] \in D \cup {NIL}
      BY <1>2, <1>7, <2>3
    <3>2. bh2[A2[n]] = bh[A[n]] /\ bh2[B2[n]] = bh[B[n]]
      BY <1>4, <1>9, <2>3, <3>1
    <3> QED
      BY <1>5, <1>9, <1>10, <2>3, <3>2
  <2> QED
    BY <2>1, <2>2, <2>3
<1>14. Heights(D, A2, B2, C2, bh2)
  BY <1>2, <1>5, <1>9, <1>10, <1>13 DEF Heights
<1>15. ASSUME NEW n \in D, C2[n] = "red", P2[n] # NIL PROVE C2[P2[n]] = "black"
  <2>1. n # p
    BY <1>10, <1>15
  <2>2. CASE n = g
    BY <1>4, <1>10, <2>2
  <2>3. CASE n # g
    <3>1. C[n] = "red" /\ n # inner
      BY <1>10, <1>11, <1>15, <1>2, <2>1, <2>3
    <3>2. P2[n] = P[n]
      BY <1>4, <2>1, <2>3, <3>1
    <3>3. P[n] # g
      BY <1>2, <1>7, <2>1, <3>1
    <3>4. CASE P[n] = p
      BY <1>10, <3>2, <3>4
    <3>5. CASE P[n] # p
      <4>1. C[P[n]] = "black" /\ P[n] \in D
        BY <1>3, <1>7, <1>15, <3>1, <3>2, <3>5 DEF Fixing, RedsApart
      <4> QED
        BY <1>10, <3>2, <3>3, <3>5, <4>1
    <3> QED
      BY <3>4, <3>5
  <2> QED
    BY <2>2, <2>3
<1>16. C2[root2] = "black"
  <2>1. CASE P[g] = NIL
    BY <1>4, <1>10, <2>1
  <2>2. CASE P[g] # NIL
    <3>1. root \in D /\ root # g /\ root # p /\ root # x
      BY <1>2, <1>3, <2>2 DEF Shape
    <3> QED
      BY <1>4, <1>10, <2>2, <3>1 DEF Fixing
  <2> QED
    BY <2>1, <2>2
<1>17. P2[x] = p /\ C2[x] = "red"
  BY <1>1, <1>3, <1>4, <1>7, <1>10
<1>18. RedsApart(D, P2, C2, x)
  BY <1>15 DEF RedsApart
<1> QED
  BY <1>1, <1>10, <1>14, <1>16, <1>17, <1>18 DEF Fixing

\* The root is made black when the node at which fix_insert ends has no red parent.
LEMMA BlackenRoot ==
    ASSUME NEW D, NEW A, NEW B, NEW P, NEW root, NEW sub,
           Shape(D, A, B, P, root, sub),
           NEW C, NEW bh, NEW x, Fixing(D, A, B, P, root, C, bh, x),
           P[x] # NIL => C[P[x]] = "black",
           NEW C2, C2 = Colored(C, root, "black")
    PROVE  \E bh2 : WellColored(D, A, B, P, root, C2, bh2)
<1> USE DEF Colored
<1>1. /\ NIL \notin D /\ root \in D /\ P \in [D -> D \cup {NIL}]
      /\ \A n \in D : A[n] # root /\ B[n] # root
      /\ A \in [D -> D \cup {NIL}] /\ B \in [D -> D \cup {NIL}]
  BY DEF Shape, Fixing
<1>2. /\ C \in [D -> {"red", "black"}]
      /\ bh \in [D \cup {NIL} -> Nat] /\ bh[NIL] = 0
      /\ \A n \in D : /\ bh[A[n]] = bh[B[n]]
                      /\ C[n] = "red" => bh[n] = bh[A[n]]
                      /\ C[n] = "black" => bh[n] = bh[A[n]] + 1
  BY DEF Fixing, Heights
<1> DEFINE bh2 == [bh EXCEPT ![root] = bh[A[root]] + 1]
<1>3. /\ bh2 \in [D \cup {NIL} -> Nat] /\ bh2[root] = bh[A[root]] + 1
      /\ \A n \in D \cup {NIL} : n # root => bh2[n] = bh[n]
  BY <1>1, <1>2
<1>4. /\ C2 \in [D -> {"red", "black"}] /\ C2[root] = "black"
      /\ \A n \in D : n # root => C2[n] = C[n]
  BY <1>1, <1>2
<1> HIDE DEF bh2
<1>5. ASSUME NEW n \in D
      PROVE  /\ bh2[A[n]] = bh2[B[n]]
             /\ C2[n] = "red" => bh2[n] = bh2[A[n]]
             /\ C2[n] = "black" => bh2[n] = bh2[A[n]] + 1
  BY <1>1, <1>2, <1>3, <1>4
<1>6. Heights(D, A, B, C2, bh2)
  BY <1>1, <1>2, <1>3, <1>4, <1>5 DEF Heights
<1>7. RedsApart(D, P, C2, NIL)
  BY <1>1, <1>4 DEF RedsApart, Fixing
<1> QED
  BY <1>4, <1>6, <1>7 DEF WellColored
-----------------------------------------------------------------------------
(* The tree of the code.                                                   *)

Node(N) ==
    [start_key : Nat, end_key : Nat, value : Nat,
     left : 0..N, right : 0..N, parent : 0..N, color : {"red", "black"}]

Trees(N) == [nodes : [1..N -> Node(N)], root : 0..N]

Sides == {"left", "right"}

Kids(t, side) == [n \in DOMAIN t.nodes |-> t.nodes[n][side]]

Parents(t) == [n \in DOMAIN t.nodes |-> t.nodes[n].parent]

Colors(t) == [n \in DOMAIN t.nodes |-> t.nodes[n].color]

\* What a tree has in its fields.
LEMMA TreeTypes ==
    ASSUME NEW N \in Nat, NEW t \in Trees(N)
    PROVE  /\ t.nodes \in [1..N -> Node(N)] /\ t.root \in 0..N /\ Len(t.nodes) = N
           /\ \A n \in 1..N :
                 /\ t.nodes[n] \in Node(N)
                 /\ t.nodes[n].parent \in 0..N /\ t.nodes[n].color \in {"red", "black"}
                 /\ \A side \in Sides : t.nodes[n][side] \in 0..N
<1>1. t.nodes \in [1..N -> Node(N)] /\ t.root \in 0..N
  BY DEF Trees
<1>2. Len(t.nodes) = N
  <2>1. t.nodes \in Seq(Node(N)) /\ DOMAIN t.nodes = 1..N
     BY <1>1
  <2> QED BY <2>1
<1>3. \A d \in Node(N) : /\ d.parent \in 0..N /\ d.color \in {"red", "black"}
                 /\ \A side \in Sides : d[side] \in 0..N
  BY DEF Node, Sides
<1> QED BY <1>1, <1>2, <1>3

\* The fields that d and e have in common: all but the links.
SameData(d, e) == /\ d.start_key = e.start_key /\ d.end_key = e.end_key
                  /\ d.value = e.value

\* A node d with another link, parent or colour is a node.
LEMMA PutField ==
    ASSUME NEW N \in Nat, NEW d \in Node(N), NEW e,
           \/ \E side \in Sides : \E c \in 0..N : e = [d EXCEPT ![side] = c]
           \/ \E c \in 0..N : e = [d EXCEPT !.parent = c]
           \/ \E col \in {"red", "black"} : e = [d EXCEPT !.color = col]
    PROVE  e \in Node(N) /\ SameData(e, d)
<1>1. ASSUME NEW c \in 0..N, e = [d EXCEPT !["left"] = c]
      PROVE  e \in Node(N) /\ SameData(e, d)
  BY <1>1 DEF Node, SameData
<1>2. ASSUME NEW c \in 0..N, e = [d EXCEPT !["right"] = c]
      PROVE  e \in Node(N) /\ SameData(e, d)
  BY <1>2 DEF Node, SameData
<1>3. ASSUME NEW c \in 0..N, e = [d EXCEPT !.parent = c]
      PROVE  e \in Node(N) /\ SameData(e, d)
  BY <1>3 DEF Node, SameData
<1>4. ASSUME NEW col \in {"red", "black"}, e = [d EXCEPT !.color = col]
      PROVE  e \in Node(N) /\ SameData(e, d)
  BY <1>4 DEF Node, SameData
<1> QED
  BY <1>1, <1>2, <1>3, <1>4 DEF Sides

\* A tree with another node n.
PutNode(t, n, e) == [t EXCEPT !.nodes = [t.nodes EXCEPT ![n] = e]]

\* The other nodes stay.
LEMMA PutNodeFacts ==
    ASSUME NEW N \in Nat, NEW t \in Trees(N), NEW n \in 1..N, NEW e \in Node(N),
           NEW r, r = PutNode(t, n, e)
    PROVE  /\ r \in Trees(N) /\ r.root = t.root /\ r.nodes[n] = e
           /\ \A m \in 1..N : m # n => r.nodes[m] = t.nodes[m]
  BY DEF Trees, PutNode

\* A tree with another link, parent or colour.
WithLink(t, n, side, c) == [t EXCEPT !.nodes[n][side] = c]

WithParent(t, n, c) == [t EXCEPT !.nodes[n].parent = c]

WithColor(t, n, col) == [t EXCEPT !.nodes[n].color = col]

\* r is t with another link of n.
LinkSet(N, t, n, side, c, r) ==
    /\ r \in Trees(N) /\ r.root = t.root
    /\ \A m \in 1..N :
          /\ SameData(r.nodes[m], t.nodes[m])
          /\ r.nodes[m].parent = t.nodes[m].parent
          /\ r.nodes[m].color = t.nodes[m].color
          /\ \A s \in Sides : /\ m # n => r.nodes[m][s] = t.nodes[m][s]
                              /\ s # side => r.nodes[m][s] = t.nodes[m][s]
    /\ r.nodes[n][side] = c

\* Setting a link sets that one and keeps the tree's type.
LEMMA WithLinkFacts ==
    ASSUME NEW N \in Nat, NEW t \in Trees(N), NEW n \in 1..N,
           NEW side \in Sides, NEW c \in 0..N,
           NEW r, r = WithLink(t, n, side, c)
    PROVE  LinkSet(N, t, n, side, c, r)
<1> DEFINE d == t.nodes[n]
           e == [d EXCEPT ![side] = c]
<1>1. d \in Node(N)
  BY TreeTypes
<1>2. /\ e[side] = c /\ e.parent = d.parent /\ e.color = d.color
      /\ \A s \in Sides : s # side => e[s] = d[s]
  BY <1>1 DEF Node, Sides
<1>3. e \in Node(N) /\ SameData(e, d)
  BY <1>1, PutField
<1>4. r = PutNode(t, n, e)
  BY DEF PutNode, WithLink
<1>5. \A m \in 1..N : SameData(t.nodes[m], t.nodes[m])
  BY DEF SameData
<1> HIDE DEF e
<1>6. /\ r \in Trees(N) /\ r.root = t.root /\ r.nodes[n] = e
      /\ \A m \in 1..N : m # n => r.nodes[m] = t.nodes[m]
  BY <1>3, <1>4, PutNodeFacts
<1> QED
  BY <1>2, <1>3, <1>5, <1>6 DEF LinkSet

\* r is t with another parent of n.
ParentSet(N, t, n, c, r) ==
    /\ r \in Trees(N) /\ r.root = t.root
    /\ \A m \in 1..N :
          /\ SameData(r.nodes[m], t.nodes[m])
          /\ m # n => r.nodes[m].parent = t.nodes[m].parent
          /\ r.nodes[m].color = t.nodes[m].color
          /\ \A s \in Sides : r.nodes[m][s] = t.nodes[m][s]
    /\ r.nodes[n].parent = c

\* Setting a parent sets that one and keeps the tree's type.
LEMMA WithParentFacts ==
    ASSUME NEW N \in Nat, NEW t \in Trees(N), NEW n \in 1..N, NEW c \in 0..N,
           NEW r, r = WithParent(t, n, c)
    PROVE  ParentSet(N, t, n, c, r)
<1> DEFINE d == t.nodes[n]
           e == [d EXCEPT !.parent = c]
<1>1. d \in Node(N)
  BY TreeTypes
<1>2. /\ e.parent = c /\ e.color = d.color
      /\ \A s \in Sides : e[s] = d[s]
  BY <1>1 DEF Node, Sides
<1>3. e \in Node(N) /\ SameData(e, d)
  BY <1>1, PutField
<1>4. r = PutNode(t, n, e)
  BY DEF PutNode, WithParent
<1>5. \A m \in 1..N : SameData(t.nodes[m], t.nodes[m])
  BY DEF SameData
<1> HIDE DEF e
<1>6. /\ r \in Trees(N) /\ r.root = t.root /\ r.nodes[n] = e
      /\ \A m \in 1..N : m # n => r.nodes[m] = t.nodes[m]
  BY <1>3, <1>4, PutNodeFacts
<1> QED
  BY <1>2, <1>3, <1>5, <1>6 DEF ParentSet

\* r is t with another colour of n.
ColorSet(N, t, n, col, r) ==
    /\ r \in Trees(N) /\ r.root = t.root
    /\ \A m \in 1..N :
          /\ SameData(r.nodes[m], t.nodes[m])
          /\ r.nodes[m].parent = t.nodes[m].parent
          /\ m # n => r.nodes[m].color = t.nodes[m].color
          /\ \A s \in Sides : r.nodes[m][s] = t.nodes[m][s]
    /\ r.nodes[n].color = col

\* Setting a colour sets that one and keeps the tree's type.
LEMMA WithColorFacts ==
    ASSUME NEW N \in Nat, NEW t \in Trees(N), NEW n \in 1..N,
           NEW col \in {"red", "black"},
           NEW r, r = WithColor(t, n, col)
    PROVE  ColorSet(N, t, n, col, r)
<1> DEFINE d == t.nodes[n]
           e == [d EXCEPT !.color = col]
<1>1. d \in Node(N)
  BY TreeTypes
<1>2. /\ e.color = col /\ e.parent = d.parent
      /\ \A s \in Sides : e[s] = d[s]
  BY <1>1 DEF Node, Sides
<1>3. e \in Node(N) /\ SameData(e, d)
  BY <1>1, PutField
<1>4. r = PutNode(t, n, e)
  BY DEF PutNode, WithColor
<1>5. \A m \in 1..N : SameData(t.nodes[m], t.nodes[m])
  BY DEF SameData
<1> HIDE DEF e
<1>6. /\ r \in Trees(N) /\ r.root = t.root /\ r.nodes[n] = e
      /\ \A m \in 1..N : m # n => r.nodes[m] = t.nodes[m]
  BY <1>3, <1>4, PutNodeFacts
<1> QED
  BY <1>2, <1>3, <1>5, <1>6 DEF ColorSet

\* The child's old parent, if it has one, loses it.
LEMMA DetachFacts ==
    ASSUME NEW N \in Nat, NEW t \in Trees(N), NEW child \in 1..N,
           NEW r, r = Detach(t, child),
           NEW old, old = t.nodes[child].parent,
           NEW was \in Sides,
           old # NIL => /\ t.nodes[old][was] = child
                        /\ t.nodes[old][Opposite(was)] # child
    PROVE  /\ r \in Trees(N) /\ r.root = t.root
           /\ \A n \in 1..N :
                 /\ SameData(r.nodes[n], t.nodes[n])
                 /\ r.nodes[n].color = t.nodes[n].color
                 /\ r.nodes[n].parent = t.nodes[n].parent
                 /\ \A s \in Sides : /\ n # old => r.nodes[n][s] = t.nodes[n][s]
                                     /\ s # was => r.nodes[n][s] = t.nodes[n][s]
           /\ old # NIL => r.nodes[old][was] = NIL
<1>1. \A n \in 1..N : SameData(t.nodes[n], t.nodes[n])
  BY DEF SameData
<1>2. CASE old = NIL
  <2>1. r = t
    BY <1>2 DEF Detach
  <2> QED
    BY <1>1, <1>2, <2>1
<1>3. CASE old # NIL
  <2>1. old \in 1..N /\ NIL \in 0..N
    BY <1>3, TreeTypes DEF NIL
  <2>2. was = IF t.nodes[old].left = child THEN "left" ELSE "right"
    BY <1>3 DEF Sides, Opposite
  <2>3. r = WithLink(t, old, was, NIL)
    BY <1>3, <2>2, Zenon DEF Detach, WithLink
  <2>4. LinkSet(N, t, old, was, NIL, r)
    BY <2>1, <2>3, WithLinkFacts
  <2> QED
    BY <1>3, <2>4 DEF LinkSet
<1> QED
  BY <1>2, <1>3

\* The child that is replaced has no parent.
LEMMA VacateFacts ==
    ASSUME NEW N \in Nat, NEW t \in Trees(N), NEW side \in Sides,
           NEW parent \in 1..N,
           NEW r, r = Vacate(t, side, parent),
           NEW replaced, replaced = t.nodes[parent][side]
    PROVE  /\ r \in Trees(N) /\ r.root = t.root
           /\ \A n \in 1..N :
                 /\ SameData(r.nodes[n], t.nodes[n])
                 /\ r.nodes[n].color = t.nodes[n].color
                 /\ n # replaced => r.nodes[n].parent = t.nodes[n].parent
                 /\ \A s \in Sides : r.nodes[n][s] = t.nodes[n][s]
           /\ replaced # NIL => r.nodes[replaced].parent = NIL
<1>1. \A n \in 1..N : SameData(t.nodes[n], t.nodes[n])
  BY DEF SameData
<1>2. CASE replaced = NIL
  <2>1. r = t
    BY <1>2 DEF Vacate
  <2> QED
    BY <1>1, <1>2, <2>1
<1>3. CASE replaced # NIL
  <2>1. replaced \in 1..N /\ NIL \in 0..N
    BY <1>3, TreeTypes DEF NIL
  <2>2. r = WithParent(t, replaced, NIL)
    BY <1>3, Zenon DEF Vacate, WithParent
  <2>3. ParentSet(N, t, replaced, NIL, r)
    BY <2>1, <2>2, WithParentFacts
  <2> QED
    BY <1>3, <2>3 DEF ParentSet
<1> QED
  BY <1>2, <1>3

\* What set_left and set_right change: the links of at most three nodes.
ChildSet(N, t, side, parent, child, old, was, replaced, r) ==
    /\ r \in Trees(N) /\ r.root = t.root
    /\ \A n \in 1..N :
          /\ SameData(r.nodes[n], t.nodes[n])
          /\ r.nodes[n].color = t.nodes[n].color
          /\ n # child /\ n # replaced =>
                r.nodes[n].parent = t.nodes[n].parent
          /\ n # child /\ n = replaced => r.nodes[n].parent = NIL
          /\ n = child => r.nodes[n].parent = parent
          /\ \A s \in Sides :
                (n # parent \/ s # side) /\ (n # old \/ s # was) =>
                   r.nodes[n][s] = t.nodes[n][s]
    /\ r.nodes[parent][side] = child
    /\ old # NIL => r.nodes[old][was] = NIL

\* r is t after set_left or set_right.
LEMMA SetChildFacts ==
    ASSUME NEW N \in Nat, NEW t \in Trees(N), NEW side \in Sides,
           NEW parent \in 1..N, NEW child \in 1..N,
           NEW r, r = SetChild(t, side, parent, child),
           NEW old, old = t.nodes[child].parent, old # parent,
           NEW was \in Sides,
           old # NIL => /\ t.nodes[old][was] = child
                        /\ t.nodes[old][Opposite(was)] # child,
           NEW replaced, replaced = t.nodes[parent][side]
    PROVE  ChildSet(N, t, side, parent, child, old, was, replaced, r)
<1> DEFINE s1 == Detach(t, child)
           s2 == Vacate(s1, side, parent)
           s3 == WithLink(s2, parent, side, child)
           s4 == WithParent(s3, child, parent)
<1>1. /\ old # NIL => old \in 1..N
      /\ replaced # NIL => replaced \in 1..N
      /\ child # NIL /\ parent \in 0..N /\ child \in 0..N
  BY TreeTypes DEF NIL
<1>2. r = s4
  BY <1>1, Zenon DEF SetChild, WithLink, WithParent
<1>3. /\ s1 \in Trees(N) /\ s1.root = t.root
      /\ \A n \in 1..N :
            /\ SameData(s1.nodes[n], t.nodes[n])
            /\ s1.nodes[n].color = t.nodes[n].color
            /\ s1.nodes[n].parent = t.nodes[n].parent
            /\ \A s \in Sides : /\ n # old => s1.nodes[n][s] = t.nodes[n][s]
                                /\ s # was => s1.nodes[n][s] = t.nodes[n][s]
      /\ old # NIL => s1.nodes[old][was] = NIL
  BY DetachFacts
<1> HIDE DEF s1
<1>4. replaced = s1.nodes[parent][side]
  BY <1>3
<1>5. /\ s2 \in Trees(N) /\ s2.root = s1.root
      /\ \A n \in 1..N :
            /\ SameData(s2.nodes[n], s1.nodes[n])
            /\ s2.nodes[n].color = s1.nodes[n].color
            /\ n # replaced => s2.nodes[n].parent = s1.nodes[n].parent
            /\ \A s \in Sides : s2.nodes[n][s] = s1.nodes[n][s]
      /\ replaced # NIL => s2.nodes[replaced].parent = NIL
  BY <1>3, <1>4, VacateFacts
<1> HIDE DEF s2
<1>6. LinkSet(N, s2, parent, side, child, s3)
  BY <1>1, <1>5, WithLinkFacts
<1>7. ParentSet(N, s3, child, parent, s4)
  <2> HIDE DEF s3
  <2> QED
    BY <1>1, <1>6, WithParentFacts DEF LinkSet
<1> HIDE DEF s3, s4
<1>8. \A n \in 1..N : SameData(s4.nodes[n], t.nodes[n])
  BY <1>3, <1>5, <1>6, <1>7 DEF SameData, LinkSet, ParentSet
<1>9. r.nodes[parent][side] = child /\ r.root = t.root /\ r \in Trees(N)
  BY <1>2, <1>3, <1>5, <1>6, <1>7 DEF LinkSet, ParentSet
<1>10. ASSUME NEW n \in 1..N
       PROVE  /\ r.nodes[n].color = t.nodes[n].color
              /\ n # child /\ n # replaced =>
                    r.nodes[n].parent = t.nodes[n].parent
              /\ n # child /\ n = replaced => r.nodes[n].parent = NIL
              /\ n = child => r.nodes[n].parent = parent
  <2>1. replaced = NIL => n # replaced
    BY DEF NIL
  <2> QED
    BY <2>1, <1>2, <1>3, <1>5, <1>6, <1>7 DEF LinkSet, ParentSet
<1>11. ASSUME NEW n \in 1..N, NEW s \in Sides,
              (n # parent \/ s # side) /\ (n # old \/ s # was)
       PROVE  r.nodes[n][s] = t.nodes[n][s]
  BY <1>11, <1>2, <1>3, <1>5, <1>6, <1>7 DEF LinkSet, ParentSet
<1>12. old # NIL => r.nodes[old][was] = NIL
  BY <1>1, <1>2, <1>3, <1>5, <1>6, <1>7 DEF LinkSet, ParentSet
<1> QED
  BY <1>2, <1>8, <1>9, <1>10, <1>11, <1>12 DEF ChildSet

\* What a rotation needs to know of the links of t around k.
LinksAround(N, t, side, k, up) ==
    /\ up = t.nodes[k][side] /\ up \in 1..N /\ up # k
    /\ t.nodes[k][Opposite(side)] # up
    /\ t.nodes[up].parent = k /\ t.nodes[k].parent # up /\ t.nodes[k].parent # k
    /\ t.nodes[up][Opposite(side)] # k /\ t.nodes[up][side] # k
    /\ t.nodes[up][Opposite(side)] # up
    /\ \A n \in 1..N : \A s \in Sides :
          t.nodes[n][s] # NIL => t.nodes[t.nodes[n][s]].parent = n
    /\ t.nodes[k].parent # NIL => 
          \E s \in Sides : /\ t.nodes[t.nodes[k].parent][s] = k
                           /\ t.nodes[t.nodes[k].parent][Opposite(s)] # k

\* s is t after up has taken the place of k.
PlaceTaken(N, t, side, k, up, parent, s) ==
    /\ s \in Trees(N) /\ s.root = IF parent = NIL THEN up ELSE t.root
    /\ \A n \in 1..N :
          /\ SameData(s.nodes[n], t.nodes[n])
          /\ s.nodes[n].color = t.nodes[n].color
          /\ n # k /\ n # up => s.nodes[n].parent = t.nodes[n].parent
          /\ n # k /\ n # parent =>
                \A e \in Sides : s.nodes[n][e] = t.nodes[n][e]
    /\ s.nodes[k].parent = NIL /\ s.nodes[up].parent = parent
    /\ s.nodes[k][Opposite(side)] = t.nodes[k][Opposite(side)]
    /\ s.nodes[k][side] = NIL \/ (s.nodes[k][side] = up /\ parent = NIL)
    /\ parent # NIL =>
          \A e \in Sides :
             /\ t.nodes[parent][e] = k => s.nodes[parent][e] = up
             /\ t.nodes[parent][e] # k => s.nodes[parent][e] = t.nodes[parent][e]

\* The first step of a rotation of k.
LEMMA TakePlaceFacts ==
    ASSUME NEW N \in Nat, NEW t \in Trees(N), NEW side \in Sides,
           NEW k \in 1..N, NEW up, LinksAround(N, t, side, k, up),
           NEW parent, parent = t.nodes[k].parent,
           NEW s, s = TakePlace(t, k, up)
    PROVE  PlaceTaken(N, t, side, k, up, parent, s)
<1>0. up \in 1..N /\ up # k /\ parent # up /\ parent # k
      /\ Opposite(side) \in Sides /\ Opposite(side) # side
  BY DEF LinksAround, Opposite, Sides
<1>1. CASE parent = NIL
  <2> DEFINE t1 == [t EXCEPT !.root = up]
  <2>1. s = WithParent(t1, up, NIL)
    BY <1>1, Zenon DEF WithParent, TakePlace
  <2>2. t1 \in Trees(N) /\ t1.root = up /\ t1.nodes = t.nodes
    BY DEF Trees, LinksAround
  <2> HIDE DEF t1
  <2>3. ParentSet(N, t1, up, NIL, s)
    <3>1. NIL \in 0..N /\ up \in 1..N
      BY DEF NIL, LinksAround
    <3> QED
      BY <2>1, <2>2, <3>1, WithParentFacts
  <2>4. /\ s \in Trees(N) /\ s.root = up /\ s.nodes[up].parent = NIL
        /\ \A n \in 1..N : /\ SameData(s.nodes[n], t.nodes[n])
                           /\ n # up => s.nodes[n].parent = t.nodes[n].parent
                           /\ s.nodes[n].color = t.nodes[n].color
                           /\ \A e \in Sides : s.nodes[n][e] = t.nodes[n][e]
    BY <2>2, <2>3 DEF ParentSet
  <2>5. s.nodes[k][side] = up
    BY <2>4 DEF LinksAround
  <2> QED
    BY <1>0, <1>1, <2>4, <2>5 DEF PlaceTaken
<1>2. CASE parent # NIL
  <2>1. parent \in 1..N /\ up \in 1..N
    BY <1>2, TreeTypes DEF NIL, LinksAround
  <2> DEFINE which == IF t.nodes[parent].right = k THEN "right" ELSE "left"
  <2>2. /\ which \in Sides /\ t.nodes[parent][which] = k
        /\ t.nodes[parent][Opposite(which)] # k
    BY <1>2, <2>1 DEF LinksAround, Sides, Opposite
  <2>3. s = SetChild(t, which, parent, up)
    BY <1>2, Zenon DEF TakePlace
  <2> HIDE DEF which
  <2>4. ChildSet(N, t, which, parent, up, k, side, k, s)
    BY <2>1, <2>2, <2>3, SetChildFacts DEF LinksAround
  <2>5. \A e \in Sides : t.nodes[parent][e] = k <=> e = which
    BY <2>2 DEF Sides, Opposite
  <2>6. k # NIL
    BY DEF NIL
  <2>7. /\ s \in Trees(N) /\ s.root = t.root
        /\ s.nodes[k].parent = NIL /\ s.nodes[up].parent = parent
        /\ s.nodes[parent][which] = up /\ s.nodes[k][side] = NIL
    BY <1>0, <2>1, <2>4, <2>6 DEF ChildSet
  <2>8. ASSUME NEW n \in 1..N
        PROVE  /\ SameData(s.nodes[n], t.nodes[n])
               /\ s.nodes[n].color = t.nodes[n].color
               /\ n # k /\ n # up => s.nodes[n].parent = t.nodes[n].parent
               /\ n # k /\ n # parent =>
                     \A e \in Sides : s.nodes[n][e] = t.nodes[n][e]
    BY <2>4 DEF ChildSet
  <2>9. s.nodes[k][Opposite(side)] = t.nodes[k][Opposite(side)]
    BY <1>0, <2>1, <2>4 DEF ChildSet
  <2>10. \A e \in Sides : e # which => s.nodes[parent][e] = t.nodes[parent][e]
    BY <1>0, <2>1, <2>4 DEF ChildSet
  <2> QED
    BY <1>2, <2>5, <2>7, <2>8, <2>9, <2>10 DEF PlaceTaken
<1> QED
  BY <1>1, <1>2

\* r is t after a rotation of k.
Turned(N, t, side, k, up, inner, parent, r) ==
    /\ r \in Trees(N) /\ r.root = IF parent = NIL THEN up ELSE t.root
    /\ \A n \in 1..N :
          /\ SameData(r.nodes[n], t.nodes[n])
          /\ r.nodes[n].color = t.nodes[n].color
          /\ n \notin {k, up, inner} => r.nodes[n].parent = t.nodes[n].parent
          /\ n \notin {k, up, parent} =>
                \A e \in Sides : r.nodes[n][e] = t.nodes[n][e]
    /\ r.nodes[k].parent = up /\ r.nodes[up].parent = parent
    /\ inner # NIL => r.nodes[inner].parent = k
    /\ r.nodes[k][Opposite(side)] = t.nodes[k][Opposite(side)]
    /\ r.nodes[k][side] = inner
    /\ r.nodes[up][side] = t.nodes[up][side]
    /\ r.nodes[up][Opposite(side)] = k
    /\ parent # NIL =>
          \A e \in Sides :
             /\ t.nodes[parent][e] = k => r.nodes[parent][e] = up
             /\ t.nodes[parent][e] # k => r.nodes[parent][e] = t.nodes[parent][e]

\* left_rotate and right_rotate
LEMMA RotateFacts ==
    ASSUME NEW N \in Nat, NEW t \in Trees(N), NEW side \in Sides,
           NEW k \in 1..N, NEW up, LinksAround(N, t, side, k, up),
           NEW inner, inner = t.nodes[up][Opposite(side)],
           NEW parent, parent = t.nodes[k].parent,
           NEW r, r = Rotate(t, k, side)
    PROVE  Turned(N, t, side, k, up, inner, parent, r)
<1> DEFINE s1 == TakePlace(t, k, up)
           s2 == SetChild(s1, Opposite(side), up, k)
           s3 == SetChild(s2, side, k, inner)
<1>1. r = s3
  BY Zenon DEF Rotate, LinksAround
<1>2. /\ up \in 1..N /\ up # k /\ parent # up /\ parent # k /\ inner # k /\ inner # up
      /\ Opposite(side) \in Sides /\ Opposite(side) # side /\ k # NIL /\ up # NIL
  BY DEF LinksAround, Opposite, Sides, NIL
<1>3. inner \in 0..N /\ parent \in 0..N /\ NIL \notin 1..N /\ k \in 0..N /\ NIL \in 0..N
  BY <1>2, TreeTypes DEF NIL
<1>4. PlaceTaken(N, t, side, k, up, parent, s1)
  BY TakePlaceFacts
<1> HIDE DEF s1
<1>5. s1 \in Trees(N) /\ s1.nodes[k].parent = NIL /\ s1.nodes[up][Opposite(side)] = inner
  BY <1>2, <1>4 DEF PlaceTaken
<1>6. ChildSet(N, s1, Opposite(side), up, k, NIL, side, inner, s2)
  BY <1>2, <1>5, SetChildFacts
<1> HIDE DEF s2
<1>7. /\ s2 \in Trees(N) /\ s2.root = IF parent = NIL THEN up ELSE t.root
      /\ s2.nodes[k].parent = up /\ s2.nodes[up].parent = parent
      /\ inner # NIL => s2.nodes[inner].parent = NIL
      /\ s2.nodes[k][Opposite(side)] = t.nodes[k][Opposite(side)]
      /\ s2.nodes[up][side] = t.nodes[up][side]
      /\ s2.nodes[up][Opposite(side)] = k
      /\ s2.nodes[k][side] = NIL \/ (s2.nodes[k][side] = up /\ parent = NIL)
  BY <1>2, <1>3, <1>4, <1>6 DEF PlaceTaken, ChildSet, NIL
<1>8. /\ \A n \in 1..N :
            /\ s2.nodes[n].color = t.nodes[n].color
            /\ n \notin {k, up, inner} => s2.nodes[n].parent = t.nodes[n].parent
            /\ n \notin {k, up, parent} =>
                  \A e \in Sides : s2.nodes[n][e] = t.nodes[n][e]
  BY <1>2, <1>3, <1>4, <1>6 DEF PlaceTaken, ChildSet
<1>9. \A n \in 1..N : SameData(s2.nodes[n], t.nodes[n])
  BY <1>4, <1>6 DEF PlaceTaken, ChildSet, SameData
<1>10. parent # NIL =>
          \A e \in Sides :
             /\ t.nodes[parent][e] = k => s2.nodes[parent][e] = up
             /\ t.nodes[parent][e] # k => s2.nodes[parent][e] = t.nodes[parent][e]
  <2>1. parent # NIL => parent \in 1..N
    BY <1>3 DEF NIL
  <2>2. parent # NIL => \A e \in Sides : s2.nodes[parent][e] = s1.nodes[parent][e]
    BY <1>2, <1>3, <1>6, <2>1 DEF ChildSet
  <2> QED
    BY <1>4, <2>2 DEF PlaceTaken
<1>11. CASE inner = NIL
  <2>1. s3 = WithLink(s2, k, side, NIL)
    BY <1>11, Zenon DEF SetChild, WithLink
  <2>2. LinkSet(N, s2, k, side, NIL, s3)
    <3> HIDE DEF s3
    <3> QED
      BY <1>3, <1>7, <2>1, WithLinkFacts
  <2> HIDE DEF s3
  <2>3. \A n \in 1..N : SameData(s3.nodes[n], t.nodes[n])
    BY <1>9, <2>2 DEF LinkSet, SameData
  <2>4. parent # NIL => parent \in 1..N
    BY <1>3 DEF NIL
  <2>5. parent # NIL => \A e \in Sides : s3.nodes[parent][e] = s2.nodes[parent][e]
    BY <1>2, <2>2, <2>4 DEF LinkSet
  <2>6. /\ s3 \in Trees(N) /\ s3.root = s2.root
        /\ s3.nodes[k].parent = up /\ s3.nodes[up].parent = parent
        /\ s3.nodes[k][Opposite(side)] = t.nodes[k][Opposite(side)]
        /\ s3.nodes[k][side] = inner
        /\ s3.nodes[up][side] = t.nodes[up][side]
        /\ s3.nodes[up][Opposite(side)] = k
    BY <1>2, <1>7, <1>11, <2>2 DEF LinkSet
  <2>7. \A n \in 1..N :
            /\ s3.nodes[n].color = t.nodes[n].color
            /\ n \notin {k, up, inner} => s3.nodes[n].parent = t.nodes[n].parent
            /\ n \notin {k, up, parent} =>
                  \A e \in Sides : s3.nodes[n][e] = t.nodes[n][e]
    BY <1>8, <2>2 DEF LinkSet
  <2>8. parent # NIL =>
           \A e \in Sides :
              /\ t.nodes[parent][e] = k => s3.nodes[parent][e] = up
              /\ t.nodes[parent][e] # k => s3.nodes[parent][e] = t.nodes[parent][e]
    BY <1>10, <2>5
  <2>9. s3.root = IF parent = NIL THEN up ELSE t.root
    BY <1>7, <2>6
  <2> QED
    BY <1>1, <1>11, <2>3, <2>6, <2>7, <2>8, <2>9 DEF Turned
<1>12. CASE inner # NIL
  <2>1. inner \in 1..N
    BY <1>3, <1>12 DEF NIL
  <2> DEFINE repl == s2.nodes[k][side]
  <2>2. ChildSet(N, s2, side, k, inner, NIL, side, repl, s3)
    BY <1>2, <1>7, <1>12, <2>1, SetChildFacts
  <2>3. repl = NIL \/ (repl = up /\ parent = NIL)
    BY <1>7
  <2> HIDE DEF s3, repl
  <2>4. \A n \in 1..N : SameData(s3.nodes[n], t.nodes[n])
    BY <1>9, <2>2 DEF ChildSet, SameData
  <2>5. parent # NIL => parent \in 1..N
    BY <1>3 DEF NIL
  <2>6. parent # NIL => \A e \in Sides : s3.nodes[parent][e] = s2.nodes[parent][e]
    BY <1>2, <1>3, <2>2, <2>5 DEF ChildSet
  <2>7. /\ s3 \in Trees(N) /\ s3.root = s2.root
        /\ s3.nodes[k].parent = up /\ s3.nodes[up].parent = parent
        /\ s3.nodes[inner].parent = k
        /\ s3.nodes[k][side] = inner
    BY <1>2, <1>3, <1>7, <2>1, <2>2, <2>3 DEF ChildSet
  <2>8. /\ s3.nodes[k][Opposite(side)] = t.nodes[k][Opposite(side)]
        /\ s3.nodes[up][side] = t.nodes[up][side]
        /\ s3.nodes[up][Opposite(side)] = k
    BY <1>2, <1>3, <1>7, <2>2 DEF ChildSet
  <2>9. \A n \in 1..N :
            /\ s3.nodes[n].color = t.nodes[n].color
            /\ n \notin {k, up, inner} => s3.nodes[n].parent = t.nodes[n].parent
            /\ n \notin {k, up, parent} =>
                  \A e \in Sides : s3.nodes[n][e] = t.nodes[n][e]
    BY <1>3, <1>8, <2>2, <2>3 DEF ChildSet
  <2>10. parent # NIL =>
            \A e \in Sides :
               /\ t.nodes[parent][e] = k => s3.nodes[parent][e] = up
               /\ t.nodes[parent][e] # k => s3.nodes[parent][e] = t.nodes[parent][e]
    BY <1>10, <2>6
  <2>11. s3.root = IF parent = NIL THEN up ELSE t.root
    BY <1>7, <2>7
  <2> QED
    BY <1>1, <2>4, <2>7, <2>8, <2>9, <2>10, <2>11 DEF Turned
<1> QED
  BY <1>11, <1>12

\* What Kids, Parents and Colors are.
LEMMA LinkTypes ==
    ASSUME NEW N \in Nat, NEW t \in Trees(N), NEW side \in Sides
    PROVE  /\ Kids(t, side) \in [1..N -> (1..N) \cup {NIL}]
           /\ Parents(t) \in [1..N -> (1..N) \cup {NIL}]
           /\ Colors(t) \in [1..N -> {"red", "black"}]
           /\ \A n \in 1..N : /\ Kids(t, side)[n] = t.nodes[n][side]
                              /\ Parents(t)[n] = t.nodes[n].parent
                              /\ Colors(t)[n] = t.nodes[n].color
<1>1. DOMAIN t.nodes = 1..N
  BY TreeTypes
<1>2. \A n \in 1..N : /\ t.nodes[n][side] \in (1..N) \cup {NIL}
                      /\ t.nodes[n].parent \in (1..N) \cup {NIL}
                      /\ t.nodes[n].color \in {"red", "black"}
  BY TreeTypes DEF NIL
<1> QED
  BY <1>1, <1>2 DEF Kids, Parents, Colors

\* The order of the nodes from one side to the other.
OrderFrom(N, t, side) ==
    {p \in (1..N) \X (1..N) :
        IF side = "left" THEN t.nodes[p[1]].start_key <= t.nodes[p[2]].start_key
        ELSE t.nodes[p[2]].start_key <= t.nodes[p[1]].start_key}

\* t is a tree, ordered by its start keys; sub are its subtrees.
IsOrdered(N, t, side, sub) ==
    /\ t \in Trees(N)
    /\ Shape(1..N, Kids(t, side), Kids(t, Opposite(side)), Parents(t), t.root, sub)
    /\ Ordered(1..N, Kids(t, side), Kids(t, Opposite(side)), sub,
               OrderFrom(N, t, side))

\* The order is transitive, and from the other side it is the inverse one.
LEMMA OrderFacts ==
    ASSUME NEW N \in Nat, NEW t \in Trees(N), NEW side \in Sides
    PROVE  /\ IsTransitive(OrderFrom(N, t, side))
           /\ \A a, b \in 1..N :
                 <<a, b>> \in OrderFrom(N, t, side)
                    <=> <<b, a>> \in OrderFrom(N, t, Opposite(side))
<1>1. \A n \in 1..N : t.nodes[n].start_key \in Nat
  BY TreeTypes DEF Node
<1>2. CASE side = "left"
  BY <1>1, <1>2 DEF OrderFrom, IsTransitive, Opposite
<1>3. CASE side = "right"
  BY <1>1, <1>3 DEF OrderFrom, IsTransitive, Opposite
<1> QED
  BY <1>2, <1>3 DEF Sides

\* What is said of a tree may be said from either side.
LEMMA EitherSide ==
    ASSUME NEW N \in Nat, NEW t, NEW sub, NEW side \in Sides, NEW other \in Sides,
           IsOrdered(N, t, side, sub)
    PROVE  IsOrdered(N, t, other, sub)
<1> DEFINE opp == Opposite(side)
<1>1. opp \in Sides /\ Opposite(opp) = side /\ (other = side \/ other = opp)
  BY DEF Sides, Opposite
<1>2. t \in Trees(N)
  BY DEF IsOrdered
<1>3. Shape(1..N, Kids(t, side), Kids(t, opp), Parents(t), t.root, sub)
  BY DEF IsOrdered
<1>4. Shape(1..N, Kids(t, opp), Kids(t, side), Parents(t), t.root, sub)
  BY <1>3, ShapeMirror
<1>5. Ordered(1..N, Kids(t, opp), Kids(t, side), sub, OrderFrom(N, t, opp))
  <2>1. Ordered(1..N, Kids(t, side), Kids(t, opp), sub, OrderFrom(N, t, side))
    BY DEF IsOrdered
  <2>2. \A n \in 1..N : /\ sub[Kids(t, side)[n]] \subseteq 1..N
                        /\ sub[Kids(t, opp)[n]] \subseteq 1..N
    BY <1>3 DEF Shape
  <2>3. \A a, b \in 1..N :
           <<a, b>> \in OrderFrom(N, t, side) <=> <<b, a>> \in OrderFrom(N, t, opp)
    BY <1>2, OrderFacts
  <2> HIDE DEF opp
  <2> QED
    BY <2>1, <2>2, <2>3 DEF Ordered
<1>6. IsOrdered(N, t, opp, sub)
  BY <1>1, <1>2, <1>4, <1>5 DEF IsOrdered
<1> QED
  BY <1>1, <1>6

\* A rotation of the code is a rotation of the tree.
LEMMA RotateIsRotated ==
    ASSUME NEW N \in Nat, NEW t, NEW side \in Sides, NEW sub,
           IsOrdered(N, t, side, sub),
           NEW k \in 1..N, t.nodes[k][side] # NIL,
           NEW r, r = Rotate(t, k, side)
    PROVE  /\ r \in Trees(N)
           /\ Rotated(1..N, Kids(t, side), Kids(t, Opposite(side)), Parents(t),
                      t.root, k, Kids(r, side), Kids(r, Opposite(side)),
                      Parents(r), r.root)
           /\ \A n \in 1..N : /\ SameData(r.nodes[n], t.nodes[n])
                              /\ r.nodes[n].color = t.nodes[n].color
<1> DEFINE opp == Opposite(side)
           D == 1..N
           A == Kids(t, side)
           B == Kids(t, opp)
           P == Parents(t)
           up == t.nodes[k][side]
           inner == t.nodes[up][opp]
           parent == t.nodes[k].parent
<1>1. /\ opp \in Sides /\ opp # side /\ Opposite(opp) = side
      /\ Sides = {side, opp} /\ t \in Trees(N)
  BY DEF Sides, Opposite, IsOrdered
<1>2. Shape(D, A, B, P, t.root, sub)
  BY DEF IsOrdered
<1>3. /\ A \in [D -> D \cup {NIL}] /\ B \in [D -> D \cup {NIL}]
      /\ P \in [D -> D \cup {NIL}]
      /\ \A n \in D : A[n] = t.nodes[n][side] /\ B[n] = t.nodes[n][opp]
                        /\ P[n] = t.nodes[n].parent
  BY <1>1, LinkTypes
<1>4. A[k] = up /\ A[k] # NIL
  BY <1>3
<1> HIDE DEF D, A, B, P, opp
<1>5. k \in D
  BY DEF D
<1>6. /\ up \in D /\ up # k /\ P[up] = k /\ P[k] # up /\ up # B[k] /\ up # t.root
      /\ \A n \in D : A[n] = up => n = k
      /\ \A n \in D : B[n] # up
  BY <1>2, <1>4, <1>5, ChildFacts
<1>7. /\ B[up] # up /\ B[up] # k /\ A[up] # k /\ P[k] # k
      /\ \A n \in D : /\ A[n] # NIL => P[A[n]] = n
                      /\ B[n] # NIL => P[B[n]] = n
      /\ P[k] # NIL => /\ k = A[P[k]] \/ k = B[P[k]]
                       /\ A[P[k]] # B[P[k]]
  <2>1. \A n \in D : /\ A[n] # NIL => P[A[n]] = n
                     /\ B[n] # NIL => P[B[n]] = n
                     /\ P[n] # NIL => n = A[P[n]] \/ n = B[P[n]]
    BY <1>2 DEF Shape
  <2>2. NIL \notin D /\ P \in [D -> D \cup {NIL}]
    BY <1>2 DEF Shape
  <2>3. \A n \in D : B[n] # n /\ A[n] # n /\ (A[n] # NIL => A[n] # B[n])
    <3>1. \A n \in D : /\ n \in sub[n] /\ n \notin sub[A[n]] /\ n \notin sub[B[n]]
                       /\ sub[A[n]] \cap sub[B[n]] = {}
                       /\ A[n] \in D \cup {NIL}
      BY <1>2 DEF Shape
    <3> QED
      BY <3>1
  <2>4. P[k] # k
    BY <1>5, <2>1, <2>2, <2>3
  <2>5. B[up] # k /\ A[up] # k
    BY <1>5, <1>6, <2>1, <2>2
  <2> QED
    BY <1>5, <1>6, <2>1, <2>2, <2>3, <2>4, <2>5
<1>8. LinksAround(N, t, side, k, up)
  <2>1. up = t.nodes[k][side] /\ up \in 1..N
    BY <1>6 DEF D
  <2> HIDE DEF up
  <2>2. /\ up # k /\ t.nodes[k][opp] # up /\ t.nodes[up].parent = k
        /\ t.nodes[k].parent # up /\ t.nodes[k].parent # k
        /\ t.nodes[up][opp] # k /\ t.nodes[up][side] # k /\ t.nodes[up][opp] # up
    BY <1>3, <1>5, <1>6, <1>7
  <2>3. \A n \in D : \A s \in Sides :
           t.nodes[n][s] # NIL => t.nodes[t.nodes[n][s]].parent = n
    BY <1>1, <1>3, <1>7
  <2>4. parent # NIL => \E s \in Sides : /\ t.nodes[parent][s] = k
                                         /\ t.nodes[parent][Opposite(s)] # k
    <3>1. parent = P[k] /\ (parent # NIL => parent \in D)
      BY <1>3, <1>5
    <3> QED
      BY <1>1, <1>3, <1>7, <3>1 DEF opp
  <2> QED
    BY <2>1, <2>2, <2>3, <2>4 DEF LinksAround, D, opp
<1>9. Turned(N, t, side, k, up, inner, parent, r)
  BY <1>1, <1>8, RotateFacts DEF opp
<1>10. r \in Trees(N) /\ r.root = IF parent = NIL THEN up ELSE t.root
  BY <1>9 DEF Turned
<1> DEFINE A2 == Kids(r, side)
           B2 == Kids(r, opp)
           P2 == Parents(r)
<1>11. /\ A2 \in [D -> D \cup {NIL}] /\ B2 \in [D -> D \cup {NIL}]
       /\ P2 \in [D -> D \cup {NIL}]
       /\ \A n \in D : A2[n] = r.nodes[n][side] /\ B2[n] = r.nodes[n][opp]
                         /\ P2[n] = r.nodes[n].parent
  BY <1>1, <1>10, LinkTypes DEF D
<1> HIDE DEF A2, B2, P2
<1>12. inner = B[up] /\ parent = P[k] /\ inner \in D \cup {NIL}
  BY <1>3, <1>5, <1>6
<1>13. /\ A2[k] = inner /\ B2[k] = B[k] /\ P2[k] = up
       /\ A2[up] = A[up] /\ B2[up] = k /\ P2[up] = parent
  BY <1>1, <1>3, <1>5, <1>6, <1>9, <1>11 DEF Turned, opp
<1> HIDE DEF up, inner, parent
<1>14. ASSUME NEW n \in D \ {k, up}
       PROVE  /\ A2[n] = IF A[n] = k THEN up ELSE A[n]
              /\ B2[n] = IF B[n] = k THEN up ELSE B[n]
  <2>1. CASE n = parent
    <3>1. parent # NIL
      BY <1>2, <1>14, <2>1 DEF Shape
    <3> QED
      BY <1>1, <1>3, <1>9, <1>11, <1>14, <2>1, <3>1 DEF Turned
  <2>2. CASE n # parent
    <3>1. A[n] # k /\ B[n] # k
      BY <1>2, <1>5, <1>7, <1>12, <2>2 DEF Shape
    <3>2. n \in 1..N /\ n \notin {k, up, parent}
      BY <1>14, <2>2 DEF D
    <3>3. r.nodes[n][side] = t.nodes[n][side] /\ r.nodes[n][opp] = t.nodes[n][opp]
      BY <1>1, <1>9, <3>2 DEF Turned
    <3> QED
      BY <1>3, <1>11, <1>14, <3>1, <3>3
  <2> QED
    BY <2>1, <2>2
<1>15. ASSUME NEW n \in D \ {k, up}
       PROVE  P2[n] = IF n = inner THEN k ELSE P[n]
  <2>1. n # NIL /\ n \in 1..N
    BY <1>2, <1>15 DEF Shape, D
  <2>2. n = inner => r.nodes[n].parent = k
    BY <1>9, <2>1 DEF Turned
  <2>3. n # inner => r.nodes[n].parent = t.nodes[n].parent
    BY <1>9, <1>15, <2>1 DEF Turned
  <2> QED
    BY <1>3, <1>11, <1>15, <2>2, <2>3
<1>16. Rotated(D, A, B, P, t.root, k, A2, B2, P2, r.root)
  BY <1>4, <1>10, <1>11, <1>12, <1>13, <1>14, <1>15 DEF Rotated
<1>17. \A n \in 1..N : /\ SameData(r.nodes[n], t.nodes[n])
                       /\ r.nodes[n].color = t.nodes[n].color
  BY <1>9 DEF Turned
<1> QED
  BY <1>10, <1>16, <1>17 DEF D, A, B, P, A2, B2, P2, opp

\* r has the nodes of t, but perhaps not their colours.
SameLinks(N, t, r) ==
    /\ r \in Trees(N) /\ r.root = t.root
    /\ \A n \in 1..N : /\ SameData(r.nodes[n], t.nodes[n])
                       /\ r.nodes[n].parent = t.nodes[n].parent
                       /\ \A s \in Sides : r.nodes[n][s] = t.nodes[n][s]

\* The order depends on the start keys alone.
LEMMA SameOrder ==
    ASSUME NEW N \in Nat, NEW t, NEW r, NEW side \in Sides,
           \A n \in 1..N : SameData(r.nodes[n], t.nodes[n])
    PROVE  OrderFrom(N, r, side) = OrderFrom(N, t, side)
<1>1. \A n \in 1..N : r.nodes[n].start_key = t.nodes[n].start_key
  BY DEF SameData
<1> QED
  BY <1>1 DEF OrderFrom

\* Recolouring keeps everything else.
LEMMA RecoloredTree ==
    ASSUME NEW N \in Nat, NEW t \in Trees(N), NEW r, SameLinks(N, t, r),
           NEW side \in Sides
    PROVE  /\ Kids(r, side) = Kids(t, side)
           /\ Parents(r) = Parents(t) /\ r.root = t.root /\ r \in Trees(N)
           /\ OrderFrom(N, r, side) = OrderFrom(N, t, side)
           /\ \A sub : IsOrdered(N, t, side, sub) => IsOrdered(N, r, side, sub)
<1>1. DOMAIN r.nodes = 1..N /\ DOMAIN t.nodes = 1..N /\ r \in Trees(N)
  BY TreeTypes DEF SameLinks
<1>2. \A e \in Sides : Kids(r, e) = Kids(t, e)
  BY <1>1 DEF SameLinks, Kids
<1>3. Parents(r) = Parents(t)
  BY <1>1 DEF SameLinks, Parents
<1>4. OrderFrom(N, r, side) = OrderFrom(N, t, side)
  BY SameOrder DEF SameLinks
<1>5. r.root = t.root
  BY DEF SameLinks
<1>6. Opposite(side) \in Sides
  BY DEF Sides, Opposite
<1> QED
  BY <1>1, <1>2, <1>3, <1>4, <1>5, <1>6 DEF IsOrdered

\* A rotation keeps the tree and its order.
LEMMA RotateKeepsOrder ==
    ASSUME NEW N \in Nat, NEW t, NEW side \in Sides, NEW sub,
           IsOrdered(N, t, side, sub),
           NEW k \in 1..N, t.nodes[k][side] # NIL,
           NEW r, r = Rotate(t, k, side)
    PROVE  \E sub2 : IsOrdered(N, r, side, sub2)
<1> DEFINE opp == Opposite(side)
           A == Kids(t, side)
           B == Kids(t, opp)
           A2 == Kids(r, side)
           B2 == Kids(r, opp)
           sub2 == SubRotated(A, B, k, sub)
<1>1. /\ r \in Trees(N)
      /\ Rotated(1..N, A, B, Parents(t), t.root, k, A2, B2, Parents(r), r.root)
      /\ \A n \in 1..N : SameData(r.nodes[n], t.nodes[n])
  BY RotateIsRotated
<1>2. /\ t \in Trees(N)
      /\ Shape(1..N, A, B, Parents(t), t.root, sub)
      /\ Ordered(1..N, A, B, sub, OrderFrom(N, t, side))
  BY DEF IsOrdered
<1>3. A[k] # NIL
  BY <1>2, LinkTypes
<1>4. IsTransitive(OrderFrom(N, t, side))
  BY <1>2, OrderFacts
<1>5. OrderFrom(N, r, side) = OrderFrom(N, t, side)
  BY <1>1, SameOrder
<1> HIDE DEF A, B, A2, B2, opp
<1>6. Shape(1..N, A2, B2, Parents(r), r.root, sub2)
  BY <1>1, <1>2, <1>3, RotateShape
<1>7. Ordered(1..N, A2, B2, sub2, OrderFrom(N, t, side))
  BY <1>1, <1>2, <1>3, <1>4, RotateOrdered
<1> HIDE DEF sub2
<1>8. IsOrdered(N, r, side, sub2)
  BY <1>1, <1>5, <1>6, <1>7 DEF IsOrdered, A2, B2, opp
<1> QED
  BY <1>8
-----------------------------------------------------------------------------
(* fix_insert.                                                             *)

\* What the loop of fix_insert keeps: t is the tree and x the node it is at.
IsFixing(N, t, x, side, sub, bh) ==
    /\ IsOrdered(N, t, side, sub)
    /\ Fixing(1..N, Kids(t, side), Kids(t, Opposite(side)), Parents(t), t.root,
              Colors(t), bh, x)

\* What fix_insert keeps does not depend on the side.
LEMMA IsFixingEitherSide ==
    ASSUME NEW N \in Nat, NEW t, NEW x, NEW sub, NEW bh, NEW side \in Sides,
           NEW other \in Sides, IsFixing(N, t, x, side, sub, bh)
    PROVE  IsFixing(N, t, x, other, sub, bh)
<1>1. other = side \/ other = Opposite(side)
  BY DEF Sides, Opposite
<1>2. Opposite(Opposite(side)) = side
  BY DEF Sides, Opposite
<1>3. IsOrdered(N, t, other, sub)
  BY EitherSide DEF IsFixing
<1> QED
  BY <1>1, <1>2, <1>3, ColorsMirror DEF IsFixing

\* One more colour set.
LEMMA ColorSetLinks ==
    ASSUME NEW N \in Nat, NEW t \in Trees(N), NEW n \in 1..N,
           NEW col \in {"red", "black"},
           NEW r, r = WithColor(t, n, col)
    PROVE  /\ SameLinks(N, t, r) /\ r \in Trees(N)
           /\ Colors(r) = Colored(Colors(t), n, col)
<1>1. ColorSet(N, t, n, col, r)
  BY WithColorFacts
<1>2. SameLinks(N, t, r) /\ r \in Trees(N)
  BY <1>1 DEF ColorSet, SameLinks
<1> DEFINE C == Colors(t)
           C2 == [C EXCEPT ![n] = col]
<1>3. C \in [1..N -> {"red", "black"}] /\ \A m \in 1..N : C[m] = t.nodes[m].color
  BY LinkTypes DEF Sides
<1>4. /\ Colors(r) \in [1..N -> {"red", "black"}]
      /\ \A m \in 1..N : Colors(r)[m] = r.nodes[m].color
  BY <1>2, LinkTypes DEF Sides
<1>5. \A m \in 1..N : r.nodes[m].color = IF m = n THEN col ELSE t.nodes[m].color
  BY <1>1 DEF ColorSet
<1> HIDE DEF C
<1>6. C2 \in [1..N -> {"red", "black"}]
      /\ \A m \in 1..N : C2[m] = IF m = n THEN col ELSE C[m]
  BY <1>3
<1> HIDE DEF C2
<1>7. \A m \in 1..N : Colors(r)[m] = C2[m]
  BY <1>3, <1>4, <1>5, <1>6
<1>8. Colors(r) = C2
  BY <1>4, <1>6, <1>7
<1> QED
  BY <1>2, <1>8 DEF C, C2, Colored

\* Trees with the links of the same tree have the same links.
LEMMA SameLinksTwice ==
    ASSUME NEW N \in Nat, NEW t, NEW u, NEW r,
           SameLinks(N, t, u), SameLinks(N, u, r)
    PROVE  SameLinks(N, t, r)
  BY DEF SameLinks, SameData

\* The parent black and the grandparent red.
LEMMA RecolorFacts ==
    ASSUME NEW N \in Nat, NEW t \in Trees(N), NEW p \in 1..N, NEW g \in 1..N,
           NEW r, r = Recolor(t, p, g)
    PROVE  /\ SameLinks(N, t, r) /\ r \in Trees(N)
           /\ Colors(r) = BlackRed(Colors(t), p, g)
<1> DEFINE v == WithColor(t, p, "black")
<1>1. r = WithColor(v, g, "red")
  BY Zenon DEF Recolor, WithColor
<1> HIDE DEF v
<1>2. "red" \in {"red", "black"} /\ "black" \in {"red", "black"}
  OBVIOUS
<1>3. /\ SameLinks(N, t, v) /\ v \in Trees(N)
      /\ Colors(v) = Colored(Colors(t), p, "black")
  BY <1>2, ColorSetLinks DEF v
<1>4. v \in Trees(N)
  BY <1>3
<1>5. /\ SameLinks(N, v, r) /\ r \in Trees(N)
      /\ Colors(r) = Colored(Colors(v), g, "red")
  BY <1>1, <1>2, <1>4, ColorSetLinks
<1>6. SameLinks(N, t, r)
  BY <1>3, <1>5, SameLinksTwice
<1>7. Colors(r) = BlackRed(Colors(t), p, g)
  BY <1>3, <1>5 DEF BlackRed, Colored
<1> QED
  BY <1>5, <1>6, <1>7

\* The turn that ends the loop, of a node on the same side as its parent.
LEMMA OuterTurn ==
    ASSUME NEW N \in Nat, NEW t, NEW x, NEW sub, NEW bh, NEW side \in Sides,
           IsFixing(N, t, x, side, sub, bh),
           NEW p \in 1..N, t.nodes[p][side] = x, t.nodes[p].color = "red",
           NEW g \in 1..N, t.nodes[g][side] = p,
           ~IsRed(t, t.nodes[g][Opposite(side)]),
           NEW r, r = Rotate(Recolor(t, p, g), g, side)
    PROVE  /\ \E sub2, bh2 : IsFixing(N, r, x, side, sub2, bh2)
           /\ \A n \in 1..N : SameData(r.nodes[n], t.nodes[n])
           /\ ~IsRed(r, r.nodes[x].parent)
<1> DEFINE opp == Opposite(side)
           A == Kids(t, side)
           B == Kids(t, opp)
           P == Parents(t)
           C == Colors(t)
           w == Recolor(t, p, g)
           C2 == Colors(r)
<1>1. t \in Trees(N) /\ opp \in Sides
  BY DEF IsFixing, IsOrdered, Sides, Opposite
<1>2. /\ SameLinks(N, t, w) /\ w \in Trees(N)
      /\ Colors(w) = BlackRed(C, p, g)
  BY <1>1, RecolorFacts
<1> HIDE DEF w
<1>3. /\ IsOrdered(N, w, side, sub) /\ w.root = t.root
      /\ Kids(w, side) = A /\ Kids(w, opp) = B /\ Parents(w) = P
  BY <1>1, <1>2, RecoloredTree DEF IsFixing
<1>4. \A n \in 1..N : A[n] = t.nodes[n][side] /\ B[n] = t.nodes[n][opp]
                         /\ C[n] = t.nodes[n].color
  BY <1>1, LinkTypes
<1>5. w.nodes[g][side] = p /\ p # NIL
  BY <1>2 DEF SameLinks, NIL
<1>6. r = Rotate(w, g, side)
  BY DEF w
<1>7. /\ r \in Trees(N)
      /\ Rotated(1..N, A, B, P, t.root, g, Kids(r, side), Kids(r, opp), Parents(r),
                 r.root)
      /\ \A n \in 1..N : /\ SameData(r.nodes[n], w.nodes[n])
                         /\ r.nodes[n].color = w.nodes[n].color
  BY <1>3, <1>5, <1>6, RotateIsRotated
<1>8. PICK sub2 : IsOrdered(N, r, side, sub2)
  BY <1>3, <1>5, <1>6, RotateKeepsOrder
<1>9. \A n \in 1..N : SameData(r.nodes[n], t.nodes[n])
  BY <1>2, <1>7 DEF SameLinks, SameData
<1>10. C2 = BlackRed(C, p, g)
  <2>1. Colors(r) = Colors(w)
    <3>1. /\ Colors(r) \in [1..N -> {"red", "black"}]
          /\ \A n \in 1..N : Colors(r)[n] = r.nodes[n].color
      BY <1>1, <1>7, LinkTypes
    <3>2. /\ Colors(w) \in [1..N -> {"red", "black"}]
          /\ \A n \in 1..N : Colors(w)[n] = w.nodes[n].color
      <4>1. w \in Trees(N)
        BY <1>2
      <4> QED
        BY <4>1, LinkTypes
    <3> QED
      BY <1>7, <3>1, <3>2
  <2> QED
    BY <1>2, <2>1
<1>11. Shape(1..N, A, B, P, t.root, sub)
  BY DEF IsFixing, IsOrdered
<1>12. Fixing(1..N, A, B, P, t.root, C, bh, x)
  BY DEF IsFixing
<1>13. x = A[p] /\ C[p] = "red" /\ p = A[g]
  BY <1>4
<1>14. B[g] = NIL \/ C[B[g]] = "black"
  <2>1. B[g] \in (1..N) \cup {NIL}
    BY <1>11 DEF Shape
  <2>2. t.nodes[B[g]].color # "red" \/ B[g] = NIL
    BY <1>4 DEF IsRed
  <2>3. B[g] # NIL => C[B[g]] \in {"red", "black"}
    BY <1>12, <2>1 DEF Fixing, Heights
  <2> QED
    BY <1>4, <2>1, <2>2, <2>3
<1>15. Rotated(1..N, A, B, P, t.root, g, Kids(r, side), Kids(r, opp), Parents(r),
               r.root)
  BY <1>7
<1>16. PICK bh2 : Fixing(1..N, Kids(r, side), Kids(r, opp), Parents(r), r.root,
                         C2, bh2, x)
  <2> HIDE DEF A, B, P, C, C2, opp
  <2> QED
    BY <1>10, <1>11, <1>12, <1>13, <1>14, <1>15, OuterColors
<1>17. C2[Parents(r)[x]] = "black"
  <2> HIDE DEF A, B, P, C, C2, opp
  <2> QED
    BY <1>10, <1>11, <1>12, <1>13, <1>14, <1>15, OuterColors
<1>18. ~IsRed(r, r.nodes[x].parent)
  <2>1. x \in 1..N
    BY <1>12 DEF Fixing
  <2>2. /\ Parents(r) \in [1..N -> (1..N) \cup {NIL}]
        /\ \A n \in 1..N : Parents(r)[n] = r.nodes[n].parent
        /\ \A n \in 1..N : C2[n] = r.nodes[n].color
    BY <1>7, LinkTypes
  <2>3. Parents(r)[x] \in (1..N) \cup {NIL} /\ Parents(r)[x] = r.nodes[x].parent
    BY <2>1, <2>2
  <2> QED
    BY <1>17, <2>2, <2>3 DEF IsRed
<1>19. IsFixing(N, r, x, side, sub2, bh2)
  BY <1>8, <1>16 DEF IsFixing
<1> QED
  BY <1>9, <1>18, <1>19

\* In r, which is t otherwise, p and its inner child x have changed places.
InnerTurned(N, t, x, p, g, side, bh, r) ==
    /\ \E sub2 : IsFixing(N, r, p, side, sub2, bh)
    /\ \A n \in 1..N : /\ SameData(r.nodes[n], t.nodes[n])
                       /\ r.nodes[n].color = t.nodes[n].color
    /\ r.nodes[x][side] = p /\ r.nodes[g][side] = x
    /\ r.nodes[g][Opposite(side)] = t.nodes[g][Opposite(side)]

\* The rotation that brings a node on the other side than its parent out; its
\* parent is then the node to go on with.
LEMMA InnerTurn ==
    ASSUME NEW N \in Nat, NEW t, NEW x, NEW sub, NEW bh, NEW side \in Sides,
           IsFixing(N, t, x, side, sub, bh),
           NEW p \in 1..N, t.nodes[p][Opposite(side)] = x, t.nodes[p].color = "red",
           NEW g \in 1..N, t.nodes[g][side] = p,
           NEW r, r = Rotate(t, p, Opposite(side))
    PROVE  InnerTurned(N, t, x, p, g, side, bh, r)
<1> SUFFICES /\ \E sub2 : IsFixing(N, r, p, side, sub2, bh)
             /\ \A n \in 1..N : /\ SameData(r.nodes[n], t.nodes[n])
                                /\ r.nodes[n].color = t.nodes[n].color
             /\ r.nodes[x][side] = p /\ r.nodes[g][side] = x
             /\ r.nodes[g][Opposite(side)] = t.nodes[g][Opposite(side)]
  BY Zenon DEF InnerTurned
<1> DEFINE opp == Opposite(side)
           A == Kids(t, opp)
           B == Kids(t, side)
           P == Parents(t)
           A2 == Kids(r, opp)
           B2 == Kids(r, side)
           P2 == Parents(r)
<1>1. t \in Trees(N) /\ opp \in Sides /\ Opposite(opp) = side
  BY DEF IsFixing, IsOrdered, Sides, Opposite
<1>2. IsFixing(N, t, x, opp, sub, bh)
  BY <1>1, IsFixingEitherSide
<1>3. /\ IsOrdered(N, t, opp, sub)
      /\ Shape(1..N, A, B, P, t.root, sub)
      /\ Fixing(1..N, A, B, P, t.root, Colors(t), bh, x)
  BY <1>1, <1>2 DEF IsFixing, IsOrdered
<1>4. x \in 1..N /\ x # NIL
  BY <1>3 DEF Fixing, NIL
<1>5. /\ r \in Trees(N)
      /\ Rotated(1..N, A, B, P, t.root, p, A2, B2, P2, r.root)
      /\ \A n \in 1..N : /\ SameData(r.nodes[n], t.nodes[n])
                         /\ r.nodes[n].color = t.nodes[n].color
  BY <1>1, <1>3, <1>4, RotateIsRotated
<1>6. PICK sub2 : IsOrdered(N, r, opp, sub2)
  BY <1>1, <1>3, <1>4, RotateKeepsOrder
<1>7. \A n \in 1..N : /\ A[n] = t.nodes[n][opp] /\ B[n] = t.nodes[n][side]
                      /\ P[n] = t.nodes[n].parent /\ Colors(t)[n] = t.nodes[n].color
  BY <1>1, LinkTypes
<1>8. \A n \in 1..N : A2[n] = r.nodes[n][opp] /\ B2[n] = r.nodes[n][side]
  <2>1. r \in Trees(N)
    BY <1>5
  <2> QED
    BY <1>1, <2>1, LinkTypes
<1>9. x = A[p] /\ Colors(t)[p] = "red" /\ B[g] = p /\ A[p] # NIL
  BY <1>4, <1>7
<1>10. P[p] = g /\ g # NIL /\ NIL \notin 1..N
  BY <1>3, <1>9 DEF Shape
<1>11. /\ x # p /\ g # p /\ g # x /\ A[g] # p
  <2>1. A[p] # p /\ P[p] # A[p]
    BY <1>3, <1>9, ChildFacts
  <2>2. Shape(1..N, B, A, P, t.root, sub)
    BY <1>3, ShapeMirror
  <2>3. B[g] # g /\ \A n \in 1..N : A[n] # B[g]
    <3>1. B[g] # NIL
      BY <1>9, <1>10
    <3> QED
      BY <2>2, <3>1, ChildFacts
  <2> QED
    BY <1>9, <1>10, <2>1, <2>3
<1>12. B2[x] = p /\ B2[g] = x /\ A2[g] = A[g]
  <2> HIDE DEF A, B, P, A2, B2, P2
  <2> QED
    BY <1>4, <1>5, <1>9, <1>11 DEF Rotated
<1>13. Colors(r) = Colors(t)
  <2>1. /\ Colors(t) \in [1..N -> {"red", "black"}]
        /\ \A n \in 1..N : Colors(t)[n] = t.nodes[n].color
    BY <1>1, LinkTypes
  <2>2. r \in Trees(N)
    BY <1>5
  <2>3. /\ Colors(r) \in [1..N -> {"red", "black"}]
        /\ \A n \in 1..N : Colors(r)[n] = r.nodes[n].color
    BY <1>1, <2>2, LinkTypes
  <2> QED
    BY <1>5, <2>1, <2>3
<1>14. Fixing(1..N, A2, B2, P2, r.root, Colors(t), bh, p)
  <2>1. Rotated(1..N, A, B, P, t.root, p, A2, B2, P2, r.root)
    BY <1>5
  <2>2. P[p] # NIL
    BY <1>10
  <2> HIDE DEF A, B, P, A2, B2, P2
  <2> QED
    BY <1>3, <1>9, <2>1, <2>2, InnerColors
<1>15. IsFixing(N, r, p, opp, sub2, bh)
  BY <1>1, <1>6, <1>13, <1>14 DEF IsFixing
<1>16. IsFixing(N, r, p, side, sub2, bh)
  BY <1>1, <1>15, IsFixingEitherSide
<1> QED
  BY <1>4, <1>5, <1>7, <1>8, <1>12, <1>16

\* The turn that only recolours and goes up.
LEMMA UpTurn ==
    ASSUME NEW N \in Nat, NEW t, NEW x, NEW sub, NEW bh, NEW side \in Sides,
           IsFixing(N, t, x, side, sub, bh),
           NEW p \in 1..N, t.nodes[x].parent = p, t.nodes[p].color = "red",
           NEW g \in 1..N, t.nodes[g][side] = p, t.nodes[p].parent = g,
           NEW uncle, uncle = t.nodes[g][Opposite(side)], IsRed(t, uncle),
           NEW r, r = WithColor(Recolor(t, p, g), uncle, "black")
    PROVE  /\ \E bh2 : IsFixing(N, r, g, side, sub, bh2)
           /\ \A n \in 1..N : SameData(r.nodes[n], t.nodes[n])
           /\ sub[x] \subseteq sub[g] /\ sub[x] # sub[g]
<1> DEFINE opp == Opposite(side)
           A == Kids(t, side)
           B == Kids(t, opp)
           P == Parents(t)
           C == Colors(t)
           w == Recolor(t, p, g)
           C2 == Colors(r)
<1>1. t \in Trees(N) /\ opp \in Sides
  BY DEF IsFixing, IsOrdered, Sides, Opposite
<1>2. r = WithColor(w, uncle, "black")
  OBVIOUS
<1>3. uncle \in 1..N /\ t.nodes[uncle].color = "red"
  <2>1. t.nodes[g][opp] \in 0..N
    BY <1>1, TreeTypes
  <2> QED
    BY <2>1 DEF IsRed, NIL
<1>4. /\ SameLinks(N, t, w) /\ w \in Trees(N)
      /\ Colors(w) = BlackRed(C, p, g)
  BY <1>1, RecolorFacts
<1> HIDE DEF w
<1>5. /\ SameLinks(N, w, r) /\ r \in Trees(N)
      /\ Colors(r) = Colored(Colors(w), uncle, "black")
  <2>1. w \in Trees(N) /\ "black" \in {"red", "black"}
    BY <1>4
  <2> QED
    BY <1>2, <1>3, <2>1, ColorSetLinks
<1>6. SameLinks(N, t, r)
  BY <1>4, <1>5, SameLinksTwice
<1>7. C2 = BlackRedBlack(C, p, g, uncle)
  BY <1>4, <1>5 DEF BlackRed, BlackRedBlack, Colored
<1>8. /\ IsOrdered(N, r, side, sub) /\ r.root = t.root
      /\ Kids(r, side) = A /\ Kids(r, opp) = B /\ Parents(r) = P
  BY <1>1, <1>6, RecoloredTree DEF IsFixing
<1>9. \A n \in 1..N : A[n] = t.nodes[n][side] /\ B[n] = t.nodes[n][opp]
                      /\ P[n] = t.nodes[n].parent /\ C[n] = t.nodes[n].color
  BY <1>1, LinkTypes
<1>10. Shape(1..N, A, B, P, t.root, sub) /\ Fixing(1..N, A, B, P, t.root, C, bh, x)
  BY DEF IsFixing, IsOrdered
<1>11. /\ p = P[x] /\ C[p] = "red" /\ g = P[p] /\ p = A[g]
       /\ uncle = B[g] /\ C[uncle] = "red"
  BY <1>3, <1>9, <1>10 DEF Fixing
<1>12. /\ \E bh2 : Fixing(1..N, A, B, P, t.root, C2, bh2, g)
       /\ sub[x] \subseteq sub[g] /\ sub[x] # sub[g]
  <2> DEFINE D == 1..N
  <2>1. p \in D /\ g \in D /\ uncle \in D
    BY <1>3
  <2>2. Shape(D, A, B, P, t.root, sub)
    BY <1>10
  <2>3. Fixing(D, A, B, P, t.root, C, bh, x)
    BY <1>10
  <2> HIDE DEF A, B, P, C, C2, opp, D
  <2>4. HasRedUncle(D, A, B, P, C, x, p, g, uncle)
    BY <1>11, <2>1 DEF HasRedUncle
  <2>5. /\ \E bh2 : Fixing(D, A, B, P, t.root, C2, bh2, g)
        /\ sub[x] \subseteq sub[g] /\ sub[x] # sub[g]
    BY <1>7, <2>2, <2>3, <2>4, RecolorColors
  <2> QED
    BY <2>5 DEF D
<1>13. \E bh2 : IsFixing(N, r, g, side, sub, bh2)
  BY <1>8, <1>12 DEF IsFixing
<1>14. \A n \in 1..N : SameData(r.nodes[n], t.nodes[n])
  BY <1>6 DEF SameLinks
<1> QED
  BY <1>12, <1>13, <1>14

\* One turn of fix_insert: it goes on only from a node with a larger subtree.
LEMMA FixStepFacts ==
    ASSUME NEW N \in Nat, NEW s, NEW sub, NEW bh,
           IsFixing(N, s.tree, s.node, "left", sub, bh),
           IsRed(s.tree, s.tree.nodes[s.node].parent),
           NEW r, r = FixStep(s)
    PROVE  /\ r = [tree |-> r.tree, node |-> r.node]
           /\ \A n \in 1..N : SameData(r.tree.nodes[n], s.tree.nodes[n])
           /\ \E sub2, bh2 :
                 /\ IsFixing(N, r.tree, r.node, "left", sub2, bh2)
                 /\ IsRed(r.tree, r.tree.nodes[r.node].parent)
                       => Cardinality(sub2[r.node]) > Cardinality(sub[s.node])
<1> DEFINE t == s.tree
           x == s.node
           p == t.nodes[x].parent
           g == t.nodes[p].parent
           side == IF t.nodes[g].right = p THEN "right" ELSE "left"
           opp == Opposite(side)
           uncle == t.nodes[g][opp]
           inner == x = t.nodes[p][opp]
           u == Rotate(t, p, opp)
<1>1. /\ t \in Trees(N) /\ "left" \in Sides /\ side \in Sides /\ opp \in Sides
  BY DEF IsFixing, IsOrdered, Sides, Opposite
<1>2. /\ Shape(1..N, Kids(t, "left"), Kids(t, "right"), Parents(t), t.root, sub)
      /\ Fixing(1..N, Kids(t, "left"), Kids(t, "right"), Parents(t), t.root,
                Colors(t), bh, x)
  BY DEF IsFixing, IsOrdered, Opposite
<1>3. /\ \A n \in 1..N : /\ Kids(t, "left")[n] = t.nodes[n].left
                         /\ Parents(t)[n] = t.nodes[n].parent
                         /\ Colors(t)[n] = t.nodes[n].color
      /\ Parents(t) \in [1..N -> (1..N) \cup {NIL}]
  BY <1>1, LinkTypes
<1>4. \A n \in 1..N : Kids(t, "right")[n] = t.nodes[n].right
  <2>1. "right" \in Sides
    BY DEF Sides
  <2> QED
    BY <1>1, <2>1, LinkTypes
<1>5. x \in 1..N
  BY <1>2 DEF Fixing
<1>6. p \in 1..N /\ t.nodes[p].color = "red" /\ p # NIL
  BY <1>3, <1>5 DEF IsRed
<1>7. /\ x # p /\ g \in 1..N /\ g # NIL
      /\ x = t.nodes[p].left \/ x = t.nodes[p].right
      /\ p = t.nodes[g].left \/ p = t.nodes[g].right
  <2> DEFINE L == Kids(t, "left")
             R == Kids(t, "right")
             P == Parents(t)
  <2>1. P[x] = p /\ P[p] = g
    BY <1>3, <1>5, <1>6
  <2> HIDE DEF t, x, p, g, L, R, P
  <2>2. /\ P[x] # x /\ NIL \notin 1..N
        /\ P[x] # NIL => x # t.root /\ (x = L[P[x]] \/ x = R[P[x]])
    BY <1>2, <1>5, ParentFacts DEF L, R, P
  <2>3. /\ P[p] \in (1..N) \cup {NIL}
        /\ P[p] # NIL => p = L[P[p]] \/ p = R[P[p]]
        /\ P[p] = NIL => p = t.root
    BY <1>2, <1>6, ParentFacts DEF L, R, P
  <2>4. p # t.root
    BY <1>2, <1>3, <1>6, <2>1, <2>2 DEF Fixing
  <2> QED
    BY <1>3, <1>4, <1>6, <2>1, <2>2, <2>3, <2>4 DEF L, R
<1>8. t.nodes[g][side] = p /\ t.nodes[p].parent = g
  BY <1>7
<1>9. x = t.nodes[p][side] \/ x = t.nodes[p][opp]
  <2>1. x = t.nodes[p].left \/ x = t.nodes[p].right
    BY <1>7
  <2> QED
    BY <2>1 DEF Opposite
<1>10. IsFixing(N, t, x, side, sub, bh)
  BY <1>1, IsFixingEitherSide
<1>11. CASE IsRed(t, uncle)
  <2> DEFINE w == WithColor(Recolor(t, p, g), uncle, "black")
  <2>1. r = [tree |-> w, node |-> g]
    <3>1. r = [tree |-> [Recolor(t, p, g) EXCEPT !.nodes[uncle].color = "black"],
               node |-> g]
      BY Zenon, <1>11 DEF FixStep
    <3> QED
      BY Zenon, <3>1 DEF WithColor
  <2>2. /\ \E bh2 : IsFixing(N, w, g, side, sub, bh2)
        /\ \A n \in 1..N : SameData(w.nodes[n], t.nodes[n])
        /\ sub[x] \subseteq sub[g] /\ sub[x] # sub[g]
    <3> HIDE DEF t, x, p, g, side, opp, uncle
    <3>1. p = t.nodes[x].parent /\ uncle = t.nodes[g][Opposite(side)]
      BY DEF p, uncle, opp
    <3> HIDE DEF w
    <3>2. w = WithColor(Recolor(t, p, g), uncle, "black")
      BY DEF w
    <3> QED
      BY <1>1, <1>6, <1>7, <1>8, <1>10, <1>11, <3>1, <3>2, UpTurn
  <2> HIDE DEF w
  <2>3. PICK bh2 : IsFixing(N, w, g, side, sub, bh2)
    BY <2>2
  <2>4. IsFixing(N, w, g, "left", sub, bh2)
    <3> HIDE DEF g, side
    <3> QED
      BY <1>1, <2>3, IsFixingEitherSide
  <2>5. Cardinality(sub[g]) > Cardinality(sub[x])
    <3>1. IsFiniteSet(sub[g])
      <4> HIDE DEF t, x, g
      <4> QED
        BY <1>2, <1>7, ParentFacts
    <3> HIDE DEF g, x
    <3>2. /\ Cardinality(sub[x]) <= Cardinality(sub[g])
          /\ Cardinality(sub[x]) # Cardinality(sub[g])
          /\ IsFiniteSet(sub[x])
      BY <2>2, <3>1, FS_Subset
    <3>3. Cardinality(sub[x]) \in Nat /\ Cardinality(sub[g]) \in Nat
      BY <3>1, <3>2, FS_CardinalityType
    <3> QED
      BY <3>2, <3>3
  <2>6. r.tree = w /\ r.node = g /\ r = [tree |-> r.tree, node |-> r.node]
    BY <2>1
  <2> QED
    BY <2>2, <2>4, <2>5, <2>6
<1>12. CASE ~IsRed(t, uncle) /\ ~inner
  <2> DEFINE w == Rotate(Recolor(t, p, g), g, side)
  <2>1. r = [tree |-> w, node |-> x]
    BY Zenon, <1>12 DEF FixStep
  <2>2. /\ \E sub2, bh2 : IsFixing(N, w, x, side, sub2, bh2)
        /\ \A n \in 1..N : SameData(w.nodes[n], t.nodes[n])
        /\ ~IsRed(w, w.nodes[x].parent)
    <3>1. x = t.nodes[p][side]
      BY <1>9, <1>12
    <3>2. ~IsRed(t, t.nodes[g][Opposite(side)])
      BY <1>12
    <3> HIDE DEF t, x, p, g, side, opp, uncle
    <3>3. w = Rotate(Recolor(t, p, g), g, side)
      BY DEF w
    <3> HIDE DEF w
    <3> QED
      BY <1>1, <1>6, <1>7, <1>8, <1>10, <3>1, <3>2, <3>3, OuterTurn
  <2> HIDE DEF w
  <2>3. PICK sub2, bh2 : IsFixing(N, w, x, side, sub2, bh2)
    BY <2>2
  <2>4. IsFixing(N, w, x, "left", sub2, bh2)
    <3> HIDE DEF x, side
    <3> QED
      BY <1>1, <2>3, IsFixingEitherSide
  <2>5. r.tree = w /\ r.node = x /\ r = [tree |-> r.tree, node |-> r.node]
    BY <2>1
  <2> QED
    BY <2>2, <2>4, <2>5
<1>13. CASE ~IsRed(t, uncle) /\ inner
  <2> DEFINE w == Rotate(Recolor(u, x, g), g, side)
  <2>1. r = [tree |-> w, node |-> p]
    BY Zenon, <1>13 DEF FixStep
  <2>2. /\ \E sub1 : IsFixing(N, u, p, side, sub1, bh)
        /\ \A n \in 1..N : /\ SameData(u.nodes[n], t.nodes[n])
                           /\ u.nodes[n].color = t.nodes[n].color
        /\ u.nodes[x][side] = p /\ u.nodes[g][side] = x
        /\ u.nodes[g][Opposite(side)] = t.nodes[g][Opposite(side)]
    <3>1. x = t.nodes[p][Opposite(side)] /\ u = Rotate(t, p, Opposite(side))
      BY <1>13
    <3> HIDE DEF t, x, p, g, side, opp, uncle, u
    <3>2. InnerTurned(N, t, x, p, g, side, bh, u)
      BY <1>1, <1>6, <1>7, <1>8, <1>10, <3>1, InnerTurn
    <3> QED
      BY <3>2 DEF InnerTurned
  <2>3. PICK sub1 : IsFixing(N, u, p, side, sub1, bh)
    BY <2>2
  <2>4. u.nodes[x].color = "red"
    BY <1>2, <1>3, <1>5, <2>2 DEF Fixing
  <2>5. ~IsRed(u, u.nodes[g][Opposite(side)])
    <3>1. t.nodes[g][opp] \in 0..N
      BY <1>1, <1>7, TreeTypes
    <3>2. ~IsRed(t, t.nodes[g][Opposite(side)])
      BY <1>13
    <3> HIDE DEF u, g, t, side
    <3> QED
      BY <2>2, <3>1, <3>2 DEF IsRed, NIL, opp
  <2>6. /\ \E sub2, bh2 : IsFixing(N, w, p, side, sub2, bh2)
        /\ \A n \in 1..N : SameData(w.nodes[n], u.nodes[n])
        /\ ~IsRed(w, w.nodes[p].parent)
    <3> HIDE DEF t, x, p, g, side, opp, uncle, u
    <3>1. w = Rotate(Recolor(u, x, g), g, side)
      BY DEF w
    <3> HIDE DEF w
    <3> QED
      BY <1>1, <1>5, <1>7, <2>2, <2>3, <2>4, <2>5, <3>1, OuterTurn
  <2> HIDE DEF w, u
  <2>7. PICK sub2, bh2 : IsFixing(N, w, p, side, sub2, bh2)
    BY <2>6
  <2>8. IsFixing(N, w, p, "left", sub2, bh2)
    <3> HIDE DEF p, side
    <3> QED
      BY <1>1, <2>7, IsFixingEitherSide
  <2>9. \A n \in 1..N : SameData(w.nodes[n], t.nodes[n])
    BY <2>2, <2>6 DEF SameData
  <2>10. r.tree = w /\ r.node = p /\ r = [tree |-> r.tree, node |-> r.node]
    BY <2>1
  <2> QED
    BY <2>6, <2>8, <2>9, <2>10
<1> QED
  BY <1>11, <1>12, <1>13

\* A red-black tree.
IsColored(N, t, sub, bh) ==
    /\ IsOrdered(N, t, "left", sub)
    /\ WellColored(1..N, Kids(t, "left"), Kids(t, "right"), Parents(t), t.root,
                   Colors(t), bh)

\* fix_insert ends with a red-black tree of the same nodes.
LEMMA FixInsertFacts ==
    ASSUME NEW N \in Nat, NEW t, NEW x, NEW sub, NEW bh,
           IsFixing(N, t, x, "left", sub, bh),
           NEW r, r = FixInsert(t, x)
    PROVE  /\ \E sub2, bh2 : IsColored(N, r, sub2, bh2)
           /\ \A n \in 1..N : SameData(r.nodes[n], t.nodes[n])
<1> DEFINE IsUnder(s) == IsRed(s.tree, s.tree.nodes[s.node].parent)
           Step(s) == IF IsUnder(s) THEN FixStep(s) ELSE s
           start == [tree |-> t, node |-> x]
           IsTurn(f) == f = [i \in 0..N |-> IF i = 0 THEN start ELSE Step(f[i - 1])]
           T == {s \in [tree : Trees(N), node : 1..N] :
                    /\ \E sub1, bh1 : IsFixing(N, s.tree, s.node, "left", sub1, bh1)
                    /\ \A n \in 1..N : SameData(s.tree.nodes[n], t.nodes[n])}
<1>1. t \in Trees(N) /\ Len(t.nodes) = N /\ x \in 1..N
  BY TreeTypes DEF IsFixing, IsOrdered, Fixing
<1>2. start \in T
  BY <1>1 DEF SameData
<1>3. ASSUME NEW s \in T PROVE Step(s) \in T
  <2>1. CASE IsUnder(s)
    <3>1. PICK sub1, bh1 : IsFixing(N, s.tree, s.node, "left", sub1, bh1)
      OBVIOUS
    <3> DEFINE q == FixStep(s)
    <3>2. q = FixStep(s)
      OBVIOUS
    <3> HIDE DEF q
    <3>3. /\ q = [tree |-> q.tree, node |-> q.node]
          /\ \A n \in 1..N : SameData(q.tree.nodes[n], s.tree.nodes[n])
          /\ \E sub2, bh2 : IsFixing(N, q.tree, q.node, "left", sub2, bh2)
      BY <2>1, <3>1, <3>2, FixStepFacts
    <3>4. q.tree \in Trees(N) /\ q.node \in 1..N
      BY <3>3 DEF IsFixing, IsOrdered, Fixing
    <3>5. \A n \in 1..N : SameData(q.tree.nodes[n], t.nodes[n])
      BY <3>3 DEF SameData
    <3>6. q \in [tree : Trees(N), node : 1..N]
      BY <3>3, <3>4
    <3>7. q \in T
      BY <3>3, <3>5, <3>6
    <3> QED
      BY <2>1, <3>2, <3>7
  <2>2. CASE ~IsUnder(s)
    BY <2>2
  <2> QED
    BY <2>1, <2>2
<1> DEFINE next == [q \in T \X (1..N) |-> Step(q[1])]
<1>4. next \in [T \X (1..N) -> T]
  <2> HIDE DEF T, Step
  <2> QED
    BY <1>3
<1> HIDE DEF T, Step, start
<1>5. \E f : IsTurn(f)
  <2>1. \A s \in T : \A i \in 1..N : next[<<s, i>>] = Step(s)
    OBVIOUS
  <2> HIDE DEF next
  <2>2. PICK f \in [0..N -> T] :
           f[0] = start /\ \A i \in 1..N : f[i] = next[<<f[i - 1], i>>]
    BY SMTT(30), <1>2, <1>4, FunctionByCounting DEF IsByCounting
  <2>3. \A i \in 1..N : i - 1 \in 0..N /\ f[i - 1] \in T
    BY <2>2
  <2>4. ASSUME NEW i \in 0..N PROVE f[i] = IF i = 0 THEN start ELSE Step(f[i - 1])
    <3>1. CASE i = 0
      BY <2>2, <3>1
    <3>2. CASE i # 0
      <4>1. i \in 1..N /\ f[i - 1] \in T
        BY <2>3, <3>2
      <4>2. next[<<f[i - 1], i>>] = Step(f[i - 1])
        BY <2>1, <4>1
      <4> QED
        BY <2>2, <3>2, <4>1, <4>2
    <3> QED
      BY <3>1, <3>2
  <2>5. IsTurn(f)
    BY <2>2, <2>4
  <2> QED
    BY <2>5
<1> DEFINE turn[i \in 0..Len(t.nodes)] ==
               IF i = 0 THEN [tree |-> t, node |-> x]
               ELSE LET s == turn[i - 1]
                    IN  IF IsRed(s.tree, s.tree.nodes[s.node].parent)
                        THEN FixStep(s) ELSE s
           fixed == turn[Len(t.nodes)].tree
<1>6. r = WithColor(fixed, fixed.root, "black")
  BY Zenon DEF FixInsert, WithColor
<1>7. turn = CHOOSE f : f = [i \in 0..Len(t.nodes) |->
                                IF i = 0 THEN start ELSE Step(f[i - 1])]
  BY DEF start, Step
<1> HIDE DEF turn
<1>8. turn = CHOOSE f : IsTurn(f)
  BY <1>1, <1>7
<1>9. IsTurn(turn)
  BY <1>5, <1>8
<1>10. turn[0] = start /\ \A i \in 1..N : turn[i] = Step(turn[i - 1])
  BY <1>9
<1> HIDE DEF IsTurn
<1> DEFINE Climbs(s, i) ==
               \E sub1, bh1 :
                  /\ IsFixing(N, s.tree, s.node, "left", sub1, bh1)
                  /\ IsUnder(s) => Cardinality(sub1[s.node]) > i
           G == {i \in 0..N : turn[i] \in T /\ Climbs(turn[i], i)}
<1>11. ASSUME NEW s, NEW sub1, NEW bh1,
              IsFixing(N, s.tree, s.node, "left", sub1, bh1)
       PROVE  /\ Cardinality(sub1[s.node]) \in Nat
              /\ Cardinality(sub1[s.node]) > 0
              /\ Cardinality(sub1[s.node]) <= N
  <2> DEFINE S == sub1[s.node]
  <2>1. /\ Shape(1..N, Kids(s.tree, "left"), Kids(s.tree, Opposite("left")),
                 Parents(s.tree), s.tree.root, sub1)
        /\ s.node \in 1..N
    BY <1>11 DEF IsFixing, IsOrdered, Fixing
  <2>2. s.node \in S /\ S \in SUBSET (1..N) /\ IsFiniteSet(S)
    BY <2>1, ParentFacts
  <2>3. IsFiniteSet(1..N) /\ Cardinality(1..N) = N
    BY FS_Interval
  <2> HIDE DEF S
  <2>4. Cardinality(S) \in Nat /\ Cardinality(S) <= Cardinality(1..N)
    BY <2>2, <2>3, FS_Subset, FS_CardinalityType
  <2>5. Cardinality(S) # 0
    BY <2>2, FS_EmptySet
  <2> QED
    BY <2>3, <2>4, <2>5 DEF S
<1>12. 0 \in G
  <2>1. start.tree = t /\ start.node = x
    BY DEF start
  <2>2. IsFixing(N, start.tree, start.node, "left", sub, bh)
    BY <2>1
  <2>3. Cardinality(sub[start.node]) > 0
    BY <1>11, <2>2
  <2>4. Climbs(start, 0)
    BY <2>2, <2>3
  <2> HIDE DEF Climbs
  <2> QED
    BY <1>2, <1>10, <2>4
<1>13. ASSUME NEW i \in 1..N, i - 1 \in G PROVE i \in G
  <2> DEFINE s == turn[i - 1]
             q == turn[i]
  <2>1. s \in T /\ Climbs(s, i - 1) /\ q = Step(s) /\ q \in T
    BY <1>3, <1>10, <1>13
  <2>2. PICK sub1, bh1 :
           /\ IsFixing(N, s.tree, s.node, "left", sub1, bh1)
           /\ IsUnder(s) => Cardinality(sub1[s.node]) > i - 1
    BY <2>1
  <2>3. Climbs(q, i)
    <3>1. CASE IsUnder(s)
      <4>1. q = FixStep(s)
        BY <2>1, <3>1 DEF Step
      <4> HIDE DEF q, s
      <4>2. PICK sub2, bh2 :
               /\ IsFixing(N, q.tree, q.node, "left", sub2, bh2)
               /\ IsUnder(q) => Cardinality(sub2[q.node]) > Cardinality(sub1[s.node])
        BY <2>2, <3>1, <4>1, FixStepFacts
      <4>3. Cardinality(sub1[s.node]) \in Nat /\ Cardinality(sub2[q.node]) \in Nat
        BY <1>11, <2>2, <4>2
      <4>4. IsUnder(q) => Cardinality(sub2[q.node]) > i
        <5> HIDE DEF IsUnder
        <5> QED
          BY <2>2, <3>1, <4>2, <4>3
      <4> QED
        BY <4>2, <4>4
    <3>2. CASE ~IsUnder(s)
      <4>1. q = s
        BY <2>1, <3>2 DEF Step
      <4> HIDE DEF q, s
      <4> QED
        BY <2>2, <3>2, <4>1
    <3> QED
      BY <3>1, <3>2
  <2> HIDE DEF Climbs
  <2> QED
    BY <2>1, <2>3
<1>14. N \in G
  <2> HIDE DEF G
  <2> QED
    BY <1>12, <1>13, CountingUp
<1> DEFINE last == turn[N]
<1>15. last \in T /\ Climbs(last, N) /\ fixed = last.tree
  BY <1>1, <1>14
<1> HIDE DEF last, fixed
<1>16. PICK sub1, bh1 :
          /\ IsFixing(N, last.tree, last.node, "left", sub1, bh1)
          /\ IsUnder(last) => Cardinality(sub1[last.node]) > N
  BY <1>15
<1>17. IsFixing(N, fixed, last.node, "left", sub1, bh1) /\ ~IsUnder(last)
  <2>1. Cardinality(sub1[last.node]) \in Nat /\ Cardinality(sub1[last.node]) <= N
    BY <1>11, <1>16
  <2> HIDE DEF IsUnder
  <2> QED
    BY <1>15, <1>16, <2>1
<1> DEFINE A == Kids(fixed, "left")
           B == Kids(fixed, "right")
           P == Parents(fixed)
           C == Colors(fixed)
<1>18. /\ fixed \in Trees(N) /\ "left" \in Sides /\ "right" \in Sides
       /\ Opposite("left") = "right"
  BY <1>17 DEF IsFixing, IsOrdered, Sides, Opposite
<1>19. /\ IsOrdered(N, fixed, "left", sub1)
       /\ Shape(1..N, A, B, P, fixed.root, sub1)
       /\ Fixing(1..N, A, B, P, fixed.root, C, bh1, last.node)
  BY <1>17, <1>18 DEF IsFixing, IsOrdered
<1>20. fixed.root \in 1..N
  <2>1. last.node \in 1..N /\ sub1[fixed.root] = 1..N /\ sub1[NIL] = {}
        /\ fixed.root \in (1..N) \cup {NIL}
    BY <1>19 DEF Shape, Fixing
  <2> QED
    BY <2>1
<1>21. /\ SameLinks(N, fixed, r) /\ r \in Trees(N)
       /\ Colors(r) = Colored(C, fixed.root, "black")
  <2>1. "black" \in {"red", "black"}
    OBVIOUS
  <2> QED
    BY <1>6, <1>18, <1>20, <2>1, ColorSetLinks
<1>22. /\ IsOrdered(N, r, "left", sub1) /\ r.root = fixed.root
       /\ Kids(r, "left") = A /\ Parents(r) = P
  BY <1>18, <1>19, <1>21, RecoloredTree
<1>23. Kids(r, "right") = B
  BY <1>18, <1>21, RecoloredTree
<1>24. P[last.node] # NIL => C[P[last.node]] = "black"
  <2>1. /\ \A n \in 1..N : P[n] = fixed.nodes[n].parent /\ C[n] = fixed.nodes[n].color
        /\ P \in [1..N -> (1..N) \cup {NIL}] /\ C \in [1..N -> {"red", "black"}]
    BY <1>18, LinkTypes
  <2>2. last.node \in 1..N
    BY <1>19 DEF Fixing
  <2>3. ~IsRed(fixed, fixed.nodes[last.node].parent)
    BY <1>15, <1>17
  <2> HIDE DEF P, C
  <2>4. P[last.node] \in (1..N) \cup {NIL} /\ ~IsRed(fixed, P[last.node])
    BY <2>1, <2>2, <2>3
  <2> QED
    BY <2>1, <2>4 DEF IsRed
<1>25. PICK bh2 : WellColored(1..N, A, B, P, fixed.root, Colors(r), bh2)
  <2> HIDE DEF A, B, P, C
  <2> QED
    BY <1>19, <1>21, <1>24, BlackenRoot
<1>26. IsColored(N, r, sub1, bh2)
  BY <1>22, <1>23, <1>25 DEF IsColored
<1>27. \A n \in 1..N : SameData(r.nodes[n], t.nodes[n])
  <2>1. \A n \in 1..N : SameData(fixed.nodes[n], t.nodes[n])
    BY <1>15 DEF T
  <2> QED
    BY <1>21, <2>1 DEF SameLinks, SameData
<1> QED
  BY <1>26, <1>27
-----------------------------------------------------------------------------
(* insert_node.                                                            *)

\* Where insert_node goes from n.
Down(t, n, start) == t.nodes[n][SideOf(t, n, start)]

\* f is where the descent from each node ends.
IsDescent(N, t, start, f) ==
    f = [n \in 1..N |-> IF Down(t, n, start) = NIL THEN n
                        ELSE f[Down(t, n, start)]]

\* The left and the right children of a tree that is ordered.
LEMMA LeftRight ==
    ASSUME NEW N \in Nat, NEW t, NEW sub, IsOrdered(N, t, "left", sub)
    PROVE  /\ t \in Trees(N)
           /\ Shape(1..N, Kids(t, "left"), Kids(t, "right"), Parents(t), t.root, sub)
           /\ \A n \in 1..N : /\ Kids(t, "left")[n] = t.nodes[n].left
                              /\ Kids(t, "right")[n] = t.nodes[n].right
                              /\ Parents(t)[n] = t.nodes[n].parent
                              /\ Colors(t)[n] = t.nodes[n].color
                              /\ t.nodes[n].start_key \in Nat
                              /\ t.nodes[n].end_key \in Nat
                              /\ t.nodes[n].value \in Nat
                              /\ t.nodes[n].left \in (1..N) \cup {NIL}
                              /\ t.nodes[n].right \in (1..N) \cup {NIL}
           /\ \A n \in 1..N :
                 /\ \A m \in sub[t.nodes[n].left] :
                       m \in 1..N /\ t.nodes[m].start_key <= t.nodes[n].start_key
                 /\ \A m \in sub[t.nodes[n].right] :
                       m \in 1..N /\ t.nodes[n].start_key <= t.nodes[m].start_key
<1> DEFINE L == Kids(t, "left")
           R == Kids(t, "right")
<1>1. /\ t \in Trees(N) /\ "left" \in Sides /\ "right" \in Sides
      /\ Opposite("left") = "right"
  BY DEF IsOrdered, Sides, Opposite
<1>2. /\ Shape(1..N, L, R, Parents(t), t.root, sub)
      /\ Ordered(1..N, L, R, sub, OrderFrom(N, t, "left"))
  BY <1>1 DEF IsOrdered
<1>3. \A n \in 1..N : /\ L[n] = t.nodes[n].left
                      /\ Parents(t)[n] = t.nodes[n].parent
                      /\ Colors(t)[n] = t.nodes[n].color
  BY <1>1, LinkTypes
<1>4. \A n \in 1..N : R[n] = t.nodes[n].right
  BY <1>1, LinkTypes
<1>5. \A n \in 1..N : /\ t.nodes[n].start_key \in Nat /\ t.nodes[n].end_key \in Nat
                      /\ t.nodes[n].value \in Nat
  <2>1. \A n \in 1..N : t.nodes[n] \in Node(N)
    BY <1>1, TreeTypes
  <2> QED
    BY <2>1 DEF Node
<1>6. \A n \in 1..N : /\ t.nodes[n].left \in (1..N) \cup {NIL}
                      /\ t.nodes[n].right \in (1..N) \cup {NIL}
  <2>1. \A n \in 1..N : L[n] \in (1..N) \cup {NIL} /\ R[n] \in (1..N) \cup {NIL}
    <3> HIDE DEF L, R
    <3> QED
      BY <1>2 DEF Shape
  <2> QED
    BY <1>3, <1>4, <2>1
<1>7. ASSUME NEW n \in 1..N
      PROVE  /\ \A m \in sub[L[n]] :
                   m \in 1..N /\ t.nodes[m].start_key <= t.nodes[n].start_key
             /\ \A m \in sub[R[n]] :
                   m \in 1..N /\ t.nodes[n].start_key <= t.nodes[m].start_key
  <2>1. /\ \A m \in sub[L[n]] : <<m, n>> \in OrderFrom(N, t, "left")
        /\ \A m \in sub[R[n]] : <<n, m>> \in OrderFrom(N, t, "left")
    BY <1>2 DEF Ordered
  <2> HIDE DEF L, R
  <2> QED
    BY <2>1 DEF OrderFrom
<1> HIDE DEF L, R
<1>8. \A n \in 1..N :
         /\ \A m \in sub[t.nodes[n].left] :
               m \in 1..N /\ t.nodes[m].start_key <= t.nodes[n].start_key
         /\ \A m \in sub[t.nodes[n].right] :
               m \in 1..N /\ t.nodes[n].start_key <= t.nodes[m].start_key
  BY <1>3, <1>4, <1>7
<1> QED
  BY <1>1, <1>2, <1>3, <1>4, <1>5, <1>6, <1>8 DEF L, R

\* The descent ends.
LEMMA DescentExists ==
    ASSUME NEW N \in Nat, NEW t, NEW sub, IsOrdered(N, t, "left", sub),
           NEW start \in Nat
    PROVE  \E f : IsDescent(N, t, start, f)
<1> DEFINE D == 1..N
           T == D \cup {NIL}
           L == Kids(t, "left")
           R == Kids(t, "right")
           To(n) == Down(t, n, start)
           Pick(n, a, b) == IF To(n) = NIL THEN n
                            ELSE IF To(n) = L[n] THEN a ELSE b
           h == [q \in D \X T \X T |-> Pick(q[1], q[2], q[3])]
<1>1. Shape(D, L, R, Parents(t), t.root, sub) /\ NIL \notin D
  <2>1. Shape(D, L, R, Parents(t), t.root, sub)
    BY LeftRight
  <2> QED
    BY <2>1 DEF Shape
<1>2. \A n \in D : To(n) \in D \cup {NIL} /\ (To(n) = L[n] \/ To(n) = R[n])
  <2>1. \A n \in D : /\ t.nodes[n].left \in T /\ t.nodes[n].right \in T
                     /\ L[n] = t.nodes[n].left /\ R[n] = t.nodes[n].right
    BY LeftRight
  <2> HIDE DEF L, R, D
  <2> QED
    BY <2>1 DEF Down, SideOf
<1> HIDE DEF D, L, R, To
<1>3. /\ h \in [D \X T \X T -> T]
      /\ \A n \in D : \A a, b \in T : h[<<n, a, b>>] = Pick(n, a, b)
  BY <1>2
<1> HIDE DEF h
<1>4. PICK g : IsByTree(D, L, R, T, NIL, h, g)
  <2>1. NIL \in T
    OBVIOUS
  <2>2. h \in [D \X T \X T -> T]
    BY <1>3
  <2> HIDE DEF T
  <2> QED
    BY <1>1, <2>1, <2>2, FunctionByTree
<1>5. L \in [D -> D \cup {NIL}] /\ R \in [D -> D \cup {NIL}]
  BY <1>1 DEF Shape
<1>6. \A n \in D : g[n] = Pick(n, g[L[n]], g[R[n]])
  <2>1. \A n \in D : g[L[n]] \in T /\ g[R[n]] \in T
    BY <1>4, <1>5 DEF IsByTree
  <2> HIDE DEF Pick, T
  <2> QED
    BY <1>3, <1>4, <2>1 DEF IsByTree
<1> DEFINE f == [n \in D |-> g[n]]
<1>7. ASSUME NEW n \in D PROVE f[n] = IF To(n) = NIL THEN n ELSE f[To(n)]
  BY <1>2, <1>6
<1> DEFINE f2 == [n \in D |-> IF To(n) = NIL THEN n ELSE f[To(n)]]
<1>8. f = f2
  <2>1. \A n \in D : f[n] = f2[n]
    BY <1>7
  <2> QED
    BY <2>1
<1>9. IsDescent(N, t, start, f)
  <2> HIDE DEF f
  <2> QED
    BY <1>8 DEF IsDescent, D, To
<1> QED
  BY <1>9

\* A node with that start key belongs below n, as far as the nodes above n go.
BelongsAt(N, t, sub, start, n) ==
    \A m \in 1..N : /\ n \in sub[t.nodes[m].left] => start <= t.nodes[m].start_key
                    /\ n \in sub[t.nodes[m].right] => t.nodes[m].start_key <= start

\* The descent from the root ends where the node belongs.
LEMMA DescentEnds ==
    ASSUME NEW N \in Nat, NEW t, NEW sub, IsOrdered(N, t, "left", sub),
           NEW start \in Nat, NEW f, IsDescent(N, t, start, f), t.root # NIL
    PROVE  /\ f[t.root] \in 1..N /\ Down(t, f[t.root], start) = NIL
           /\ BelongsAt(N, t, sub, start, f[t.root])
<1> DEFINE D == 1..N
           L == Kids(t, "left")
           R == Kids(t, "right")
           P == Parents(t)
           key(n) == t.nodes[n].start_key
           To(n) == Down(t, n, start)
           Ends(n) == /\ f[n] \in D /\ To(f[n]) = NIL
                      /\ BelongsAt(N, t, sub, start, n)
                            => BelongsAt(N, t, sub, start, f[n])
           G == {n \in D \cup {NIL} : n = NIL \/ Ends(n)}
<1>1. /\ Shape(D, L, R, P, t.root, sub) /\ NIL \notin D
      /\ \A n \in D : /\ L[n] = t.nodes[n].left /\ R[n] = t.nodes[n].right
                      /\ key(n) \in Nat
  <2>1. Shape(D, L, R, P, t.root, sub)
    BY LeftRight
  <2>2. NIL \notin D
    BY <2>1 DEF Shape
  <2> QED
    BY <2>1, <2>2, LeftRight
<1>2. \A n \in D : f[n] = IF To(n) = NIL THEN n ELSE f[To(n)]
  BY DEF IsDescent
<1>3. \A n \in D : /\ To(n) = L[n] \/ To(n) = R[n]
                   /\ To(n) \in D \cup {NIL}
                   /\ To(n) # NIL => P[To(n)] = n /\ To(n) \in sub[To(n)]
                   /\ To(n) = L[n] /\ L[n] # R[n] => start <= key(n)
                   /\ To(n) = R[n] /\ L[n] # R[n] => key(n) <= start
  <2>1. \A n \in D : To(n) = IF key(n) < start THEN R[n] ELSE L[n]
    BY <1>1 DEF Down, SideOf
  <2>2. \A n \in D : /\ L[n] \in D \cup {NIL} /\ R[n] \in D \cup {NIL}
                     /\ L[n] # NIL => P[L[n]] = n
                     /\ R[n] # NIL => P[R[n]] = n
                     /\ n \in sub[n]
    BY <1>1 DEF Shape
  <2> HIDE DEF D, L, R, P, To, key
  <2> QED
    BY <1>1, <2>1, <2>2
<1>4. ASSUME NEW n \in D, To(n) # NIL, BelongsAt(N, t, sub, start, n)
      PROVE  BelongsAt(N, t, sub, start, To(n))
  <2> DEFINE c == To(n)
  <2>1. c \in D /\ P[c] = n /\ c \in sub[c] /\ (c = L[n] \/ c = R[n]) /\ L[n] # R[n]
    <3>1. c \in D /\ P[c] = n /\ c \in sub[c] /\ (c = L[n] \/ c = R[n])
      BY <1>3, <1>4
    <3>2. sub[L[n]] \cap sub[R[n]] = {}
      BY <1>1 DEF Shape
    <3> HIDE DEF L, R, P, To
    <3> QED
      BY <3>1, <3>2
  <2>2. sub[L[n]] \cap sub[R[n]] = {}
    BY <1>1 DEF Shape
  <2>3. \A m \in D : \A k \in {L[m], R[m]} : c \in sub[k] /\ m # n => n \in sub[k]
    <3> SUFFICES ASSUME NEW m \in D, NEW k \in {L[m], R[m]}, c \in sub[k], m # n
                 PROVE  n \in sub[k]
      OBVIOUS
    <3>1. k \in D /\ P[k] = m
      BY <1>1 DEF Shape
    <3>2. c # k
      BY <2>1, <3>1
    <3>3. P[c] \in sub[k]
      BY <1>1, <2>1, <3>1, <3>2 DEF Shape
    <3> QED
      BY <2>1, <3>3
  <2>4. \A m \in D : /\ n \in sub[L[m]] => start <= key(m)
                     /\ n \in sub[R[m]] => key(m) <= start
    BY <1>1, <1>4 DEF BelongsAt
  <2>5. /\ c = L[n] => start <= key(n)
        /\ c = R[n] => key(n) <= start
    BY <1>3, <2>1
  <2> HIDE DEF c, key, L, R, P, To
  <2>6. ASSUME NEW m \in D
        PROVE  /\ c \in sub[L[m]] => start <= key(m)
               /\ c \in sub[R[m]] => key(m) <= start
    <3>1. CASE m # n
      BY <2>3, <2>4, <3>1
    <3>2. CASE m = n
      BY <2>1, <2>2, <2>5, <3>2
    <3> QED
      BY <3>1, <3>2
  <2> QED
    BY <1>1, <2>6 DEF BelongsAt, c, key
<1>5. ASSUME NEW n \in D, L[n] \in G, R[n] \in G PROVE n \in G
  <2>1. CASE To(n) = NIL
    <3>1. f[n] = n
      BY <1>2, <2>1
    <3> QED
      BY <2>1, <3>1
  <2>2. CASE To(n) # NIL
    <3>1. f[n] = f[To(n)]
      BY <1>2, <2>2
    <3>2. Ends(To(n))
      BY <1>3, <1>5, <2>2
    <3>3. BelongsAt(N, t, sub, start, n) => BelongsAt(N, t, sub, start, To(n))
      BY <1>4, <2>2
    <3> HIDE DEF To
    <3>4. Ends(n)
      BY <3>1, <3>2, <3>3
    <3> HIDE DEF Ends
    <3> QED
      BY <3>4
  <2> QED
    BY <2>1, <2>2
<1>6. t.root \in D /\ t.root \in G
  <2>1. t.root \in D
    BY <1>1 DEF Shape
  <2>2. NIL \in G
    OBVIOUS
  <2> HIDE DEF G, L, R, P, D
  <2> QED
    BY <1>1, <1>5, <2>1, <2>2, TreeInduction
<1>7. BelongsAt(N, t, sub, start, t.root)
  <2>1. ASSUME NEW m \in D PROVE t.root \notin sub[L[m]] /\ t.root \notin sub[R[m]]
    <3>1. /\ sub[t.root] = D /\ m \notin sub[L[m]] /\ m \notin sub[R[m]]
          /\ L[m] \in D \cup {NIL} /\ R[m] \in D \cup {NIL} /\ sub[NIL] = {}
          /\ \A k, j \in D : j \in sub[k] => sub[j] \subseteq sub[k]
      BY <1>1 DEF Shape
    <3> QED
      BY <1>6, <3>1
  <2> QED
    BY <1>1, <2>1 DEF BelongsAt
<1>8. Ends(t.root)
  BY <1>1, <1>6
<1> QED
  BY <1>7, <1>8

\* A tree with one more node.
WithNode(t, e) == [t EXCEPT !.nodes = Append(@, e)]

\* The node at the end of the vector, and those that were there.
LEMMA WithNodeFacts ==
    ASSUME NEW N \in Nat, NEW t \in Trees(N), NEW e \in Node(N + 1),
           NEW r, r = WithNode(t, e)
    PROVE  /\ r \in Trees(N + 1) /\ r.root = t.root /\ r.nodes[N + 1] = e
           /\ \A n \in 1..N : r.nodes[n] = t.nodes[n]
<1> DEFINE ns == t.nodes
           ns2 == Append(ns, e)
<1>1. ns \in [1..N -> Node(N)] /\ t.root \in 0..N /\ Len(ns) = N
  BY TreeTypes
<1>2. \A d \in Node(N) : d \in Node(N + 1)
  BY DEF Node
<1>3. ns \in Seq(Node(N + 1))
  BY <1>1, <1>2
<1> HIDE DEF ns
<1>4. /\ ns2 \in Seq(Node(N + 1)) /\ Len(ns2) = N + 1 /\ ns2[N + 1] = e
      /\ \A n \in 1..N : ns2[n] = ns[n]
  BY <1>1, <1>3
<1> HIDE DEF ns2
<1>5. ns2 \in [1..(N + 1) -> Node(N + 1)]
  BY <1>4
<1>6. r.nodes = ns2 /\ r.root = t.root /\ r = [nodes |-> ns2, root |-> t.root]
  BY DEF WithNode, Trees, ns, ns2
<1>7. t.root \in 0..(N + 1)
  BY <1>1
<1>8. r \in Trees(N + 1)
  BY <1>5, <1>6, <1>7 DEF Trees
<1> QED
  BY <1>4, <1>6, <1>8 DEF ns

\* The new node, red, is where the descent has ended.
LEMMA LinkedFacts ==
    ASSUME NEW N \in Nat, NEW t, NEW sub, NEW bh, IsColored(N, t, sub, bh),
           NEW start \in Nat, NEW end \in Nat, NEW value \in Nat,
           NEW p \in 1..N, Down(t, p, start) = NIL,
           BelongsAt(N, t, sub, start, p),
           NEW e, e = NewNode(start, end, value, "red", p),
           NEW r, r = WithLink(WithNode(t, e), p, SideOf(t, p, start), N + 1)
    PROVE  /\ \E sub2, bh2 : IsFixing(N + 1, r, N + 1, "left", sub2, bh2)
           /\ \A n \in 1..N : SameData(r.nodes[n], t.nodes[n])
           /\ SameData(r.nodes[N + 1], e)
           /\ r.nodes[N + 1].parent = p /\ r.nodes[p].color = t.nodes[p].color
           /\ r.root = t.root
<1> DEFINE new == N + 1
           D == 1..N
           side == SideOf(t, p, start)
           opp == Opposite(side)
           A == Kids(t, side)
           B == Kids(t, opp)
           P == Parents(t)
           C == Colors(t)
           A2 == Kids(r, side)
           B2 == Kids(r, opp)
           P2 == Parents(r)
           C2 == Colors(r)
           v == WithNode(t, e)
           le == OrderFrom(N + 1, r, side)
           sub2 == SubAttached(D, p, new, sub)
<1>1. /\ side \in Sides /\ opp \in Sides /\ "left" \in Sides /\ side # opp
      /\ \A d \in Sides : d = side \/ d = opp
  BY DEF SideOf, Opposite, Sides
<1>2. new \in Nat /\ new \notin D /\ new # NIL /\ D \cup {new} = 1..new
  BY DEF NIL
<1>3. /\ IsOrdered(N, t, "left", sub) /\ t \in Trees(N)
  BY DEF IsColored, IsOrdered
<1>4. IsOrdered(N, t, side, sub)
  BY <1>1, <1>3, EitherSide
<1>5. e \in Node(new)
  BY DEF Node, NewNode, NIL
<1>6. /\ e.parent = p /\ e.color = "red" /\ \A d \in Sides : e[d] = NIL
      /\ e.start_key = start
  BY DEF NewNode, Sides
<1>7. /\ v \in Trees(new) /\ v.root = t.root /\ v.nodes[new] = e
      /\ \A n \in D : v.nodes[n] = t.nodes[n]
  BY <1>3, <1>5, WithNodeFacts
<1> HIDE DEF v
<1>8. LinkSet(new, v, p, side, new, r)
  <2>1. v \in Trees(new) /\ p \in 1..new /\ new \in 0..new /\ new \in Nat
    BY <1>7
  <2>2. r = WithLink(v, p, side, new)
    BY DEF v
  <2> HIDE DEF side, new
  <2> QED
    BY <1>1, <2>1, <2>2, WithLinkFacts
<1>9. /\ r \in Trees(new) /\ r.root = t.root
      /\ \A n \in D : /\ SameData(r.nodes[n], t.nodes[n])
                      /\ r.nodes[n].parent = t.nodes[n].parent
                      /\ r.nodes[n].color = t.nodes[n].color
                      /\ r.nodes[n][opp] = t.nodes[n][opp]
                      /\ n # p => r.nodes[n][side] = t.nodes[n][side]
      /\ r.nodes[p][side] = new
      /\ SameData(r.nodes[new], e)
      /\ r.nodes[new].parent = p /\ r.nodes[new].color = "red"
      /\ r.nodes[new][side] = NIL /\ r.nodes[new][opp] = NIL
  <2> HIDE DEF side, opp
  <2> QED
    BY <1>1, <1>2, <1>6, <1>7, <1>8 DEF LinkSet
<1>10. \A n \in D : /\ A[n] = t.nodes[n][side] /\ B[n] = t.nodes[n][opp]
                    /\ P[n] = t.nodes[n].parent /\ C[n] = t.nodes[n].color
  BY <1>1, <1>3, LinkTypes
<1>11. /\ A2 \in [1..new -> (1..new) \cup {NIL}] /\ P2 \in [1..new -> (1..new) \cup {NIL}]
       /\ C2 \in [1..new -> {"red", "black"}]
       /\ \A n \in 1..new : /\ A2[n] = r.nodes[n][side]
                            /\ P2[n] = r.nodes[n].parent /\ C2[n] = r.nodes[n].color
  <2>1. r \in Trees(new)
    BY <1>9
  <2> HIDE DEF side, new
  <2> QED
    BY <1>1, <1>2, <2>1, LinkTypes
<1>12. /\ B2 \in [1..new -> (1..new) \cup {NIL}]
       /\ \A n \in 1..new : B2[n] = r.nodes[n][opp]
  <2>1. r \in Trees(new)
    BY <1>9
  <2> HIDE DEF opp, new
  <2> QED
    BY <1>1, <1>2, <2>1, LinkTypes
<1> HIDE DEF A, B, P, C, A2, B2, P2, C2
<1>13. Attached(D, A, B, P, p, new, A2, B2, P2)
  <2>1. new \in 1..new /\ \A n \in D : n \in 1..new
    OBVIOUS
  <2> HIDE DEF side, opp, new, D
  <2>2. A2[new] = NIL /\ B2[new] = NIL /\ P2[new] = p /\ A2[p] = new
    BY <1>9, <1>11, <1>12, <2>1 DEF D
  <2>3. \A n \in D : /\ n # p => A2[n] = A[n]
                     /\ B2[n] = B[n] /\ P2[n] = P[n]
    BY SMTT(30), <1>9, <1>10, <1>11, <1>12, <2>1
  <2> QED
    BY <1>2, <1>11, <1>12, <2>2, <2>3 DEF Attached
<1>14. RedAdded(D, new, C, C2)
  <2>1. new \in 1..new /\ \A n \in D : n \in 1..new
    OBVIOUS
  <2> HIDE DEF side, opp, new, D
  <2> QED
    BY SMTT(30), <1>2, <1>9, <1>10, <1>11, <2>1 DEF RedAdded
<1>15. /\ Shape(D, A, B, P, t.root, sub)
       /\ Ordered(D, A, B, sub, OrderFrom(N, t, side))
  BY <1>4 DEF IsOrdered, A, B, P
<1>16. A[p] = NIL
  BY <1>10 DEF Down
<1>17. /\ \A n \in D : r.nodes[n].start_key = t.nodes[n].start_key
       /\ r.nodes[new].start_key = start
  BY <1>6, <1>9 DEF SameData
<1>18. Ordered(D, A, B, sub, le)
  <2>1. OrderFrom(N, t, side) \subseteq le
    <3> HIDE DEF side
    <3> QED
      BY <1>2, <1>17 DEF OrderFrom
  <2> HIDE DEF le
  <2> QED
    BY <1>15, <2>1 DEF Ordered
<1>19. /\ Fits(D, A, B, sub, le, new, p)
       /\ <<new, p>> \in le
  <2>1. \A m \in D : /\ p \in sub[t.nodes[m].left] => start <= t.nodes[m].start_key
                     /\ p \in sub[t.nodes[m].right] => t.nodes[m].start_key <= start
    BY DEF BelongsAt
  <2>2. \A m \in D : t.nodes[m].start_key \in Nat
    BY <1>3, LeftRight
  <2>3. CASE side = "left"
    <3>1. start <= t.nodes[p].start_key
      BY <2>2, <2>3 DEF SideOf
    <3>2. \A m \in D : A[m] = t.nodes[m].left /\ B[m] = t.nodes[m].right
      BY <1>10, <2>3 DEF Opposite
    <3>3. \A m, n \in 1..new :
             <<m, n>> \in le <=> r.nodes[m].start_key <= r.nodes[n].start_key
      BY <2>3 DEF OrderFrom
    <3> HIDE DEF le, side
    <3> QED
      BY <1>2, <1>17, <2>1, <3>1, <3>2, <3>3 DEF Fits
  <2>4. CASE side = "right"
    <3>1. t.nodes[p].start_key <= start
      BY <2>2, <2>4 DEF SideOf
    <3>2. \A m \in D : A[m] = t.nodes[m].right /\ B[m] = t.nodes[m].left
      BY <1>10, <2>4 DEF Opposite
    <3>3. \A m, n \in 1..new :
             <<m, n>> \in le <=> r.nodes[n].start_key <= r.nodes[m].start_key
      BY <2>4 DEF OrderFrom
    <3> HIDE DEF le, side
    <3> QED
      BY <1>2, <1>17, <2>1, <3>1, <3>2, <3>3 DEF Fits
  <2> QED
    BY <1>1, <2>3, <2>4 DEF Sides
<1> HIDE DEF le, side, opp
<1>20. Shape(1..new, A2, B2, P2, t.root, sub2)
  <2> HIDE DEF D, new
  <2>1. Shape(D \cup {new}, A2, B2, P2, t.root, sub2)
    BY <1>2, <1>13, <1>15, <1>16, AttachShape DEF D
  <2> QED
    BY <1>2, <2>1
<1>21. Ordered(1..new, A2, B2, sub2, le)
  <2> HIDE DEF D, new
  <2>1. Ordered(D \cup {new}, A2, B2, sub2, le)
    BY <1>2, <1>13, <1>15, <1>16, <1>18, <1>19, AttachOrdered DEF D
  <2> QED
    BY <1>2, <2>1
<1>22. WellColored(D, A, B, P, t.root, C, bh)
  <2>1. WellColored(D, Kids(t, "left"), Kids(t, "right"), P, t.root, C, bh)
    BY DEF IsColored, P, C
  <2>2. WellColored(D, Kids(t, "right"), Kids(t, "left"), P, t.root, C, bh)
    BY <2>1, ColorsMirror
  <2>3. \/ A = Kids(t, "left") /\ B = Kids(t, "right")
        \/ A = Kids(t, "right") /\ B = Kids(t, "left")
    BY <1>1 DEF A, B, opp, Opposite, Sides
  <2> QED
    BY <2>1, <2>2, <2>3
<1>23. PICK bh2 : Fixing(1..new, A2, B2, P2, t.root, C2, bh2, new)
  <2> HIDE DEF D, new
  <2>1. \E bh2 : Fixing(D \cup {new}, A2, B2, P2, t.root, C2, bh2, new)
    BY <1>2, <1>13, <1>14, <1>15, <1>16, <1>22, AttachColors DEF D
  <2> QED
    BY <1>2, <2>1
<1> HIDE DEF sub2
<1>24. IsFixing(new, r, new, side, sub2, bh2)
  BY <1>9, <1>20, <1>21, <1>23 DEF IsFixing, IsOrdered, A2, B2, P2, C2, le, opp
<1>25. IsFixing(new, r, new, "left", sub2, bh2)
  <2> HIDE DEF new
  <2> QED
    BY <1>1, <1>2, <1>24, IsFixingEitherSide
<1> QED
  BY <1>9, <1>25

\* A tree with another root.
WithRoot(t, n) == [t EXCEPT !.root = n]

\* The first node is the root, and black.
LEMMA FirstNode ==
    ASSUME NEW t \in Trees(0),
           NEW start \in Nat, NEW end \in Nat, NEW value \in Nat,
           NEW e, e = NewNode(start, end, value, "black", NIL),
           NEW r, r = WithRoot(WithNode(t, e), 1)
    PROVE  /\ \E sub2, bh2 : IsColored(1, r, sub2, bh2)
           /\ SameData(r.nodes[1], e)
<1> DEFINE v == WithNode(t, e)
           D == 1..1
           sub2 == [n \in D \cup {NIL} |-> IF n = 1 THEN {1} ELSE {}]
           bh2 == [n \in D \cup {NIL} |-> IF n = 1 THEN 1 ELSE 0]
<1>1. e \in Node(1) /\ e.parent = NIL /\ e.left = NIL /\ e.right = NIL /\ e.color = "black"
  BY DEF NewNode, Node, NIL
<1>2. v \in Trees(1) /\ v.nodes[1] = e
  <2>1. v \in Trees(0 + 1) /\ v.nodes[0 + 1] = e
    <3>1. e \in Node(0 + 1) /\ 0 \in Nat
      BY <1>1
    <3> QED
      BY <3>1, WithNodeFacts
  <2> QED
    BY <2>1
<1> HIDE DEF v
<1>3. r \in Trees(1) /\ r.nodes[1] = e /\ r.root = 1
  <2>1. r = WithRoot(v, 1)
    BY DEF v
  <2> QED
    BY <1>2, <2>1 DEF WithRoot, Trees
<1>4. /\ "left" \in Sides /\ "right" \in Sides /\ Opposite("left") = "right"
      /\ 1 \in Nat /\ D = {1} /\ NIL \notin D /\ NIL = 0
  BY DEF Sides, Opposite, NIL
<1> DEFINE A == Kids(r, "left")
           B == Kids(r, "right")
           P == Parents(r)
           C == Colors(r)
<1>5. /\ A \in [D -> D \cup {NIL}] /\ P \in [D -> D \cup {NIL}]
      /\ C \in [D -> {"red", "black"}]
      /\ A[1] = NIL /\ P[1] = NIL /\ C[1] = "black"
  <2>1. PICK M \in Nat : M = 1
    OBVIOUS
  <2>2. r \in Trees(M)
    BY <1>3, <2>1
  <2>3. /\ A \in [1..M -> (1..M) \cup {NIL}] /\ P \in [1..M -> (1..M) \cup {NIL}]
        /\ C \in [1..M -> {"red", "black"}]
        /\ \A n \in 1..M : /\ A[n] = r.nodes[n].left /\ P[n] = r.nodes[n].parent
                           /\ C[n] = r.nodes[n].color
    <3>1. "left" \in Sides
      BY DEF Sides
    <3> QED
      BY ZenonT(40), <2>2, <3>1, LinkTypes
  <2> HIDE DEF A, P, C
  <2>4. A[1] = r.nodes[1].left /\ P[1] = r.nodes[1].parent /\ C[1] = r.nodes[1].color
    BY <2>1, <2>3
  <2> QED
    BY <1>1, <1>3, <2>1, <2>3, <2>4
<1>6. B \in [D -> D \cup {NIL}] /\ B[1] = NIL
  <2>1. PICK M \in Nat : M = 1
    OBVIOUS
  <2>2. r \in Trees(M)
    BY <1>3, <2>1
  <2>3. /\ B \in [1..M -> (1..M) \cup {NIL}]
        /\ \A n \in 1..M : B[n] = r.nodes[n].right
    <3>1. "right" \in Sides
      BY DEF Sides
    <3> QED
      BY <2>2, <3>1, LinkTypes
  <2> HIDE DEF B
  <2>4. B[1] = r.nodes[1].right
    BY <2>1, <2>3
  <2> QED
    BY <1>1, <1>3, <2>1, <2>3, <2>4
<1> HIDE DEF A, B, P, C
<1>7. sub2[NIL] = {} /\ sub2[1] = {1} /\ sub2 \in [D \cup {NIL} -> SUBSET D]
  BY <1>4
<1>8. bh2[NIL] = 0 /\ bh2[1] = 1 /\ bh2 \in [D \cup {NIL} -> Nat]
  BY <1>4
<1> HIDE DEF sub2, bh2
<1>9. Shape(D, A, B, P, 1, sub2)
  <2>1. IsFiniteSet(D)
    BY <1>4, FS_Singleton
  <2> QED
    BY <1>4, <1>5, <1>6, <1>7, <2>1 DEF Shape
<1>10. Ordered(D, A, B, sub2, OrderFrom(1, r, "left"))
  BY <1>4, <1>5, <1>6, <1>7 DEF Ordered
<1>11. WellColored(D, A, B, P, 1, C, bh2)
  BY <1>4, <1>5, <1>6, <1>8 DEF WellColored, Heights, RedsApart
<1>12. IsColored(1, r, sub2, bh2)
  BY <1>3, <1>4, <1>9, <1>10, <1>11 DEF IsColored, IsOrdered, A, B, P, C
<1>13. SameData(r.nodes[1], e)
  BY <1>3 DEF SameData
<1> QED
  BY <1>12, <1>13

\* r is a red-black tree with the nodes of t and the new one.
Inserted(N, t, start, end, value, r) ==
    /\ \E sub2, bh2 : IsColored(N + 1, r, sub2, bh2)
    /\ \A n \in 1..N : SameData(r.nodes[n], t.nodes[n])
    /\ r.nodes[N + 1].start_key = start /\ r.nodes[N + 1].end_key = end
    /\ r.nodes[N + 1].value = value

\* insert_node keeps a red-black tree, with the nodes it had and the new one.
LEMMA InsertNodeFacts ==
    ASSUME NEW N \in Nat, NEW t, NEW sub, NEW bh, IsColored(N, t, sub, bh),
           NEW start \in Nat, NEW end \in Nat, NEW value \in Nat,
           NEW r, r = InsertNode(t, start, end, value)
    PROVE  Inserted(N, t, start, end, value, r)
<1> SUFFICES /\ \E sub2, bh2 : IsColored(N + 1, r, sub2, bh2)
             /\ \A n \in 1..N : SameData(r.nodes[n], t.nodes[n])
             /\ r.nodes[N + 1].start_key = start /\ r.nodes[N + 1].end_key = end
             /\ r.nodes[N + 1].value = value
  BY Zenon DEF Inserted
<1> DEFINE last[n \in 1..Len(t.nodes)] ==
               LET next == t.nodes[n][SideOf(t, n, start)]
               IN  IF next = NIL THEN n ELSE last[next]
           p == last[t.root]
           new == Len(t.nodes) + 1
           color == IF t.root = NIL THEN "black" ELSE "red"
           above == IF t.root = NIL THEN NIL ELSE p
           added == [t EXCEPT !.nodes =
                         Append(@, NewNode(start, end, value, color, above))]
           linked == [added EXCEPT !.nodes[p][SideOf(t, p, start)] = new]
<1>1. r = IF t.root = NIL THEN [added EXCEPT !.root = new]
          ELSE IF t.nodes[p].parent = NIL THEN linked
          ELSE FixInsert(linked, new)
  BY Zenon DEF InsertNode
<1>2. IsOrdered(N, t, "left", sub) /\ t \in Trees(N) /\ Len(t.nodes) = N
  BY TreeTypes DEF IsColored, IsOrdered
<1>3. CASE t.root = NIL
  <2> DEFINE e == NewNode(start, end, value, "black", NIL)
  <2>1. color = "black" /\ above = NIL
    BY <1>3
  <2>2. r = WithRoot(WithNode(t, e), new)
    <3>1. r = [added EXCEPT !.root = new]
      BY Zenon, <1>1, <1>3
    <3> HIDE DEF last, color, above, new, p
    <3>2. added = WithNode(t, e)
      BY Zenon, <2>1 DEF WithNode
    <3> HIDE DEF added, e
    <3> QED
      BY Zenon, <3>1, <3>2 DEF WithRoot
  <2>3. N = 0
    <3>1. Shape(1..N, Kids(t, "left"), Kids(t, "right"), Parents(t), t.root, sub)
      BY <1>2, LeftRight
    <3>2. 1..N = {}
      BY <1>3, <3>1 DEF Shape
    <3> QED
      BY <3>2
  <2>4. new = 1 /\ t \in Trees(0)
    BY <1>2, <2>3
  <2>5. /\ \E sub2, bh2 : IsColored(1, r, sub2, bh2)
        /\ SameData(r.nodes[1], e)
    <3>1. r = WithRoot(WithNode(t, e), 1)
      BY <2>2, <2>4
    <3> HIDE DEF last, color, above, new, p, added, linked
    <3> QED
      BY <2>4, <3>1, FirstNode
  <2>6. e.start_key = start /\ e.end_key = end /\ e.value = value
    BY DEF NewNode
  <2>7. N + 1 = 1 /\ 1..N = {}
    BY <2>3
  <2> HIDE DEF e, last, color, above, new, p, added, linked
  <2> QED
    BY <2>5, <2>6, <2>7 DEF SameData
<1>4. CASE t.root # NIL
  <2> DEFINE e == NewNode(start, end, value, "red", p)
  <2>1. color = "red" /\ above = p
    BY <1>4
  <2>2. last = CHOOSE f : f = [n \in 1..Len(t.nodes) |->
                                  IF Down(t, n, start) = NIL THEN n
                                  ELSE f[Down(t, n, start)]]
    BY DEF Down
  <2>3. IsDescent(N, t, start, last)
    <3> HIDE DEF last
    <3>1. last = CHOOSE f : IsDescent(N, t, start, f)
      BY <1>2, <2>2 DEF IsDescent
    <3>2. \E f : IsDescent(N, t, start, f)
      BY <1>2, DescentExists
    <3> QED
      BY <3>1, <3>2
  <2> HIDE DEF last
  <2>4. /\ p \in 1..N /\ Down(t, p, start) = NIL
        /\ BelongsAt(N, t, sub, start, p)
    BY <1>2, <1>4, <2>3, DescentEnds
  <2>5. linked = WithLink(WithNode(t, e), p, SideOf(t, p, start), new)
    <3> HIDE DEF color, above, new, p
    <3>1. added = WithNode(t, e)
      BY Zenon, <2>1 DEF WithNode
    <3> HIDE DEF added, e
    <3> QED
      BY Zenon, <3>1 DEF WithLink
  <2>6. r = IF t.nodes[p].parent = NIL THEN linked ELSE FixInsert(linked, new)
    BY Zenon, <1>1, <1>4
  <2> HIDE DEF color, above, p, added, linked, e
  <2>7. /\ \E sub2, bh2 : IsFixing(N + 1, linked, N + 1, "left", sub2, bh2)
        /\ \A n \in 1..N : SameData(linked.nodes[n], t.nodes[n])
        /\ SameData(linked.nodes[N + 1], e)
        /\ linked.nodes[N + 1].parent = p
        /\ linked.nodes[p].color = t.nodes[p].color
        /\ linked.root = t.root
    <3>1. e = NewNode(start, end, value, "red", p)
      BY DEF e
    <3>2. linked = WithLink(WithNode(t, e), p, SideOf(t, p, start), N + 1)
      BY <1>2, <2>5
    <3> HIDE DEF new
    <3> QED
      BY SMTT(30), <2>4, <3>1, <3>2, LinkedFacts
  <2>8. e.start_key = start /\ e.end_key = end /\ e.value = value
    BY DEF NewNode, e
  <2>9. PICK sub2, bh2 : IsFixing(N + 1, linked, N + 1, "left", sub2, bh2)
    BY <2>7
  <2>10. CASE t.nodes[p].parent = NIL
    <3>1. r = linked
      BY <2>6, <2>10
    <3>2. p = t.root /\ t.nodes[p].color = "black"
      <4>1. /\ Shape(1..N, Kids(t, "left"), Kids(t, "right"), Parents(t), t.root, sub)
            /\ Parents(t)[p] = t.nodes[p].parent /\ Colors(t)[p] = t.nodes[p].color
        BY <1>2, <2>4, LeftRight
      <4>2. Parents(t)[p] = NIL => p = t.root
        BY <2>4, <4>1, ParentFacts
      <4>3. Colors(t)[t.root] = "black"
        BY <1>4 DEF IsColored, WellColored
      <4> QED
        BY <2>10, <4>1, <4>2, <4>3
    <3> DEFINE A == Kids(linked, "left")
               B == Kids(linked, "right")
               P == Parents(linked)
               C == Colors(linked)
    <3>3. /\ IsOrdered(N + 1, linked, "left", sub2)
          /\ Fixing(1..(N + 1), A, B, P, linked.root, C, bh2, N + 1)
      BY <2>9 DEF IsFixing, Opposite
    <3>4. \A n \in 1..(N + 1) : /\ P[n] = linked.nodes[n].parent
                                /\ C[n] = linked.nodes[n].color
      <4>1. N + 1 \in Nat
        OBVIOUS
      <4> QED
        BY <3>3, <4>1, LeftRight
    <3>5. P[N + 1] = linked.root /\ C[linked.root] = "black" /\ linked.root # N + 1
      BY <2>4, <2>7, <3>2, <3>4
    <3> HIDE DEF A, B, P, C
    <3>6. WellColored(1..(N + 1), A, B, P, linked.root, C, bh2)
      BY <3>3, <3>5 DEF WellColored, Fixing, RedsApart
    <3>7. IsColored(N + 1, linked, sub2, bh2)
      BY <3>3, <3>6 DEF IsColored, A, B, P, C
    <3> QED
      BY <2>7, <2>8, <3>1, <3>7 DEF SameData
  <2>11. CASE t.nodes[p].parent # NIL
    <3>1. r = FixInsert(linked, N + 1)
      BY <1>2, <2>6, <2>11
    <3>2. N + 1 \in Nat
      OBVIOUS
    <3>3. /\ \E sub3, bh3 : IsColored(N + 1, r, sub3, bh3)
          /\ \A n \in 1..(N + 1) : SameData(r.nodes[n], linked.nodes[n])
      BY <2>9, <3>1, <3>2, FixInsertFacts
    <3>4. \A n \in 1..N : n \in 1..(N + 1)
      OBVIOUS
    <3>5. N + 1 \in 1..(N + 1)
      OBVIOUS
    <3> QED
      BY <2>7, <2>8, <3>3, <3>4, <3>5 DEF SameData
  <2> QED
    BY <2>10, <2>11
<1> QED
  BY <1>3, <1>4
-----------------------------------------------------------------------------
(* get_overlap.                                                            *)

\* The nodes that a sequence lists.
Listed(s) == {s[i] : i \in DOMAIN s}

\* Listing one more node.
LEMMA ListedAppend ==
    ASSUME NEW S, NEW s \in Seq(S), NEW n \in S
    PROVE  Listed(Append(s, n)) = Listed(s) \cup {n}
<1> DEFINE q == Append(s, n)
<1>1. /\ DOMAIN q = 1..(Len(s) + 1) /\ DOMAIN s = 1..Len(s) /\ Len(s) \in Nat
      /\ q[Len(s) + 1] = n /\ \A i \in 1..Len(s) : q[i] = s[i]
  OBVIOUS
<1> HIDE DEF q
<1>2. Listed(q) = Listed(s) \cup {n}
  BY <1>1 DEF Listed
<1> QED
  BY <1>2 DEF q

\* Listing the nodes of two sequences.
LEMMA ListedConcat ==
    ASSUME NEW S, NEW s \in Seq(S), NEW r \in Seq(S)
    PROVE  Listed(s \o r) = Listed(s) \cup Listed(r)
<1>1. Listed(s \o r) = Listed(s) \cup Listed(r)
  <2> DEFINE q == s \o r
  <2>1. /\ DOMAIN q = 1..(Len(s) + Len(r))
        /\ DOMAIN s = 1..Len(s) /\ DOMAIN r = 1..Len(r)
        /\ Len(s) \in Nat /\ Len(r) \in Nat
        /\ \A i \in 1..Len(s) : q[i] = s[i]
        /\ \A i \in (Len(s) + 1)..(Len(s) + Len(r)) : q[i] = r[i - Len(s)]
    OBVIOUS
  <2> HIDE DEF q
  <2>2. \A i \in 1..Len(r) : r[i] = q[i + Len(s)]
    BY <2>1
  <2>3. Listed(s) \subseteq Listed(q) /\ Listed(r) \subseteq Listed(q)
    <3>1. \A i \in 1..Len(s) : i \in DOMAIN q
      BY <2>1
    <3>2. \A i \in 1..Len(r) : i + Len(s) \in DOMAIN q
      BY <2>1
    <3> QED
      BY <2>1, <2>2, <3>1, <3>2 DEF Listed
  <2>4. Listed(q) \subseteq Listed(s) \cup Listed(r)
    <3> SUFFICES ASSUME NEW i \in DOMAIN q PROVE q[i] \in Listed(s) \cup Listed(r)
      BY DEF Listed
    <3>1. CASE i \in 1..Len(s)
      BY <2>1, <3>1 DEF Listed
    <3>2. CASE i \notin 1..Len(s)
      <4>1. i - Len(s) \in 1..Len(r) /\ q[i] = r[i - Len(s)]
        BY <2>1, <3>2
      <4> QED
        BY <2>1, <4>1 DEF Listed
    <3> QED
      BY <3>1, <3>2
  <2> QED
    BY <2>3, <2>4 DEF q
<1> QED
  BY <1>1

\* Node n overlaps the range.
Overlaps(t, start, end, n) ==
    DoesRangeOverlap(start, end, t.nodes[n].start_key, t.nodes[n].end_key)

\* What the walk makes of what it has found in the left subtree and n.
Here(t, start, end, n, left) ==
    IF Overlaps(t, start, end, n) THEN Append(left.found, n) ELSE left.found

\* What it has found after the left subtree, n and the right subtree.
WalkFrom(t, start, end, n, left, right) ==
    IF left.done THEN left
    ELSE IF IsPast(end, t.nodes[n])
    THEN [done |-> TRUE, found |-> Here(t, start, end, n, left)]
    ELSE [done |-> right.done,
          found |-> Here(t, start, end, n, left) \o right.found]

\* f is what the walk finds from each node.
IsWalk(N, t, start, end, f) ==
    f = [n \in 0..N |->
            IF n = NIL THEN [done |-> FALSE, found |-> <<>>]
            ELSE WalkFrom(t, start, end, n, f[t.nodes[n].left], f[t.nodes[n].right])]

Walks(N) == [done : BOOLEAN, found : Seq(1..N)]

\* One step of the walk.
LEMMA WalkFromType ==
    ASSUME NEW N \in Nat, NEW t, NEW start, NEW end, NEW n \in 1..N,
           NEW left \in Walks(N), NEW right \in Walks(N)
    PROVE  /\ WalkFrom(t, start, end, n, left, right) \in Walks(N)
           /\ Here(t, start, end, n, left) \in Seq(1..N)
<1>1. Here(t, start, end, n, left) \in Seq(1..N)
  <2>1. left.found \in Seq(1..N)
    BY DEF Walks
  <2>2. Append(left.found, n) \in Seq(1..N)
    BY <2>1
  <2> QED
    BY Zenon, <2>1, <2>2 DEF Here
<1>2. right.found \in Seq(1..N) /\ right.done \in BOOLEAN
  BY DEF Walks
<1> DEFINE h == Here(t, start, end, n, left)
<1> HIDE DEF h
<1>3. h \in Seq(1..N) /\ h \o right.found \in Seq(1..N)
  BY <1>1, <1>2 DEF h
<1>4. /\ [done |-> TRUE, found |-> h] \in Walks(N)
      /\ [done |-> right.done, found |-> h \o right.found] \in Walks(N)
  BY <1>2, <1>3 DEF Walks
<1> QED
  BY <1>1, <1>4 DEF WalkFrom, h

\* The walk ends.
LEMMA WalkExists ==
    ASSUME NEW N \in Nat, NEW t, NEW sub, IsOrdered(N, t, "left", sub),
           NEW start, NEW end
    PROVE  \E f : IsWalk(N, t, start, end, f)
<1> DEFINE D == 1..N
           T == Walks(N)
           L == Kids(t, "left")
           R == Kids(t, "right")
           z == [done |-> FALSE, found |-> <<>>]
           h == [q \in D \X T \X T |-> WalkFrom(t, start, end, q[1], q[2], q[3])]
<1>1. Shape(D, L, R, Parents(t), t.root, sub)
  BY LeftRight
<1>2. \A n \in D : L[n] = t.nodes[n].left /\ R[n] = t.nodes[n].right
  BY LeftRight
<1>3. D \cup {NIL} = 0..N /\ NIL \notin D
  BY DEF NIL
<1>4. z \in T
  BY DEF Walks
<1>5. \A n \in D : \A a, b \in T : WalkFrom(t, start, end, n, a, b) \in T
  BY WalkFromType
<1> HIDE DEF D, L, R, T, z
<1>6. /\ h \in [D \X T \X T -> T]
      /\ \A n \in D : \A a, b \in T :
            h[<<n, a, b>>] = WalkFrom(t, start, end, n, a, b)
  BY <1>5
<1> HIDE DEF h
<1>7. PICK f : IsByTree(D, L, R, T, z, h, f)
  <2>1. h \in [D \X T \X T -> T]
    BY <1>6
  <2> QED
    BY <1>1, <1>4, <2>1, FunctionByTree
<1>8. L \in [D -> D \cup {NIL}] /\ R \in [D -> D \cup {NIL}]
  BY <1>1 DEF Shape
<1>9. f \in [0..N -> T]
  BY <1>3, <1>7 DEF IsByTree
<1>10. ASSUME NEW n \in 0..N
       PROVE  f[n] = IF n = NIL THEN [done |-> FALSE, found |-> <<>>]
                     ELSE WalkFrom(t, start, end, n, f[t.nodes[n].left],
                                   f[t.nodes[n].right])
  <2>1. CASE n = NIL
    BY <1>7, <2>1 DEF IsByTree, z
  <2>2. CASE n # NIL
    <3>1. n \in D
      BY <1>3, <2>2
    <3>2. f[L[n]] \in T /\ f[R[n]] \in T
      BY <1>3, <1>8, <1>9, <3>1
    <3>3. f[n] = h[<<n, f[L[n]], f[R[n]]>>]
      BY <1>7, <3>1 DEF IsByTree
    <3>4. f[n] = WalkFrom(t, start, end, n, f[L[n]], f[R[n]])
      BY <1>6, <3>1, <3>2, <3>3
    <3> QED
      BY <1>2, <2>2, <3>1, <3>4
  <2> QED
    BY <2>1, <2>2
<1>11. IsWalk(N, t, start, end, f)
  BY <1>9, <1>10 DEF IsWalk
<1> QED
  BY <1>11

\* The walk has found the nodes of S that are in Hit, and is done only if it has
\* seen a node in Late.
HasFound(walk, S, Hit, Late) ==
    /\ Listed(walk.found) = S \cap Hit
    /\ walk.done => \E m \in S : m \in Late

\* n is between what is on its left and on its right.
IsBetween(n, SL, SR, Hit, Late) ==
    /\ (\E m \in SL : m \in Late) => n \in Late
    /\ n \in Late => n \notin Hit /\ SR \cap Hit = {}

\* Hit and Late say whether n overlaps the range and is past it.
Tells(t, start, end, n, Hit, Late) ==
    /\ Overlaps(t, start, end, n) <=> n \in Hit
    /\ IsPast(end, t.nodes[n]) <=> n \in Late

\* One step of the walk.
LEMMA WalkStep ==
    ASSUME NEW N \in Nat, NEW t, NEW start, NEW end, NEW n \in 1..N,
           NEW left \in Walks(N), NEW right \in Walks(N),
           NEW Hit, NEW Late, NEW SL, NEW SR,
           Tells(t, start, end, n, Hit, Late),
           HasFound(left, SL, Hit, Late), HasFound(right, SR, Hit, Late),
           IsBetween(n, SL, SR, Hit, Late),
           NEW w, w = WalkFrom(t, start, end, n, left, right)
    PROVE  HasFound(w, {n} \cup SL \cup SR, Hit, Late)
<1>0. /\ Overlaps(t, start, end, n) <=> n \in Hit
      /\ IsPast(end, t.nodes[n]) <=> n \in Late
      /\ Listed(left.found) = SL \cap Hit /\ Listed(right.found) = SR \cap Hit
      /\ left.done => \E m \in SL : m \in Late
      /\ right.done => \E m \in SR : m \in Late
      /\ (\E m \in SL : m \in Late) => n \in Late
      /\ n \in Late => n \notin Hit /\ SR \cap Hit = {}
  BY DEF Tells, HasFound, IsBetween
<1> USE <1>0
<1> SUFFICES /\ Listed(w.found) = ({n} \cup SL \cup SR) \cap Hit
             /\ w.done => \E m \in {n} \cup SL \cup SR : m \in Late
  BY DEF HasFound
<1> DEFINE h == Here(t, start, end, n, left)
<1>1. left.found \in Seq(1..N) /\ right.found \in Seq(1..N)
  BY DEF Walks
<1>2. h \in Seq(1..N) /\ Listed(h) = ({n} \cup SL) \cap Hit
  <2>1. h \in Seq(1..N)
    BY WalkFromType
  <2>2. CASE n \in Hit
    <3>1. h = Append(left.found, n)
      BY Zenon, <2>2 DEF Here
    <3>2. Listed(Append(left.found, n)) = Listed(left.found) \cup {n}
      BY <1>1, ListedAppend
    <3> QED
      BY <2>1, <2>2, <3>1, <3>2
  <2>3. CASE n \notin Hit
    <3>1. h = left.found
      BY Zenon, <2>3 DEF Here
    <3> QED
      BY <2>1, <2>3, <3>1
  <2> QED
    BY <2>2, <2>3
<1>3. Listed(h \o right.found) = Listed(h) \cup Listed(right.found)
  BY <1>1, <1>2, ListedConcat
<1> HIDE DEF h
<1>4. CASE left.done
  <2>1. w = left
    BY Zenon, <1>4 DEF WalkFrom
  <2>2. PICK m \in SL : m \in Late
    BY <1>4
  <2>3. n \notin Hit /\ SR \cap Hit = {}
    BY <2>2
  <2> QED
    BY <2>1, <2>2, <2>3
<1>5. CASE ~left.done /\ n \in Late
  <2>1. w = [done |-> TRUE, found |-> h]
    BY Zenon, <1>5 DEF WalkFrom, h
  <2>2. w.found = h
    BY <2>1
  <2> QED
    BY <1>2, <1>5, <2>2
<1>6. CASE ~left.done /\ n \notin Late
  <2>1. w = [done |-> right.done, found |-> h \o right.found]
    BY Zenon, <1>6 DEF WalkFrom, h
  <2>2. w.found = h \o right.found
    BY <2>1
  <2>3. w.done = right.done
    BY <2>1
  <2>4. Listed(w.found) = ({n} \cup SL \cup SR) \cap Hit
    BY <1>2, <1>3, <2>2
  <2>5. w.done => \E m \in {n} \cup SL \cup SR : m \in Late
    BY Zenon, <2>3
  <2> QED
    BY <2>4, <2>5
<1> QED
  BY <1>4, <1>5, <1>6

\* The walk finds the nodes that overlap the range, wherever they are, though it
\* ends at the first node past it.
LEMMA WalkFinds ==
    ASSUME NEW N \in Nat, NEW t, NEW sub, IsOrdered(N, t, "left", sub),
           NEW start \in Nat, NEW end \in Nat, start <= end,
           NEW f, IsWalk(N, t, start, end, f)
    PROVE  /\ f[t.root].found \in Seq(1..N)
           /\ Listed(f[t.root].found) = {n \in 1..N : Overlaps(t, start, end, n)}
<1> DEFINE D == 1..N
           L == Kids(t, "left")
           R == Kids(t, "right")
           key(n) == t.nodes[n].start_key
           Hit == {n \in D : Overlaps(t, start, end, n)}
           Late == {n \in D : IsPast(end, t.nodes[n])}
           G == {n \in 0..N : f[n] \in Walks(N) /\ HasFound(f[n], sub[n], Hit, Late)}
<1>1. Shape(D, L, R, Parents(t), t.root, sub)
  BY LeftRight
<1>2. /\ \A n \in D : /\ L[n] = t.nodes[n].left /\ R[n] = t.nodes[n].right
                      /\ key(n) \in Nat
                      /\ t.nodes[n].end_key \in Nat
      /\ \A n \in D : /\ \A m \in sub[L[n]] : m \in D /\ key(m) <= key(n)
                      /\ \A m \in sub[R[n]] : m \in D /\ key(n) <= key(m)
  <2>1. \A n \in D : /\ L[n] = t.nodes[n].left /\ R[n] = t.nodes[n].right
                     /\ key(n) \in Nat
                     /\ t.nodes[n].end_key \in Nat
    BY LeftRight
  <2>2. \A n \in D :
           /\ \A m \in sub[t.nodes[n].left] : m \in D /\ key(m) <= key(n)
           /\ \A m \in sub[t.nodes[n].right] : m \in D /\ key(n) <= key(m)
    BY LeftRight
  <2> HIDE DEF L, R
  <2> QED
    BY <2>1, <2>2
<1>3. D \cup {NIL} = 0..N /\ NIL \notin D
  BY DEF NIL
<1>4. /\ L \in [D -> D \cup {NIL}] /\ R \in [D -> D \cup {NIL}]
      /\ \A n \in D : sub[n] = {n} \cup sub[L[n]] \cup sub[R[n]]
      /\ sub[NIL] = {} /\ sub[t.root] = D /\ t.root \in D \cup {NIL}
  BY <1>1 DEF Shape
<1>5. \A n \in D : n \in Late <=> end < key(n)
  BY DEF IsPast
<1>6. \A n \in D : n \in Late => n \notin Hit
  BY <1>2, <1>5 DEF Overlaps, DoesRangeOverlap
<1>7. /\ f[NIL] = [done |-> FALSE, found |-> <<>>]
      /\ \A n \in D : f[n] = WalkFrom(t, start, end, n, f[L[n]], f[R[n]])
  <2>1. f[NIL] = [done |-> FALSE, found |-> <<>>]
    BY <1>3 DEF IsWalk
  <2>2. \A n \in D : f[n] = WalkFrom(t, start, end, n, f[t.nodes[n].left],
                                    f[t.nodes[n].right])
    BY <1>3 DEF IsWalk
  <2> QED
    BY <1>2, <2>1, <2>2
<1>8. NIL \in G
  <2>1. f[NIL].found = <<>> /\ ~f[NIL].done /\ f[NIL] \in Walks(N)
    BY <1>7 DEF Walks
  <2>2. Listed(<<>>) = {}
    BY DEF Listed
  <2>3. HasFound(f[NIL], sub[NIL], Hit, Late)
    BY <1>4, <2>1, <2>2 DEF HasFound
  <2> QED
    BY <1>3, <2>1, <2>3
<1>9. ASSUME NEW n \in D, L[n] \in G, R[n] \in G PROVE n \in G
  <2> DEFINE left == f[L[n]]
             right == f[R[n]]
             w == f[n]
             SL == sub[L[n]]
             SR == sub[R[n]]
  <2>1. /\ left \in Walks(N) /\ right \in Walks(N)
        /\ HasFound(left, SL, Hit, Late) /\ HasFound(right, SR, Hit, Late)
    BY <1>9
  <2>2. w = WalkFrom(t, start, end, n, left, right)
    BY <1>7
  <2>3. IsBetween(n, SL, SR, Hit, Late)
    <3>1. (\E m \in SL : m \in Late) => n \in Late
      BY <1>2, <1>5
    <3>2. n \in Late => n \notin Hit /\ SR \cap Hit = {}
      BY <1>2, <1>5, <1>6
    <3> QED
      BY <3>1, <3>2 DEF IsBetween
  <2>4. Tells(t, start, end, n, Hit, Late)
    BY DEF Tells
  <2> HIDE DEF left, right, w, SL, SR, Hit, Late
  <2>5. HasFound(w, {n} \cup SL \cup SR, Hit, Late)
    BY <2>1, <2>2, <2>3, <2>4, WalkStep DEF D
  <2>6. w \in Walks(N)
    BY <2>1, <2>2, WalkFromType DEF D
  <2>7. sub[n] = {n} \cup SL \cup SR
    BY <1>4 DEF SL, SR
  <2> QED
    BY <1>3, <2>5, <2>6, <2>7 DEF w
<1>10. t.root \in G
  <2> HIDE DEF G, D, L, R
  <2>1. \A n \in D : n \in G
    BY <1>1, <1>8, <1>9, TreeInduction
  <2> QED
    BY <1>4, <1>8, <2>1
<1>11. f[t.root].found \in Seq(1..N)
  BY <1>10 DEF Walks
<1>12. Listed(f[t.root].found) = Hit
  <2>1. Listed(f[t.root].found) = sub[t.root] \cap Hit
    BY <1>10 DEF HasFound
  <2> QED
    BY <1>4, <2>1
<1> QED
  BY <1>11, <1>12

\* get_overlap returns the nodes that overlap the range and no other ones.
LEMMA GetOverlapFacts ==
    ASSUME NEW N \in Nat, NEW t, NEW sub, IsOrdered(N, t, "left", sub),
           NEW start \in Nat, NEW end \in Nat, start <= end
    PROVE  /\ GetOverlap(t, start, end) \in Seq(1..N)
           /\ Listed(GetOverlap(t, start, end))
                 = {n \in 1..N : Overlaps(t, start, end, n)}
<1> DEFINE from[n \in 0..Len(t.nodes)] ==
               LET node == t.nodes[n]
                   left == from[node.left]
                   right == from[node.right]
                   here == IF DoesRangeOverlap(start, end, node.start_key,
                                               node.end_key)
                           THEN Append(left.found, n) ELSE left.found
               IN  IF n = NIL THEN [done |-> FALSE, found |-> <<>>]
                   ELSE IF left.done THEN left
                   ELSE IF IsPast(end, node)
                   THEN [done |-> TRUE, found |-> here]
                   ELSE [done |-> right.done, found |-> here \o right.found]
<1>1. GetOverlap(t, start, end) = from[t.root].found
  BY Zenon DEF GetOverlap
<1>2. from = CHOOSE f : f = [n \in 0..Len(t.nodes) |->
            IF n = NIL THEN [done |-> FALSE, found |-> <<>>]
            ELSE WalkFrom(t, start, end, n, f[t.nodes[n].left], f[t.nodes[n].right])]
  BY Zenon DEF WalkFrom, Here, Overlaps
<1> HIDE DEF from
<1>3. Len(t.nodes) = N
  BY TreeTypes DEF IsOrdered
<1>4. from = CHOOSE f : IsWalk(N, t, start, end, f)
  BY <1>2, <1>3 DEF IsWalk
<1>5. \E f : IsWalk(N, t, start, end, f)
  BY WalkExists
<1>6. IsWalk(N, t, start, end, from)
  BY <1>4, <1>5
<1> QED
  BY <1>1, <1>6, WalkFinds
-----------------------------------------------------------------------------
(* What the invariants of Database say of the tree.                        *)

\* f lists the nodes below each node in order.
IsInorder(N, t, f) ==
    f = [n \in {NIL} \cup 1..N |->
            IF n = NIL THEN <<>>
            ELSE f[t.nodes[n].left] \o <<n>> \o f[t.nodes[n].right]]

\* The nodes can be listed.
LEMMA InorderExists ==
    ASSUME NEW N \in Nat, NEW t, NEW sub, IsOrdered(N, t, "left", sub)
    PROVE  \E f : IsInorder(N, t, f)
<1> DEFINE D == 1..N
           T == Seq(1..N)
           L == Kids(t, "left")
           R == Kids(t, "right")
           h == [q \in D \X T \X T |-> q[2] \o <<q[1]>> \o q[3]]
<1>1. Shape(D, L, R, Parents(t), t.root, sub)
  BY LeftRight
<1>2. \A n \in D : L[n] = t.nodes[n].left /\ R[n] = t.nodes[n].right
  BY LeftRight
<1>3. D \cup {NIL} = {NIL} \cup 1..N /\ NIL \notin D
  BY DEF NIL
<1>4. <<>> \in T
  OBVIOUS
<1>5. \A n \in D : \A a, b \in T : a \o <<n>> \o b \in T
  OBVIOUS
<1> HIDE DEF D, L, R, T
<1>6. /\ h \in [D \X T \X T -> T]
      /\ \A n \in D : \A a, b \in T : h[<<n, a, b>>] = a \o <<n>> \o b
  BY <1>5
<1> HIDE DEF h
<1>7. PICK f : IsByTree(D, L, R, T, <<>>, h, f)
  <2>1. h \in [D \X T \X T -> T]
    BY <1>6
  <2> QED
    BY <1>1, <1>4, <2>1, FunctionByTree
<1>8. L \in [D -> D \cup {NIL}] /\ R \in [D -> D \cup {NIL}]
  BY <1>1 DEF Shape
<1>9. f \in [D \cup {NIL} -> T]
  BY <1>7 DEF IsByTree
<1>10. ASSUME NEW n \in {NIL} \cup 1..N
       PROVE  f[n] = IF n = NIL THEN <<>>
                     ELSE f[t.nodes[n].left] \o <<n>> \o f[t.nodes[n].right]
  <2>1. CASE n = NIL
    BY <1>7, <2>1 DEF IsByTree
  <2>2. CASE n # NIL
    <3>1. n \in D
      BY <1>3, <2>2
    <3>2. f[L[n]] \in T /\ f[R[n]] \in T
      BY <1>3, <1>8, <1>9, <3>1
    <3>3. f[n] = h[<<n, f[L[n]], f[R[n]]>>]
      BY <1>7, <3>1 DEF IsByTree
    <3>4. f[n] = f[L[n]] \o <<n>> \o f[R[n]]
      BY <1>6, <3>1, <3>2, <3>3
    <3> QED
      BY <1>2, <2>2, <3>1, <3>4
  <2> QED
    BY <2>1, <2>2
<1>11. f \in [{NIL} \cup 1..N -> T]
  BY <1>3, <1>9
<1>12. IsInorder(N, t, f)
  BY <1>10, <1>11 DEF IsInorder
<1> QED
  BY <1>12

\* s lists the nodes of S once each, in the order of their start keys.
ListsInOrder(N, t, S, s) ==
    /\ s \in Seq(1..N) /\ Listed(s) = S /\ Len(s) = Cardinality(S)
    /\ \A i \in 2..Len(s) : t.nodes[s[i - 1]].start_key <= t.nodes[s[i]].start_key

\* What is on the left of n, n, and what is on the right of n.
LEMMA InorderStep ==
    ASSUME NEW N \in Nat, NEW t, NEW n \in 1..N, NEW a, NEW b,
           NEW SL \in SUBSET (1..N), NEW SR \in SUBSET (1..N),
           ListsInOrder(N, t, SL, a), ListsInOrder(N, t, SR, b),
           n \notin SL, n \notin SR, SL \cap SR = {},
           \A m \in SL : t.nodes[m].start_key <= t.nodes[n].start_key,
           \A m \in SR : t.nodes[n].start_key <= t.nodes[m].start_key
    PROVE  ListsInOrder(N, t, {n} \cup SL \cup SR, a \o <<n>> \o b)
<1> DEFINE e == <<n>>
           c == a \o e
           d == c \o b
<1>1. /\ a \in Seq(1..N) /\ b \in Seq(1..N) /\ Listed(a) = SL /\ Listed(b) = SR
      /\ Len(a) = Cardinality(SL) /\ Len(b) = Cardinality(SR)
      /\ \A i \in 2..Len(a) : t.nodes[a[i - 1]].start_key <= t.nodes[a[i]].start_key
      /\ \A i \in 2..Len(b) : t.nodes[b[i - 1]].start_key <= t.nodes[b[i]].start_key
  BY DEF ListsInOrder
<1>2. e \in Seq(1..N) /\ Len(e) = 1 /\ e[1] = n /\ Listed(e) = {n}
  BY DEF Listed
<1> HIDE DEF e
<1>3. a \in Seq(1..N)
  BY <1>1
<1>4. b \in Seq(1..N)
  BY <1>1
<1>5. e \in Seq(1..N)
  BY <1>2
<1>6. /\ c \in Seq(1..N) /\ Len(c) = Len(a) + Len(e)
      /\ \A i \in 1..Len(a) + Len(e) :
            c[i] = IF i <= Len(a) THEN a[i] ELSE e[i - Len(a)]
  BY <1>3, <1>5, ConcatProperties
<1>7. Listed(c) = Listed(a) \cup Listed(e)
  BY <1>3, <1>5, ListedConcat
<1> HIDE DEF c
<1>8. c \in Seq(1..N)
  BY <1>6
<1>9. /\ d \in Seq(1..N) /\ Len(d) = Len(c) + Len(b)
      /\ \A i \in 1..Len(c) + Len(b) :
            d[i] = IF i <= Len(c) THEN c[i] ELSE b[i - Len(c)]
  BY <1>4, <1>8, ConcatProperties
<1>10. Listed(d) = Listed(c) \cup Listed(b)
  BY <1>4, <1>8, ListedConcat
<1> HIDE DEF d
<1>11. Len(a) \in Nat /\ Len(b) \in Nat
  BY <1>3, <1>4
<1>12. Len(c) = Len(a) + 1 /\ Len(d) = Len(a) + 1 + Len(b) /\ d \in Seq(1..N)
  BY <1>11, <1>2, <1>6, <1>9
<1>13. Listed(d) = {n} \cup SL \cup SR
  BY <1>1, <1>2, <1>7, <1>10
<1>14. Len(d) = Cardinality({n} \cup SL \cup SR)
  <2>1. IsFiniteSet(1..N)
    BY FS_Interval
  <2>2. IsFiniteSet(SL) /\ IsFiniteSet(SR)
    BY <2>1, FS_Subset
  <2>3. /\ IsFiniteSet(SL \cup SR)
        /\ Cardinality(SL \cup SR)
              = Cardinality(SL) + Cardinality(SR) - Cardinality(SL \cap SR)
    BY <2>2, FS_Union
  <2>4. Cardinality(SL \cap SR) = 0
    BY FS_EmptySet
  <2>5. n \notin SL \cup SR
    OBVIOUS
  <2>6. Cardinality((SL \cup SR) \cup {n}) = Cardinality(SL \cup SR) + 1
    BY <2>3, <2>5, FS_AddElement
  <2>7. (SL \cup SR) \cup {n} = {n} \cup SL \cup SR
    OBVIOUS
  <2>8. Len(a) = Cardinality(SL) /\ Len(b) = Cardinality(SR)
    BY <1>1
  <2>9. Cardinality(SL \cup SR) = Len(a) + Len(b)
    BY <1>11, <2>3, <2>4, <2>8
  <2>10. Cardinality((SL \cup SR) \cup {n}) = Len(d)
    BY <1>11, <1>12, <2>6, <2>9
  <2> QED
    BY <2>7, <2>10
<1>15. /\ \A i \in 1..Len(a) : d[i] = a[i] /\ a[i] \in SL
      /\ d[Len(a) + 1] = n
      /\ \A i \in 1..Len(b) : d[Len(a) + 1 + i] = b[i] /\ b[i] \in SR
  <2>1. /\ \A i \in 1..Len(a) : a[i] \in SL
        /\ \A i \in 1..Len(b) : b[i] \in SR
    <3>1. DOMAIN a = 1..Len(a) /\ DOMAIN b = 1..Len(b)
      BY <1>3, <1>4
    <3> QED
      BY <1>1, <3>1 DEF Listed
  <2>2. ASSUME NEW i \in 1..Len(a) PROVE d[i] = a[i]
    <3>1. i \in 1..Len(a) + Len(e) /\ i \in 1..Len(c) + Len(b) /\ i <= Len(c)
      BY <1>11, <1>2, <1>12
    <3> QED
      BY SMTT(30), <1>6, <1>9, <3>1
  <2>3. d[Len(a) + 1] = n
    <3>1. PICK i \in Int : i = Len(a) + 1
      BY <1>11
    <3>2. /\ i \in 1..Len(a) + Len(e) /\ i \in 1..Len(c) + Len(b) /\ i <= Len(c)
          /\ ~(i <= Len(a)) /\ i - Len(a) = 1
      BY <1>11, <1>2, <1>12, <3>1
    <3>3. d[i] = c[i] /\ c[i] = e[i - Len(a)]
      BY <1>6, <1>9, <3>2
    <3> QED
      BY <1>2, <3>1, <3>2, <3>3
  <2>4. ASSUME NEW i \in 1..Len(b) PROVE d[Len(a) + 1 + i] = b[i]
    <3>1. PICK j \in Int : j = Len(a) + 1 + i
      BY <1>11
    <3>2. j \in 1..Len(c) + Len(b) /\ ~(j <= Len(c)) /\ j - Len(c) = i
      BY SMTT(30), <1>11, <1>12, <3>1
    <3>3. d[j] = b[j - Len(c)]
      BY <1>9, <3>2
    <3> QED
      BY <3>1, <3>2, <3>3
  <2> QED
    BY <2>1, <2>2, <2>3, <2>4
<1>16. ASSUME NEW i \in 2..Len(d)
      PROVE  t.nodes[d[i - 1]].start_key <= t.nodes[d[i]].start_key
  <2>1. CASE i <= Len(a)
    <3>1. i \in 1..Len(a) /\ i - 1 \in 1..Len(a) /\ i \in 2..Len(a)
      BY SMTT(30), <1>11, <1>12, <2>1
    <3> QED
      BY <1>1, <1>15, <3>1
  <2>2. CASE i = Len(a) + 1
    <3>1. i - 1 \in 1..Len(a)
      BY <1>11, <1>12, <2>2
    <3>2. d[i - 1] \in SL /\ d[i] = n
      BY <1>15, <2>2, <3>1
    <3> QED
      BY <3>2
  <2>3. CASE i = Len(a) + 2
    <3>1. 1 \in 1..Len(b) /\ i - 1 = Len(a) + 1 /\ i = Len(a) + 1 + 1
      BY <1>11, <1>12, <2>3
    <3>2. d[i - 1] = n /\ d[i] \in SR
      BY <1>15, <3>1
    <3> QED
      BY <3>2
  <2>4. CASE i > Len(a) + 2
    <3> DEFINE j == i - (Len(a) + 1)
    <3>1. /\ j \in 2..Len(b) /\ j \in 1..Len(b) /\ j - 1 \in 1..Len(b)
          /\ i = Len(a) + 1 + j /\ i - 1 = Len(a) + 1 + (j - 1)
      BY SMTT(30), <1>11, <1>12, <2>4
    <3> HIDE DEF j
    <3>2. d[i] = b[j] /\ d[i - 1] = b[j - 1]
      BY <1>15, <3>1
    <3> QED
      BY <1>1, <3>1, <3>2
  <2>5. i <= Len(a) \/ i = Len(a) + 1 \/ i = Len(a) + 2 \/ i > Len(a) + 2
    BY <1>11
  <2> QED
    BY <2>1, <2>2, <2>3, <2>4, <2>5
<1>17. ListsInOrder(N, t, {n} \cup SL \cup SR, d)
  BY <1>12, <1>13, <1>14, <1>16 DEF ListsInOrder
<1> QED
  BY <1>17 DEF c, d, e

\* The list of all nodes has each of them once and is in order.
LEMMA InorderFacts ==
    ASSUME NEW N \in Nat, NEW t, NEW sub, IsOrdered(N, t, "left", sub),
           NEW f, IsInorder(N, t, f)
    PROVE  ListsInOrder(N, t, 1..N, f[t.root])
<1> DEFINE D == 1..N
           L == Kids(t, "left")
           R == Kids(t, "right")
           G == {n \in D \cup {NIL} : ListsInOrder(N, t, sub[n], f[n])}
<1>1. Shape(D, L, R, Parents(t), t.root, sub)
  BY LeftRight
<1>2. \A n \in D : L[n] = t.nodes[n].left /\ R[n] = t.nodes[n].right
  BY LeftRight
<1>3. \A n \in D :
         /\ \A m \in sub[t.nodes[n].left] :
               m \in D /\ t.nodes[m].start_key <= t.nodes[n].start_key
         /\ \A m \in sub[t.nodes[n].right] :
               m \in D /\ t.nodes[n].start_key <= t.nodes[m].start_key
  BY LeftRight
<1>4. /\ sub[NIL] = {} /\ sub[t.root] = D /\ t.root \in D \cup {NIL}
      /\ \A n \in D : /\ sub[n] = {n} \cup sub[L[n]] \cup sub[R[n]]
                      /\ n \notin sub[L[n]] /\ n \notin sub[R[n]]
                      /\ sub[L[n]] \cap sub[R[n]] = {}
  BY <1>1 DEF Shape
<1>5. f[NIL] = <<>> /\ NIL \notin D
  BY SMTT(30) DEF IsInorder, NIL
<1>6. \A n \in D : f[n] = f[t.nodes[n].left] \o <<n>> \o f[t.nodes[n].right]
  BY <1>5 DEF IsInorder
<1>7. NIL \in G
  <2>1. Listed(<<>>) = {} /\ Len(<<>>) = 0 /\ <<>> \in Seq(1..N)
    BY DEF Listed
  <2>2. Cardinality({}) = 0
    BY FS_EmptySet
  <2>3. \A i \in 2..Len(<<>>) : FALSE
    BY <2>1
  <2>4. ListsInOrder(N, t, {}, <<>>)
    BY <2>1, <2>2, <2>3 DEF ListsInOrder
  <2> QED
    BY <1>4, <1>5, <2>4
<1>8. ASSUME NEW n \in D, L[n] \in G, R[n] \in G PROVE n \in G
  <2> DEFINE a == f[L[n]]
             b == f[R[n]]
             SL == sub[L[n]]
             SR == sub[R[n]]
  <2>1. ListsInOrder(N, t, SL, a) /\ ListsInOrder(N, t, SR, b)
    BY <1>8
  <2>2. /\ \A m \in SL : m \in 1..N /\ t.nodes[m].start_key <= t.nodes[n].start_key
        /\ \A m \in SR : m \in 1..N /\ t.nodes[n].start_key <= t.nodes[m].start_key
    <3> HIDE DEF L, R
    <3> QED
      BY <1>2, <1>3
  <2>3. f[n] = a \o <<n>> \o b
    BY <1>2, <1>6
  <2>4. /\ sub[n] = {n} \cup SL \cup SR
        /\ n \notin SL /\ n \notin SR /\ SL \cap SR = {}
    BY <1>4
  <2>5. SL \in SUBSET (1..N) /\ SR \in SUBSET (1..N)
    BY <2>2
  <2> HIDE DEF a, b, SL, SR
  <2>6. ListsInOrder(N, t, {n} \cup SL \cup SR, a \o <<n>> \o b)
    BY <2>1, <2>2, <2>4, <2>5, InorderStep
  <2> QED
    BY <2>3, <2>4, <2>6
<1>9. t.root \in G
  <2> HIDE DEF G, D, L, R
  <2>1. \A n \in D : n \in G
    BY <1>1, <1>7, <1>8, TreeInduction
  <2> QED
    BY <1>4, <1>7, <2>1
<1> QED
  BY <1>4, <1>9

\* f has the number of black nodes on the leftmost path from each node.
IsHeight(N, t, f) ==
    f = [n \in {NIL} \cup 1..N |->
            IF n = NIL THEN 0
            ELSE f[t.nodes[n].left] + (IF IsRed(t, n) THEN 0 ELSE 1)]

\* bh has the heights of the nodes of t.
HasHeights(N, t, bh) ==
    /\ bh \in [(1..N) \cup {NIL} -> Nat] /\ bh[NIL] = 0
    /\ \A n \in 1..N :
          /\ bh[t.nodes[n].left] = bh[t.nodes[n].right]
          /\ bh[n] = bh[t.nodes[n].left] + (IF IsRed(t, n) THEN 0 ELSE 1)

\* The parent of a red node of t is black.
HasRedsApart(N, t) ==
    \A n \in 1..N : t.nodes[n].color = "red" /\ t.nodes[n].parent # NIL
                       => t.nodes[t.nodes[n].parent].color = "black"

\* The colours, in the terms of the nodes.
LEMMA ColorFacts ==
    ASSUME NEW N \in Nat, NEW t, NEW sub, NEW bh, IsColored(N, t, sub, bh)
    PROVE  HasHeights(N, t, bh) /\ HasRedsApart(N, t) /\ ~IsRed(t, t.root)
<1> DEFINE L == Kids(t, "left")
           R == Kids(t, "right")
           P == Parents(t)
           C == Colors(t)
<1>1. IsOrdered(N, t, "left", sub) /\ WellColored(1..N, L, R, P, t.root, C, bh)
  BY DEF IsColored
<1>2. Shape(1..N, L, R, P, t.root, sub)
  BY <1>1, LeftRight
<1>3. \A n \in 1..N : /\ L[n] = t.nodes[n].left /\ R[n] = t.nodes[n].right
                      /\ P[n] = t.nodes[n].parent /\ C[n] = t.nodes[n].color
                      /\ n # NIL
  BY <1>1, LeftRight DEF NIL
<1>4. /\ P \in [1..N -> (1..N) \cup {NIL}] /\ t.root \in (1..N) \cup {NIL}
  BY <1>2 DEF Shape
<1> HIDE DEF L, R, P, C
<1>5. Heights(1..N, L, R, C, bh) /\ RedsApart(1..N, P, C, NIL)
  BY <1>1 DEF WellColored
<1>6. t.root # NIL => C[t.root] = "black"
  BY <1>1 DEF WellColored
<1>7. ~IsRed(t, t.root)
  BY <1>3, <1>4, <1>6 DEF IsRed
<1>8. bh \in [(1..N) \cup {NIL} -> Nat] /\ bh[NIL] = 0 /\ C \in [1..N -> {"red", "black"}]
  BY <1>5 DEF Heights
<1>9. ASSUME NEW n \in 1..N
      PROVE  /\ bh[t.nodes[n].left] = bh[t.nodes[n].right]
             /\ bh[n] = bh[t.nodes[n].left] + (IF IsRed(t, n) THEN 0 ELSE 1)
  <2>1. bh[t.nodes[n].left] = bh[t.nodes[n].right]
    BY <1>3, <1>5 DEF Heights
  <2>2. bh[t.nodes[n].left] \in Nat
    <3>1. L \in [1..N -> (1..N) \cup {NIL}]
      BY <1>2 DEF Shape
    <3> QED
      BY <1>3, <1>8, <3>1
  <2>3. CASE IsRed(t, n)
    <3>1. C[n] = "red"
      BY <1>3, <2>3 DEF IsRed
    <3>2. bh[n] = bh[t.nodes[n].left]
      BY <1>3, <1>5, <3>1 DEF Heights
    <3> QED
      BY <2>1, <2>2, <2>3, <3>2
  <2>4. CASE ~IsRed(t, n)
    <3>1. C[n] # "red" /\ C[n] \in {"red", "black"}
      BY <1>3, <1>8, <2>4 DEF IsRed
    <3>2. bh[n] = bh[t.nodes[n].left] + 1
      BY <1>3, <1>5, <3>1 DEF Heights
    <3> QED
      BY <2>1, <2>4, <3>2
  <2> QED
    BY <2>3, <2>4
<1>10. ASSUME NEW n \in 1..N, t.nodes[n].color = "red", t.nodes[n].parent # NIL
       PROVE  t.nodes[t.nodes[n].parent].color = "black"
  <2>1. P[n] \in 1..N
    BY <1>3, <1>4, <1>10
  <2>2. C[P[n]] = "black"
    BY <1>3, <1>5, <1>10 DEF RedsApart
  <2> QED
    BY <1>3, <2>1, <2>2
<1> QED
  BY <1>7, <1>8, <1>9, <1>10 DEF HasHeights, HasRedsApart

\* There is such a function, and it is the height.
LEMMA HeightFacts ==
    ASSUME NEW N \in Nat, NEW t, NEW sub, NEW bh, IsColored(N, t, sub, bh)
    PROVE  /\ \E f : IsHeight(N, t, f)
           /\ \A f : IsHeight(N, t, f) => \A n \in (1..N) \cup {NIL} : f[n] = bh[n]
<1> DEFINE L == Kids(t, "left")
           R == Kids(t, "right")
<1>1. IsOrdered(N, t, "left", sub)
  BY DEF IsColored
<1>2. /\ Shape(1..N, L, R, Parents(t), t.root, sub)
      /\ \A n \in 1..N : L[n] = t.nodes[n].left /\ R[n] = t.nodes[n].right
      /\ \A n \in 1..N : t.nodes[n].left \in (1..N) \cup {NIL}
  BY <1>1, LeftRight
<1>3. (1..N) \cup {NIL} = {NIL} \cup 1..N /\ NIL \notin 1..N
  BY DEF NIL
<1>4. /\ bh \in [(1..N) \cup {NIL} -> Nat] /\ bh[NIL] = 0
      /\ \A n \in 1..N :
            bh[n] = bh[t.nodes[n].left] + (IF IsRed(t, n) THEN 0 ELSE 1)
  <2>1. HasHeights(N, t, bh)
    BY ColorFacts
  <2> QED
    BY <2>1 DEF HasHeights
<1> HIDE DEF L, R
<1>5. IsHeight(N, t, bh)
  <2>1. bh = [n \in {NIL} \cup 1..N |-> bh[n]]
    BY <1>3, <1>4
  <2>2. \A n \in {NIL} \cup 1..N :
           bh[n] = IF n = NIL THEN 0
                   ELSE bh[t.nodes[n].left] + (IF IsRed(t, n) THEN 0 ELSE 1)
    BY <1>3, <1>4
  <2> QED
    BY <2>1, <2>2 DEF IsHeight
<1>6. ASSUME NEW f, IsHeight(N, t, f)
      PROVE  \A n \in (1..N) \cup {NIL} : f[n] = bh[n]
  <2> DEFINE G == {n \in (1..N) \cup {NIL} : f[n] = bh[n]}
  <2>1. f[NIL] = 0
    BY <1>3, <1>6 DEF IsHeight
  <2>2. \A n \in 1..N : f[n] = f[t.nodes[n].left] + (IF IsRed(t, n) THEN 0 ELSE 1)
    BY <1>3, <1>6 DEF IsHeight
  <2>3. NIL \in G
    BY <1>4, <2>1
  <2>4. \A n \in 1..N : L[n] \in G /\ R[n] \in G => n \in G
    BY <1>2, <1>4, <2>2
  <2>5. \A n \in 1..N : n \in G
    <3> HIDE DEF G
    <3> QED
      BY <1>2, <2>3, <2>4, TreeInduction
  <2> QED
    BY <2>3, <2>5
<1> QED
  BY <1>5, <1>6

\* A tree that is ordered and coloured is what the invariant of Database calls
\* a red-black tree.
LEMMA RedBlackTree ==
    ASSUME NEW N \in Nat, NEW t, NEW sub, NEW bh, IsColored(N, t, sub, bh)
    PROVE  IsRedBlack(t)
<1> DEFINE ns == DOMAIN t.nodes
           inorder[n \in {NIL} \cup ns] ==
               IF n = NIL THEN <<>>
               ELSE inorder[t.nodes[n].left] \o <<n>> \o inorder[t.nodes[n].right]
           height[n \in {NIL} \cup ns] ==
               IF n = NIL THEN 0
               ELSE height[t.nodes[n].left] + (IF IsRed(t, n) THEN 0 ELSE 1)
           walk == inorder[t.root]
<1>1. IsOrdered(N, t, "left", sub)
  BY DEF IsColored
<1>2. ns = 1..N
  BY <1>1, TreeTypes DEF IsOrdered
<1>3. inorder = CHOOSE f : f = [n \in {NIL} \cup ns |->
            IF n = NIL THEN <<>>
            ELSE f[t.nodes[n].left] \o <<n>> \o f[t.nodes[n].right]]
  BY Zenon
<1>4. height = CHOOSE f : f = [n \in {NIL} \cup ns |->
            IF n = NIL THEN 0
            ELSE f[t.nodes[n].left] + (IF IsRed(t, n) THEN 0 ELSE 1)]
  BY Zenon
<1>5. SUFFICES
        /\ Len(walk) = Cardinality(ns)
        /\ \A i \in 2..Len(walk) :
               t.nodes[walk[i - 1]].start_key <= t.nodes[walk[i]].start_key
        /\ ~IsRed(t, t.root)
        /\ \A n \in ns :
               /\ height[t.nodes[n].left] = height[t.nodes[n].right]
               /\ \A c \in {t.nodes[n].left, t.nodes[n].right} \ {NIL} :
                      t.nodes[c].parent = n /\ ~(IsRed(t, n) /\ IsRed(t, c))
  BY Zenon DEF IsRedBlack
<1> HIDE DEF inorder, height, ns
<1>6. IsInorder(N, t, inorder)
  <2>1. inorder = CHOOSE f : IsInorder(N, t, f)
    BY Zenon, <1>2, <1>3 DEF IsInorder
  <2>2. \E f : IsInorder(N, t, f)
    BY <1>1, InorderExists
  <2> QED
    BY <2>1, <2>2
<1>7. IsHeight(N, t, height)
  <2>1. height = CHOOSE f : IsHeight(N, t, f)
    BY Zenon, <1>2, <1>4 DEF IsHeight
  <2>2. \E f : IsHeight(N, t, f)
    BY HeightFacts
  <2> QED
    BY <2>1, <2>2
<1>8. ListsInOrder(N, t, 1..N, walk)
  BY <1>1, <1>6, InorderFacts
<1>9. \A n \in (1..N) \cup {NIL} : height[n] = bh[n]
  BY <1>7, HeightFacts
<1> HIDE DEF walk
<1>10. /\ Len(walk) = Cardinality(ns)
       /\ \A i \in 2..Len(walk) :
              t.nodes[walk[i - 1]].start_key <= t.nodes[walk[i]].start_key
  BY <1>2, <1>8 DEF ListsInOrder
<1>11. ASSUME NEW n \in 1..N
       PROVE  height[t.nodes[n].left] = height[t.nodes[n].right]
  <2>1. t.nodes[n].left \in (1..N) \cup {NIL} /\ t.nodes[n].right \in (1..N) \cup {NIL}
    BY <1>1, LeftRight
  <2>2. bh[t.nodes[n].left] = bh[t.nodes[n].right]
    <3>1. HasHeights(N, t, bh)
      BY ColorFacts
    <3> QED
      BY <3>1 DEF HasHeights
  <2> QED
    BY <1>9, <2>1, <2>2
<1>12. ASSUME NEW n \in 1..N, NEW c \in {t.nodes[n].left, t.nodes[n].right} \ {NIL}
       PROVE  t.nodes[c].parent = n /\ ~(IsRed(t, n) /\ IsRed(t, c))
  <2> DEFINE L == Kids(t, "left")
             R == Kids(t, "right")
             P == Parents(t)
  <2>1. /\ Shape(1..N, L, R, P, t.root, sub)
        /\ \A m \in 1..N : /\ L[m] = t.nodes[m].left /\ R[m] = t.nodes[m].right
                           /\ P[m] = t.nodes[m].parent
                           /\ t.nodes[m].left \in (1..N) \cup {NIL}
                           /\ t.nodes[m].right \in (1..N) \cup {NIL}
    BY <1>1, LeftRight
  <2> HIDE DEF L, R, P
  <2>2. c \in 1..N /\ (c = L[n] \/ c = R[n]) /\ n # NIL /\ c # NIL
    BY <2>1 DEF NIL
  <2>3. P[c] = n
    BY <2>1, <2>2 DEF Shape
  <2>4. t.nodes[c].parent = n
    BY <2>1, <2>2, <2>3
  <2>5. t.nodes[c].color = "red" => t.nodes[n].color = "black"
    BY <2>2, <2>4, ColorFacts DEF HasRedsApart
  <2> QED
    BY <2>4, <2>5 DEF IsRed
<1>13. ~IsRed(t, t.root)
  BY ColorFacts
<1> QED
  BY <1>2, <1>10, <1>11, <1>12, <1>13

\* The values of nodes have a largest one.
LEMMA LargestValue ==
    ASSUME NEW N \in Nat, NEW v \in [1..N -> Nat], NEW Hit \in SUBSET (1..N)
    PROVE  /\ Max({0} \cup {v[n] : n \in Hit}) \in Nat
           /\ \A m \in Hit : Max({0} \cup {v[n] : n \in Hit}) >= v[m]
<1> DEFINE V(i) == {0} \cup {v[n] : n \in {m \in Hit : m <= i}}
           Has(i) == \E m \in V(i) : \A y \in V(i) : m >= y
           G == {i \in 0..N : Has(i)}
           W == {0} \cup {v[n] : n \in Hit}
<1>1. \A i \in 0..N : V(i) \subseteq Nat
  OBVIOUS
<1>2. 0 \in G
  <2>1. V(0) = {0}
    OBVIOUS
  <2>2. Has(0)
    BY <2>1
  <2> QED
    BY <2>2
<1>3. ASSUME NEW i \in 1..N, i - 1 \in G PROVE i \in G
  <2>1. PICK m \in V(i - 1) : \A y \in V(i - 1) : m >= y
    BY <1>3
  <2>2. m \in Nat /\ v[i] \in Nat /\ V(i - 1) \subseteq Nat
    BY <2>1
  <2>3. V(i) \subseteq V(i - 1) \cup {v[i]}
    OBVIOUS
  <2>4. V(i - 1) \subseteq V(i)
    OBVIOUS
  <2>5. i \in Hit => v[i] \in V(i)
    OBVIOUS
  <2>6. i \notin Hit => V(i) \subseteq V(i - 1)
    OBVIOUS
  <2> HIDE DEF V
  <2>7. CASE i \notin Hit
    <3>1. Has(i)
      BY <2>1, <2>4, <2>6, <2>7
    <3> QED
      BY <3>1
  <2>8. CASE i \in Hit /\ m >= v[i]
    <3>1. \A y \in V(i) : m >= y
      BY <2>1, <2>3, <2>8
    <3>2. Has(i)
      BY <2>4, <3>1
    <3> QED
      BY <3>2
  <2>9. CASE i \in Hit /\ ~(m >= v[i])
    <3>1. \A y \in V(i - 1) : v[i] >= y
      BY <2>1, <2>2, <2>9
    <3>2. \A y \in V(i) : v[i] >= y
      BY <2>2, <2>3, <3>1
    <3>3. Has(i)
      BY <2>5, <2>9, <3>2
    <3> QED
      BY <3>3
  <2> QED
    BY <2>7, <2>8, <2>9
<1>4. N \in G
  <2> HIDE DEF G
  <2>1. \A i \in 0..N : i \in G
    BY <1>2, <1>3, CountingUp
  <2> QED
    BY <2>1
<1>5. V(N) = W
  OBVIOUS
<1>6. \E m \in W : \A y \in W : m >= y
  <2>1. Has(N)
    BY <1>4
  <2> HIDE DEF V, W
  <2> QED
    BY <1>5, <2>1
<1>7. W \subseteq Nat /\ \A n \in Hit : v[n] \in W
  OBVIOUS
<1> HIDE DEF W
<1>8. Max(W) \in W /\ \A y \in W : Max(W) >= y
  BY <1>6 DEF Max
<1>9. Max(W) \in Nat /\ \A n \in Hit : Max(W) >= v[n]
  BY <1>7, <1>8
<1> QED
  BY <1>9 DEF W

\* A tree as the timestamp oracle has it: red and black, its nodes single keys.
IsOracle(t) ==
    \E N \in Nat : /\ \E sub, bh : IsColored(N, t, sub, bh)
                   /\ \A n \in 1..N : t.nodes[n].end_key = t.nodes[n].start_key

\* A node of t has a read of k at v.
HasRead(t, k, v) ==
    \E n \in DOMAIN t.nodes : t.nodes[n].start_key = k /\ t.nodes[n].value = v

\* The oracle has no read when it is made.
LEMMA OracleEmpty ==
    IsOracle(EmptyTree)
<1> DEFINE E == EmptyTree
           sub == [n \in {NIL} |-> {}]
           bh == [n \in {NIL} |-> 0]
<1>1. E.nodes = <<>> /\ E.root = NIL /\ E = [nodes |-> E.nodes, root |-> NIL]
  BY DEF EmptyTree
<1>2. PICK N \in Nat : N = 0
  OBVIOUS
<1>3. 1..N = {} /\ DOMAIN E.nodes = {} /\ {} \cup {NIL} = {NIL}
  BY <1>1, <1>2
<1>4. E \in Trees(N)
  <2>1. E.nodes \in [1..N -> Node(N)]
    BY <1>1, <1>3
  <2>2. NIL \in 0..N
    BY <1>2 DEF NIL
  <2> HIDE DEF E
  <2> QED
    BY <1>1, <2>1, <2>2 DEF Trees
<1> HIDE DEF E
<1> DEFINE L == Kids(E, "left")
           R == Kids(E, "right")
           P == Parents(E)
           C == Colors(E)
<1>5. /\ L \in [{} -> {NIL}] /\ R \in [{} -> {NIL}] /\ P \in [{} -> {NIL}]
      /\ C \in [{} -> {"red", "black"}]
  BY <1>3 DEF Kids, Parents, Colors
<1> HIDE DEF L, R, P, C
<1>6. sub \in [{NIL} -> SUBSET {}] /\ sub[NIL] = {} /\ bh \in [{NIL} -> Nat] /\ bh[NIL] = 0
  OBVIOUS
<1> HIDE DEF sub, bh
<1>7. Shape({}, L, R, P, NIL, sub)
  <2>1. IsFiniteSet({})
    BY FS_EmptySet
  <2> QED
    BY <1>3, <1>5, <1>6, <2>1 DEF Shape
<1>8. Ordered({}, L, R, sub, OrderFrom(N, E, "left"))
  BY DEF Ordered
<1>9. WellColored({}, L, R, P, NIL, C, bh)
  BY <1>3, <1>5, <1>6 DEF WellColored, Heights, RedsApart
<1>10. Opposite("left") = "right"
  BY DEF Opposite
<1>11. IsColored(N, E, sub, bh)
  BY <1>1, <1>3, <1>4, <1>7, <1>8, <1>9, <1>10 DEF IsColored, IsOrdered, L, R, P, C
<1>12. IsOracle(E)
  BY <1>3, <1>11 DEF IsOracle
<1> QED
  BY <1>12 DEF E

\* The oracle's tree is a red-black tree.
LEMMA OracleRedBlack ==
    ASSUME NEW t, IsOracle(t)
    PROVE  IsRedBlack(t)
  BY RedBlackTree DEF IsOracle

\* add_read adds the read and keeps the ones it has.
LEMMA OracleInsert ==
    ASSUME NEW t, IsOracle(t), NEW k \in Nat, NEW v \in Nat,
           NEW r, r = InsertNode(t, k, k, v)
    PROVE  /\ IsOracle(r) /\ HasRead(r, k, v)
           /\ \A j, w : HasRead(t, j, w) => HasRead(r, j, w)
<1>1. PICK N \in Nat : /\ \E sub, bh : IsColored(N, t, sub, bh)
                       /\ \A n \in 1..N : t.nodes[n].end_key = t.nodes[n].start_key
  BY DEF IsOracle
<1>2. PICK sub, bh : IsColored(N, t, sub, bh)
  BY <1>1
<1>3. /\ \E sub2, bh2 : IsColored(N + 1, r, sub2, bh2)
      /\ \A n \in 1..N : SameData(r.nodes[n], t.nodes[n])
      /\ r.nodes[N + 1].start_key = k /\ r.nodes[N + 1].end_key = k
      /\ r.nodes[N + 1].value = v
  <2>1. Inserted(N, t, k, k, v, r)
    BY <1>2, InsertNodeFacts
  <2> QED
    BY Zenon, <2>1 DEF Inserted
<1>4. PICK sub2, bh2 : IsColored(N + 1, r, sub2, bh2)
  BY <1>3
<1>5. t \in Trees(N) /\ r \in Trees(N + 1)
  BY <1>2, <1>4 DEF IsColored, IsOrdered
<1>6. DOMAIN t.nodes = 1..N /\ DOMAIN r.nodes = 1..(N + 1)
  BY <1>5 DEF Trees
<1>7. \A n \in 1..N : /\ r.nodes[n].start_key = t.nodes[n].start_key
                      /\ r.nodes[n].end_key = t.nodes[n].end_key
                      /\ r.nodes[n].value = t.nodes[n].value
  BY <1>3 DEF SameData
<1>8. IsOracle(r)
  <2>1. \A n \in 1..(N + 1) : n \in 1..N \/ n = N + 1
    OBVIOUS
  <2>2. \A n \in 1..(N + 1) : r.nodes[n].end_key = r.nodes[n].start_key
    BY <1>1, <1>3, <1>7, <2>1
  <2>3. N + 1 \in Nat
    OBVIOUS
  <2> QED
    BY <1>3, <2>2, <2>3 DEF IsOracle
<1>9. HasRead(r, k, v)
  <2>1. N + 1 \in 1..(N + 1)
    OBVIOUS
  <2> QED
    BY <1>3, <1>6, <2>1 DEF HasRead
<1>10. ASSUME NEW j, NEW w, HasRead(t, j, w) PROVE HasRead(r, j, w)
  <2>1. PICK n \in 1..N : t.nodes[n].start_key = j /\ t.nodes[n].value = w
    BY <1>6, <1>10 DEF HasRead
  <2>2. n \in DOMAIN r.nodes
    BY <1>6
  <2> QED
    BY <1>7, <2>1, <2>2 DEF HasRead
<1> QED
  BY <1>8, <1>9, <1>10

\* get_max_timestamp of a key is the largest of its reads.
LEMMA OracleMax ==
    ASSUME NEW t, IsOracle(t), NEW k \in Nat
    PROVE  /\ GetMaxTimestamp(t, k, k) \in Nat
           /\ GetMaxTimestamp(t, k, k)
                 = Max({0} \cup {n.value : n \in {m \in Listed(t.nodes) :
                                                     m.start_key = k}})
           /\ \A v : HasRead(t, k, v) => GetMaxTimestamp(t, k, k) >= v
<1>1. PICK N \in Nat : /\ \E sub, bh : IsColored(N, t, sub, bh)
                       /\ \A n \in 1..N : t.nodes[n].end_key = t.nodes[n].start_key
  BY DEF IsOracle
<1>2. PICK sub, bh : IsColored(N, t, sub, bh)
  BY <1>1
<1>3. IsOrdered(N, t, "left", sub)
  BY <1>2 DEF IsColored
<1>4. t \in Trees(N)
  BY <1>3 DEF IsOrdered
<1>5. DOMAIN t.nodes = 1..N
  BY <1>4 DEF Trees
<1>6. \A n \in 1..N : t.nodes[n].start_key \in Nat /\ t.nodes[n].value \in Nat
  BY <1>3, LeftRight
<1> DEFINE found == GetOverlap(t, k, k)
           Hit == {n \in 1..N : t.nodes[n].start_key = k}
           val == [n \in 1..N |-> t.nodes[n].value]
<1>7. k <= k
  OBVIOUS
<1>8. Listed(found) = {n \in 1..N : Overlaps(t, k, k, n)}
  BY <1>3, <1>7, GetOverlapFacts
<1>9. GetMaxTimestamp(t, k, k)
         = Max({0} \cup {t.nodes[found[i]].value : i \in DOMAIN found})
  BY Zenon DEF GetMaxTimestamp
<1> HIDE DEF found
<1>10. \A n \in 1..N : Overlaps(t, k, k, n) <=> t.nodes[n].start_key = k
  BY <1>1, <1>6 DEF Overlaps, DoesRangeOverlap
<1>11. Listed(found) = Hit
  BY <1>8, <1>10
<1>12. val \in [1..N -> Nat] /\ \A n \in 1..N : val[n] = t.nodes[n].value
  BY <1>6
<1>13. Hit \in SUBSET (1..N)
  OBVIOUS
<1> HIDE DEF val, Hit
<1>14. {t.nodes[found[i]].value : i \in DOMAIN found} = {val[n] : n \in Hit}
  <2>1. \A i \in DOMAIN found : found[i] \in Hit
    BY <1>11 DEF Listed
  <2>2. \A n \in Hit : \E i \in DOMAIN found : n = found[i]
    BY <1>11 DEF Listed
  <2>3. \A n \in Hit : t.nodes[n].value = val[n]
    BY <1>12, <1>13
  <2>4. \A i \in DOMAIN found : t.nodes[found[i]].value = val[found[i]]
    BY <2>1, <2>3
  <2>5. \A x : (\E i \in DOMAIN found : x = t.nodes[found[i]].value)
                  <=> \E n \in Hit : x = val[n]
    <3>1. ASSUME NEW x, NEW i \in DOMAIN found, x = t.nodes[found[i]].value
          PROVE  \E n \in Hit : x = val[n]
      BY <2>1, <2>4, <3>1
    <3>2. ASSUME NEW n \in Hit PROVE \E i \in DOMAIN found : val[n] = t.nodes[found[i]].value
      BY <2>2, <2>4
    <3> QED
      BY <3>1, <3>2
  <2> QED
    BY Zenon, <2>5
<1>15. {n.value : n \in {m \in Listed(t.nodes) : m.start_key = k}} = {val[n] : n \in Hit}
  <2>1. ASSUME NEW x \in {m \in Listed(t.nodes) : m.start_key = k}
        PROVE  \E n \in Hit : x.value = val[n]
    <3>1. PICK n \in 1..N : x = t.nodes[n]
      BY <1>5 DEF Listed
    <3> QED
      BY <1>12, <3>1 DEF Hit
  <2>2. ASSUME NEW n \in Hit
        PROVE  \E x \in {m \in Listed(t.nodes) : m.start_key = k} : val[n] = x.value
    <3>1. n \in 1..N /\ t.nodes[n].start_key = k
      BY DEF Hit
    <3>2. t.nodes[n] \in Listed(t.nodes)
      BY <1>5, <3>1 DEF Listed
    <3> QED
      BY <1>12, <3>1, <3>2
  <2> QED
    BY <2>1, <2>2
<1>16. /\ Max({0} \cup {val[n] : n \in Hit}) \in Nat
       /\ \A m \in Hit : Max({0} \cup {val[n] : n \in Hit}) >= val[m]
  BY <1>12, <1>13, LargestValue
<1>17. GetMaxTimestamp(t, k, k) = Max({0} \cup {val[n] : n \in Hit})
  BY <1>9, <1>14
<1>18. ASSUME NEW v, HasRead(t, k, v) PROVE GetMaxTimestamp(t, k, k) >= v
  <2>1. PICK n \in 1..N : t.nodes[n].start_key = k /\ t.nodes[n].value = v
    BY <1>5, <1>18 DEF HasRead
  <2>2. n \in Hit /\ val[n] = v
    BY <1>12, <2>1 DEF Hit
  <2> QED
    BY <1>16, <1>17, <2>2
<1> QED
  BY <1>15, <1>16, <1>17, <1>18

\* r has the reads that t has.
KeepsReads(t, r) == \A k, v : HasRead(t, k, v) => HasRead(r, k, v)

\* The oracle after one more read.
WithRead(t, k, v) == InsertNode(t, k, k, v)

\* f[i] has what o has, and reads at v of those of the first i keys of ks whose
\* index is in Q, added one by one.
AddsReads(n, o, Q, ks, v, f) ==
    f = [i \in 0..n |-> IF i = 0 THEN o
                        ELSE IF i \in Q THEN WithRead(f[i - 1], ks[i], v)
                        ELSE f[i - 1]]

\* Reads can be added one by one.
LEMMA AddsReadsExists ==
    ASSUME NEW n \in Nat, NEW o, IsOracle(o), NEW Q, NEW ks \in [1..n -> Nat],
           NEW v \in Nat
    PROVE  \E f : AddsReads(n, o, Q, ks, v, f)
<1> DEFINE T == {t \in UNION {Trees(N) : N \in Nat} : IsOracle(t)}
           next == [q \in T \X (1..n) |->
                       IF q[2] \in Q THEN WithRead(q[1], ks[q[2]], v) ELSE q[1]]
<1>1. ASSUME NEW t, IsOracle(t) PROVE t \in T
  <2>1. PICK N \in Nat : \E sub, bh : IsColored(N, t, sub, bh)
    BY <1>1 DEF IsOracle
  <2>2. t \in Trees(N)
    BY <2>1 DEF IsColored, IsOrdered
  <2> QED
    BY <1>1, <2>2
<1>2. \A t \in T : IsOracle(t)
  OBVIOUS
<1> HIDE DEF T
<1>3. ASSUME NEW t \in T, NEW i \in 1..n PROVE WithRead(t, ks[i], v) \in T
  <2>1. IsOracle(t) /\ ks[i] \in Nat
    BY <1>2
  <2>2. IsOracle(WithRead(t, ks[i], v))
    BY <2>1, OracleInsert DEF WithRead
  <2> QED
    BY <1>1, <2>2
<1>4. /\ next \in [T \X (1..n) -> T]
      /\ \A t \in T : \A i \in 1..n :
            next[<<t, i>>] = IF i \in Q THEN WithRead(t, ks[i], v) ELSE t
  BY <1>3
<1> HIDE DEF next
<1>5. PICK f \in [0..n -> T] :
          f[0] = o /\ \A i \in 1..n : f[i] = next[<<f[i - 1], i>>]
  <2>1. o \in T
    BY <1>1
  <2>2. next \in [T \X (1..n) -> T]
    BY <1>4
  <2>3. PICK f : IsByCounting(n, T, o, next, f)
    BY <2>1, <2>2, FunctionByCounting
  <2> QED
    BY <2>3 DEF IsByCounting
<1>6. \A i \in 1..n :
         f[i] = IF i \in Q THEN WithRead(f[i - 1], ks[i], v) ELSE f[i - 1]
  <2>1. \A i \in 1..n : i - 1 \in 0..n
    OBVIOUS
  <2> QED
    BY <1>4, <1>5, <2>1
<1>7. \A i \in 0..n : i = 0 \/ i \in 1..n
  OBVIOUS
<1>8. \A i \in 0..n :
         f[i] = IF i = 0 THEN o
                ELSE IF i \in Q THEN WithRead(f[i - 1], ks[i], v) ELSE f[i - 1]
  BY <1>5, <1>6, <1>7
<1>9. f = [i \in 0..n |-> f[i]]
  BY <1>5
<1> QED
  BY <1>8, <1>9 DEF AddsReads

\* The reads are there in the end, and those that were there before.
HasAdded(n, o, Q, ks, v, r) ==
    /\ IsOracle(r) /\ KeepsReads(o, r)
    /\ \A j \in 1..n : j \in Q => HasRead(r, ks[j], v)

\* Adding reads one by one adds them all.
LEMMA AddsReadsFacts ==
    ASSUME NEW n \in Nat, NEW o, IsOracle(o), NEW Q, NEW ks \in [1..n -> Nat],
           NEW v \in Nat, NEW f, AddsReads(n, o, Q, ks, v, f)
    PROVE  HasAdded(n, o, Q, ks, v, f[n])
<1> DEFINE G == {i \in 0..n : HasAdded(i, o, Q, ks, v, f[i])}
<1>1. f[0] = o
  BY DEF AddsReads
<1>2. \A i \in 1..n : i \in 0..n /\ i # 0
  OBVIOUS
<1>3. \A i \in 1..n :
         f[i] = IF i \in Q THEN WithRead(f[i - 1], ks[i], v) ELSE f[i - 1]
  BY <1>2 DEF AddsReads
<1>4. 0 \in G
  <2>1. \A j \in 1..0 : FALSE
    OBVIOUS
  <2>2. HasAdded(0, o, Q, ks, v, f[0])
    BY <1>1, <2>1 DEF HasAdded, KeepsReads
  <2> QED
    BY <2>2
<1>5. ASSUME NEW i \in 1..n, i - 1 \in G PROVE i \in G
  <2>1. HasAdded(i - 1, o, Q, ks, v, f[i - 1])
    BY <1>5
  <2> DEFINE r == f[i - 1]
             s == WithRead(r, ks[i], v)
  <2>2. /\ IsOracle(r) /\ KeepsReads(o, r)
        /\ \A j \in 1..(i - 1) : j \in Q => HasRead(r, ks[j], v)
    BY <2>1 DEF HasAdded
  <2>3. \A j \in 1..i : j \in 1..(i - 1) \/ j = i
    OBVIOUS
  <2>4. CASE i \in Q
    <3>1. ks[i] \in Nat
      OBVIOUS
    <3>2. IsOracle(s) /\ HasRead(s, ks[i], v)
      BY <2>2, <3>1, OracleInsert DEF WithRead
    <3>3. KeepsReads(r, s)
      BY <2>2, <3>1, OracleInsert DEF WithRead, KeepsReads
    <3> HIDE DEF r, s
    <3>4. HasAdded(i, o, Q, ks, v, s)
      BY <2>2, <2>3, <3>2, <3>3 DEF HasAdded, KeepsReads
    <3>5. f[i] = s
      BY <1>3, <2>4 DEF r, s
    <3> QED
      BY <1>2, <3>4, <3>5
  <2>5. CASE i \notin Q
    <3>1. f[i] = r
      BY <1>3, <2>5
    <3> HIDE DEF r, s
    <3>2. HasAdded(i, o, Q, ks, v, r)
      BY <2>2, <2>3, <2>5 DEF HasAdded
    <3> QED
      BY <1>2, <3>1, <3>2
  <2> QED
    BY <2>4, <2>5
<1>6. n \in G
  <2> HIDE DEF G
  <2>1. \A i \in 0..n : i \in G
    BY <1>4, <1>5, CountingUp
  <2> QED
    BY <2>1
<1> QED
  BY <1>6

\* A finite set of numbers has a largest one.
LEMMA LargestNumber ==
    ASSUME NEW S \in SUBSET Nat, S # {}, IsFiniteSet(S)
    PROVE  Max(S) \in S /\ Max(S) \in Nat /\ \A y \in S : Max(S) >= y
<1> DEFINE F == {{y \in S : y > x} : x \in S}
<1>1. F \in SUBSET FiniteSubsetsOf(S) /\ F # {}
  <2>1. \A T \in SUBSET S : IsFiniteSet(T)
    BY FS_Subset
  <2> QED
    BY <2>1 DEF FiniteSubsetsOf
<1>2. PICK T \in F : \A U \in F : U \subseteq T => U = T
  <2> HIDE DEF F
  <2> QED
    BY <1>1, SmallestSet
<1>3. PICK x \in S : T = {y \in S : y > x}
  OBVIOUS
<1>4. \A y \in S : x >= y
  <2>0. SUFFICES ASSUME NEW y \in S, y > x PROVE FALSE
    OBVIOUS
  <2> DEFINE U == {z \in S : z > y}
  <2>1. U \in F
    OBVIOUS
  <2>2. U \subseteq T /\ y \in T /\ y \notin U
    <3>1. x \in Nat /\ y \in Nat /\ \A z \in S : z \in Nat
      OBVIOUS
    <3>2. \A z \in S : z > y => z > x
      BY <2>0, <3>1
    <3>3. ~(y > y)
      BY <3>1
    <3> HIDE DEF F
    <3> QED
      BY <1>3, <2>0, <3>2, <3>3
  <2> QED
    BY <1>2, <2>1, <2>2
<1>5. \E m \in S : \A y \in S : m >= y
  BY <1>4
<1> QED
  BY <1>5 DEF Max
=============================================================================
