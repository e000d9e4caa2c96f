----------------------------- MODULE QueueProofs -----------------------------
(***************************************************************************)
(* What joining, leaving and heading a queue does to the set of its        *)
(* members, for queues in which nobody is twice.                           *)
(***************************************************************************)
EXTENDS Queues, SequenceTheorems, TLAPS

\* A guard joins a queue that it is not in.
LEMMA AppendFacts ==
    ASSUME NEW S, NEW s \in Seq(S), NEW g \in S
    PROVE  /\ Range(Append(s, g)) = Range(s) \cup {g}
           /\ IsInjective(s) /\ g \notin Range(s) => IsInjective(Append(s, g))
<1> DEFINE w == Append(s, g)
<1>1. /\ w \in Seq(S) /\ Len(w) = Len(s) + 1 /\ w[Len(s) + 1] = g
      /\ \A i \in 1..Len(s) : w[i] = s[i]
  BY AppendProperties
<1> HIDE DEF w
<1>2. Range(w) = Range(s) \cup {g}
  <2>1. \A i \in 1..Len(w) : w[i] \in Range(s) \cup {g}
    BY <1>1 DEF Range
  <2>2. \A i \in 1..Len(s) : i \in 1..Len(w) /\ w[i] = s[i]
    BY <1>1
  <2>3. Len(s) + 1 \in 1..Len(w)
    BY <1>1
  <2> QED
    BY <1>1, <2>1, <2>2, <2>3 DEF Range
<1>3. IsInjective(s) /\ g \notin Range(s) => IsInjective(w)
  BY <1>1 DEF IsInjective, Range
<1> QED
  BY <1>2, <1>3 DEF w

\* The first of a queue leaves it.
LEMMA HeadTailFacts ==
    ASSUME NEW S, NEW s \in Seq(S), s # <<>>
    PROVE  /\ Head(s) \in S /\ Tail(s) \in Seq(S)
           /\ Range(s) = {Head(s)} \cup Range(Tail(s))
           /\ IsInjective(s) =>
                 IsInjective(Tail(s)) /\ Head(s) \notin Range(Tail(s))
<1> DEFINE w == Tail(s)
<1>1. /\ Head(s) \in S /\ w \in Seq(S) /\ Len(w) = Len(s) - 1
      /\ \A i \in 1..Len(w) : w[i] = s[i + 1]
      /\ Head(s) = s[1] /\ Len(s) \in Nat \ {0}
  BY HeadTailProperties, EmptySeq
<1> HIDE DEF w
<1>2. Range(s) = {s[1]} \cup Range(w)
  <2>1. ASSUME NEW i \in 1..Len(s) PROVE s[i] \in {s[1]} \cup Range(w)
    <3>1. CASE i = 1
      BY <3>1
    <3>2. CASE i # 1
      <4>1. i - 1 \in 1..Len(w) /\ w[i - 1] = s[i]
        BY <1>1, <3>2
      <4> QED
        BY <1>1, <4>1 DEF Range
    <3> QED
      BY <3>1, <3>2
  <2>2. \A i \in 1..Len(w) : i + 1 \in 1..Len(s) /\ w[i] = s[i + 1]
    BY <1>1
  <2>3. 1 \in 1..Len(s)
    BY <1>1
  <2>4. DOMAIN s = 1..Len(s) /\ DOMAIN w = 1..Len(w)
    BY <1>1
  <2>5. Range(s) \subseteq {s[1]} \cup Range(w)
    BY <2>1, <2>4 DEF Range
  <2>6. Range(w) \subseteq Range(s)
    BY <2>2, <2>4 DEF Range
  <2>7. s[1] \in Range(s)
    BY <2>3, <2>4 DEF Range
  <2> QED
    BY <2>5, <2>6, <2>7
<1>3. IsInjective(s) => IsInjective(w) /\ s[1] \notin Range(w)
  <2>1. \A i \in 1..Len(w) : i + 1 \in 1..Len(s) /\ i + 1 # 1 /\ w[i] = s[i + 1]
    BY <1>1
  <2>2. 1 \in 1..Len(s)
    BY <1>1
  <2>3. ASSUME IsInjective(s), s[1] \in Range(w)
        PROVE  FALSE
    <3>1. PICK i \in 1..Len(w) : w[i] = s[1]
      BY <1>1, <2>3 DEF Range
    <3>2. s[i + 1] = s[1] /\ i + 1 \in 1..Len(s) /\ i + 1 # 1
      BY <2>1, <3>1
    <3> QED
      BY <1>1, <2>2, <2>3, <3>2 DEF IsInjective
  <2>4. ASSUME IsInjective(s), NEW i \in 1..Len(w), NEW j \in 1..Len(w),
               w[i] = w[j]
        PROVE  i = j
    <3>1. i + 1 = j + 1
      BY <2>1, <2>4 DEF IsInjective
    <3> QED
      BY <3>1
  <2> QED
    BY <1>1, <2>3, <2>4 DEF IsInjective
<1> QED
  BY <1>1, <1>2, <1>3 DEF w

\* A guard leaves a queue: it is gone, the others stay, nobody is there twice.
LEMMA WithoutFacts ==
    ASSUME NEW S, NEW s \in Seq(S), NEW g, IsInjective(s)
    PROVE  /\ Without(s, g) \in Seq(S)
           /\ IsInjective(Without(s, g))
           /\ Range(Without(s, g)) = Range(s) \ {g}
<1> DEFINE i == CHOOSE j \in DOMAIN s : s[j] = g
           l == SubSeq(s, 1, i - 1)
           r == SubSeq(s, i + 1, Len(s))
           w == l \o r
<1>1. CASE g \notin Range(s)
  BY <1>1 DEF Without
<1>2. CASE g \in Range(s)
  <2>1. i \in 1..Len(s) /\ s[i] = g
    BY <1>2 DEF Range
  <2> HIDE DEF i
  <2>2. \A j \in 1..Len(s) : s[j] = g => j = i
    BY <2>1 DEF IsInjective
  <2>3. /\ l \in Seq(S) /\ Len(l) = i - 1
        /\ \A j \in 1..(i-1) : l[j] = s[j]
    BY <2>1, SubSeqProperties
  <2>4. /\ r \in Seq(S) /\ Len(r) = Len(s) - i
        /\ \A j \in 1..(Len(s) - i) : r[j] = s[i + j]
    BY <2>1, SubSeqProperties
  <2> HIDE DEF l, r
  <2>5. /\ w \in Seq(S) /\ Len(w) = Len(s) - 1
        /\ \A j \in 1..Len(w) : w[j] = s[IF j < i THEN j ELSE j + 1]
    <3>1. /\ w \in Seq(S) /\ Len(w) = Len(l) + Len(r)
          /\ \A j \in 1..(Len(l) + Len(r)) :
                w[j] = IF j <= Len(l) THEN l[j] ELSE r[j - Len(l)]
      BY <2>3, <2>4, ConcatProperties
    <3> HIDE DEF w
    <3>2. Len(w) = Len(s) - 1 /\ Len(s) \in Nat /\ Len(l) + Len(r) = Len(s) - 1
      BY <3>1, <2>1, <2>3, <2>4
    <3>3. ASSUME NEW j \in 1..(Len(s) - 1), j < i PROVE w[j] = s[j]
      BY <3>1, <3>2, <3>3, <2>1, <2>3
    <3>4. ASSUME NEW j \in 1..(Len(s) - 1), ~(j < i) PROVE w[j] = s[j + 1]
      <4>1. w[j] = r[j - Len(l)]
         BY <3>1, <3>2, <3>4, <2>1, <2>3
      <4>2. j - Len(l) \in 1..(Len(s) - i) /\ i + (j - Len(l)) = j + 1
         BY <3>4, <3>2, <2>1, <2>3
      <4> QED
        BY <4>1, <4>2, <2>4
    <3> QED
      BY <3>1, <3>2, <3>3, <3>4
  <2>6. Without(s,g) = w
    BY <1>2 DEF Without, i, l, r
  <2> HIDE DEF w
  <2>7. IsInjective(w)
    <3> SUFFICES ASSUME NEW a \in 1..Len(w), NEW b \in 1..Len(w), w[a] = w[b]
                 PROVE  a = b
      BY <2>5 DEF IsInjective
    <3> DEFINE p(j) == IF j < i THEN j ELSE j + 1
    <3>1. p(a) \in 1..Len(s) /\ p(b) \in 1..Len(s)
      BY <2>1, <2>5
    <3>2. s[p(a)] = s[p(b)]
      BY <2>5
    <3>3. p(a) = p(b)
      BY <3>1, <3>2 DEF IsInjective
    <3> QED
      BY <3>3, <2>1, <2>5
  <2>8. Range(w) \subseteq Range(s) \ {g}
    <3> SUFFICES ASSUME NEW a \in 1..Len(w) PROVE w[a] \in Range(s) \ {g}
      BY <2>5 DEF Range
    <3>1. (IF a < i THEN a ELSE a + 1) \in 1..Len(s) \ {i}
      BY <2>1, <2>5
    <3> QED
      BY <3>1, <2>2, <2>5 DEF Range
  <2>9. Range(s) \ {g} \subseteq Range(w)
    <3> SUFFICES ASSUME NEW j \in 1..Len(s), s[j] # g
                 PROVE  \E m \in 1..Len(w) : w[m] = s[j]
      BY <2>5 DEF Range
    <3>1. CASE j < i
      BY <3>1, <2>1, <2>5
    <3>2. CASE j > i
      <4>1. j - 1 \in 1..Len(w) /\ w[j-1] = s[j]
         BY <3>2, <2>1, <2>5
      <4> QED
        BY <4>1
    <3> QED
      BY <3>1, <3>2, <2>1
  <2> QED
    BY <2>5, <2>6, <2>7, <2>8, <2>9
<1> QED
  BY <1>1, <1>2
=============================================================================
