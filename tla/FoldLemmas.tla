----------------------------- MODULE FoldLemmas -----------------------------
(***************************************************************************)
(* What the proofs about loops rest on.  The program's loops over slices    *)
(* and arrays are folds of the community modules here, whose definition is  *)
(* a CHOOSE of a recursive function; this module shows that the function    *)
(* exists, for any operator Op, and derives induction along a fold.  A      *)
(* proof module instantiates it with the body of a loop; c stands for what  *)
(* the body reads and does not change.  Induction over numbers is stated    *)
(* on sets, for no prover here instantiates a schema.                       *)
(***************************************************************************)
EXTENDS Integers, SequencesExt, FiniteSetTheorems, WellFoundedInduction, TLAPS

CONSTANT Op(_, _, _)    \* the body: context, value so far, element

\* The loop over seq from the value base.
Fold(c, base, seq) == FoldLeft(LAMBDA v, x : Op(c, v, x), base, seq)

\* Every non-empty set of natural numbers has a least element.
LEMMA LeastNat ==
    ASSUME NEW T \in SUBSET Nat, T # {}
    PROVE  \E x \in T : \A y \in T : x <= y
<1>1. PICK x \in T : \A y \in T : ~(<<y, x>> \in OpToRel(<, Nat))
  BY NatLessThanWellFounded, WFMin
<1>2. \A y \in T : ~(y < x)
  BY <1>1 DEF OpToRel
<1> QED BY <1>2

\* Induction, on the set of the numbers that have a property.
LEMMA Induction ==
    ASSUME NEW n \in Nat, NEW T, 0 \in T, \A k \in 1 .. n : k - 1 \in T => k \in T
    PROVE  \A k \in 0 .. n : k \in T
<1> DEFINE U == {k \in 0 .. n : k \notin T}
<1> SUFFICES ASSUME U # {} PROVE FALSE
  OBVIOUS
<1>0. U \in SUBSET Nat
  OBVIOUS
<1>1. PICK x \in U : \A y \in U : x <= y
  <2> HIDE DEF U
  <2> QED BY LeastNat, <1>0
<1> QED BY <1>1

\* Max is the greatest element of a finite set of numbers.
LEMMA Greatest ==
    ASSUME NEW n \in Nat, NEW S \in SUBSET (0 .. n), S # {}
    PROVE  Max(S) \in S /\ \A y \in S : Max(S) >= y
<1> DEFINE U == {m \in Nat : \A y \in S : m >= y}
<1>1. n \in U
  OBVIOUS
<1>2. PICK m \in U : \A y \in U : m <= y
  <2>1. U \in SUBSET Nat
    OBVIOUS
  <2> HIDE DEF U
  <2> QED  BY <2>1, <1>1, LeastNat
<1>3. m \in S
  <2> SUFFICES ASSUME m \notin S PROVE FALSE
    OBVIOUS
  <2>1. PICK z \in S : TRUE
    OBVIOUS
  <2>2. \A y \in S : m >= y /\ m # y /\ y \in Nat /\ m \in Nat
    OBVIOUS
  <2>3. m - 1 \in Nat
    BY <2>1, <2>2
  <2>4. \A y \in S : m - 1 >= y
    BY <2>2
  <2> QED BY <2>3, <2>4, <1>2
<1> QED BY <1>2, <1>3 DEF Max

\* A fold takes the last position of a range off it.
LEMMA GreatestOfRange ==
    ASSUME NEW n \in Nat, n # 0
    PROVE  Max(1 .. n) = n /\ (1 .. n) \ {n} = 1 .. (n - 1)
<1>1. Max(1 .. n) \in 1 .. n /\ \A y \in 1 .. n : Max(1 .. n) >= y
  <2>1. 1 .. n \in SUBSET (0 .. n) /\ 1 .. n # {}
    OBVIOUS
  <2> QED BY <2>1, Greatest
<1> QED BY <1>1

\* The values of a fold over n elements stay in V.
Closed(c, V, n, seq) == \A v \in V, k \in 1 .. n : Op(c, v, seq[k]) \in V

\* acc holds the value of the fold after each of n elements.
Trace(c, V, base, n, seq, acc) ==
    /\ acc \in [0 .. n -> V]
    /\ acc[0] = base
    /\ \A k \in 1 .. n : acc[k] = Op(c, acc[k - 1], seq[k])
    /\ Fold(c, base, seq) = acc[n]

\* A fold has a trace.
LEMMA FoldTrace ==
    ASSUME NEW c, NEW V, NEW base \in V, NEW n \in Nat, NEW seq, DOMAIN seq = 1 .. n,
           Closed(c, V, n, seq)
    PROVE  \E acc : Trace(c, V, base, n, seq, acc)
<1>0. \A v \in V, k \in 1 .. n : Op(c, v, seq[k]) \in V
  BY DEF Closed
<1> DEFINE Eq(m, g) == g = [s \in SUBSET (1 .. m) |->
                           IF s = {} THEN base ELSE Op(c, g[s \ {Max(s)}], seq[Max(s)])]
           T == {m \in 0 .. n : \E g \in [SUBSET (1 .. m) -> V] : Eq(m, g)}
<1>1. 0 \in T
  <2> DEFINE g == [s \in SUBSET (1 .. 0) |-> base]
  <2>1. g \in [SUBSET (1 .. 0) -> V]
    OBVIOUS
  <2>2. Eq(0, g)
    <3>1. \A s \in SUBSET (1 .. 0) : s = {}
      OBVIOUS
    <3> QED BY <3>1
  <2> QED BY <2>1, <2>2
<1>2. ASSUME NEW m \in 1 .. n, m - 1 \in T
      PROVE  m \in T
  <2>1. PICK g \in [SUBSET (1 .. (m - 1)) -> V] : Eq(m - 1, g)
    BY <1>2
  <2> DEFINE h == [s \in SUBSET (1 .. m) |-> IF m \in s THEN Op(c, g[s \ {m}], seq[m]) ELSE g[s]]
  <2>2. ASSUME NEW s \in SUBSET (1 .. m)
        PROVE  /\ m \in s => s # {} /\ Max(s) = m /\ s \ {m} \in SUBSET (1 .. (m - 1))
               /\ m \notin s => s \in SUBSET (1 .. (m - 1))
    <3>1. CASE m \in s
      <4>1. s \in SUBSET (0 .. m) /\ s # {}
        BY <3>1
      <4>2. Max(s) \in s /\ \A y \in s : Max(s) >= y
        <5> HIDE DEF h, T
        <5>1. m \in Nat
          OBVIOUS
        <5> QED BY <4>1, <5>1, Greatest
      <4>3. Max(s) \in 1 .. m /\ Max(s) >= m
        BY <3>1, <4>2
      <4>4. Max(s) = m
        BY <4>3
      <4>5. s \ {m} \in SUBSET (1 .. (m - 1))
        OBVIOUS
      <4> QED BY <3>1, <4>1, <4>4, <4>5
    <3>2. CASE m \notin s
      BY <3>2
    <3> QED BY <3>1, <3>2
  <2>3. ASSUME NEW s \in SUBSET (1 .. (m - 1)), s # {}
        PROVE  Max(s) \in s /\ s \ {Max(s)} \in SUBSET (1 .. (m - 1))
    <3> HIDE DEF h, T
    <3>1. s \in SUBSET (0 .. m) /\ m \in Nat
      OBVIOUS
    <3>2. Max(s) \in s
      BY <3>1, <2>3, Greatest
    <3> QED BY <3>2
  <2>4. h \in [SUBSET (1 .. m) -> V]
    BY <2>2, <1>0
  <2>5. Eq(m, h)
    <3>1. ASSUME NEW s \in SUBSET (1 .. m)
          PROVE  h[s] = IF s = {} THEN base ELSE Op(c, h[s \ {Max(s)}], seq[Max(s)])
      <4>1. CASE m \in s
        <5>1. s \ {m} \in SUBSET (1 .. m) /\ m \notin s \ {m}
          OBVIOUS
        <5>2. h[s \ {m}] = g[s \ {m}]
          BY <5>1
        <5> QED BY <4>1, <5>2, <2>2
      <4>2. CASE m \notin s
        <5>1. s \in SUBSET (1 .. (m - 1)) /\ h[s] = g[s]
          BY <4>2, <2>2
        <5>2. g[s] = IF s = {} THEN base ELSE Op(c, g[s \ {Max(s)}], seq[Max(s)])
          BY <5>1, <2>1
        <5>3. CASE s = {}
          BY <5>1, <5>2, <5>3
        <5>4. CASE s # {}
          <6>1. s \ {Max(s)} \in SUBSET (1 .. m) /\ m \notin s \ {Max(s)}
            BY <5>1, <5>4, <2>3
          <6>2. h[s \ {Max(s)}] = g[s \ {Max(s)}]
            BY <6>1
          <6> QED BY <5>1, <5>2, <5>4, <6>2
        <5> QED BY <5>3, <5>4
      <4> QED BY <4>1, <4>2
    <3> HIDE DEF h
    <3>2. h = [s \in SUBSET (1 .. m) |-> h[s]]
      BY <2>4
    <3> QED BY <3>1, <3>2
  <2> HIDE DEF h
  <2>6. \E f \in [SUBSET (1 .. m) -> V] : Eq(m, f)
    <3> HIDE DEF Eq
    <3> QED BY <2>4, <2>5
  <2>7. m \in 0 .. n
    OBVIOUS
  <2> HIDE DEF Eq
  <2> QED BY <2>6, <2>7
<1>3. n \in T
  <2> HIDE DEF T
  <2>1. \A k \in 1 .. n : k - 1 \in T => k \in T
    BY <1>2
  <2>2. \A k \in 0 .. n : k \in T
    BY <1>1, <2>1, Induction
  <2> QED BY <2>2
<1>4. PICK it : /\ Eq(n, it)
                /\ Fold(c, base, seq) = it[1 .. n]
  <2> DEFINE it == CHOOSE g : Eq(n, g)
  <2>1. Eq(n, it)
    BY <1>3, Zenon
  <2>2. Fold(c, base, seq) = it[1 .. n]
    BY Zenon DEF Fold, FoldLeft, MapThenFoldSet
  <2> QED BY <2>1, <2>2
<1> DEFINE acc == [k \in 0 .. n |-> it[1 .. k]]
<1>5. acc[0] = base
  <2>1. acc[0] = it[1 .. 0] /\ 1 .. 0 = {} /\ 1 .. 0 \in SUBSET (1 .. n)
    OBVIOUS
  <2> QED BY <2>1, <1>4
<1>6. ASSUME NEW k \in 1 .. n
      PROVE  acc[k] = Op(c, acc[k - 1], seq[k])
  <2>1. acc[k] = it[1 .. k] /\ acc[k - 1] = it[1 .. (k - 1)]
    OBVIOUS
  <2>2. 1 .. k \in SUBSET (1 .. n) /\ 1 .. k # {}
    <3>1. k \in 1 .. k
      OBVIOUS
    <3>2. 1 .. k \subseteq 1 .. n
      OBVIOUS
    <3> QED BY <3>1, <3>2
  <2>3. it[1 .. k] = Op(c, it[(1 .. k) \ {Max(1 .. k)}], seq[Max(1 .. k)])
    BY <2>2, <1>4
  <2>4. Max(1 .. k) = k /\ (1 .. k) \ {k} = 1 .. (k - 1)
    BY GreatestOfRange
  <2> QED BY <2>1, <2>3, <2>4
<1>7. \A k \in 0 .. n : acc[k] \in V
  <2> DEFINE W == {k \in 0 .. n : acc[k] \in V}
  <2>1. 0 \in W
    BY <1>5
  <2>2. \A k \in 1 .. n : k - 1 \in W => k \in W
    <3> HIDE DEF acc
    <3> QED BY <1>6, <1>0
  <2>3. \A k \in 0 .. n : k \in W
    <3> HIDE DEF W
    <3> QED BY <2>1, <2>2, Induction
  <2> QED BY <2>3
<1>8. acc \in [0 .. n -> V]
  BY <1>7
<1>9. acc[n] = Fold(c, base, seq)
  <2>1. acc[n] = it[1 .. n]
    OBVIOUS
  <2> HIDE DEF acc
  <2> QED BY <2>1, <1>4
<1> HIDE DEF acc
<1> QED BY <1>5, <1>6, <1>8, <1>9 DEF Trace

\* J, pairs of a position and a value, holds before the first element, and is kept by each.
Inductive(c, V, base, seq, J) ==
    /\ <<0, base>> \in J
    /\ \A k \in 1 .. Len(seq), v \in V : <<k - 1, v>> \in J => <<k, Op(c, v, seq[k])>> \in J

\* Induction along a fold.
LEMMA FoldInduction ==
    ASSUME NEW c, NEW V, NEW base \in V, NEW S, NEW seq \in Seq(S), Closed(c, V, Len(seq), seq),
           NEW J, Inductive(c, V, base, seq, J)
    PROVE  Fold(c, base, seq) \in V /\ <<Len(seq), Fold(c, base, seq)>> \in J
<1> DEFINE n == Len(seq)
<1>1. n \in Nat /\ DOMAIN seq = 1 .. n
  OBVIOUS
<1>2. Closed(c, V, n, seq)
  OBVIOUS
<1> HIDE DEF n
<1>3. PICK acc : Trace(c, V, base, n, seq, acc)
  BY <1>1, <1>2, FoldTrace
<1> USE DEF Trace
<1> DEFINE T == {k \in 0 .. n : <<k, acc[k]>> \in J}
<1>4. 0 \in T
  BY <1>1, <1>3 DEF Inductive
<1>5. \A k \in 1 .. n : k - 1 \in T => k \in T
  <2> SUFFICES ASSUME NEW k \in 1 .. n, k - 1 \in T PROVE k \in T
    OBVIOUS
  <2>1. acc[k - 1] \in V /\ <<k - 1, acc[k - 1]>> \in J /\ k \in 0 .. n
    BY <1>1, <1>3
  <2>2. <<k, Op(c, acc[k - 1], seq[k])>> \in J
    BY <2>1 DEF Inductive, n
  <2> QED BY <2>1, <2>2, <1>3
<1> HIDE DEF T
<1>6. n \in T
  <2>1. \A k \in 0 .. n : k \in T
    BY <1>1, <1>4, <1>5, Induction
  <2> QED BY <1>1, <2>1
<1> QED BY <1>1, <1>3, <1>6 DEF T, n

-----------------------------------------------------------------------------
\* What append does to the elements of a sequence and to their being different.
LEMMA AppendFacts ==
   ASSUME NEW S, NEW s \in Seq(S), NEW v \in S
   PROVE /\ Append(s,v) \in Seq(S)
         /\ ToSet(Append(s, v)) = ToSet(s) \cup {v}
         /\ IsInjective(s) /\ v \notin ToSet(s) => IsInjective(Append(s,v))
<1> DEFINE a == Append(s, v)
<1>1. /\ a \in Seq(S) /\ Len(s) \in Nat /\ Len(a) = Len(s) + 1 /\ DOMAIN s = 1 .. Len(s) /\ DOMAIN a = 1 .. Len(a)
      /\ \A i \in 1 .. Len(s) : a[i] = s[i] 
      /\ a[Len(s) + 1] = v
  OBVIOUS
<1> HIDE DEF a
<1>2. ToSet(a) = ToSet(s) \cup {v}
  <2>1. \A x \in ToSet(a) : x \in ToSet(s) \cup {v}
    <3> SUFFICES ASSUME NEW i \in 1 .. Len(a) PROVE a[i] \in ToSet(s) \cup {v}
      BY <1>1 DEF ToSet
    <3>1. i \in 1 .. Len(s) \/ i = Len(s) + 1
      BY <1>1
    <3> QED BY <1>1, <3>1 DEF ToSet
  <2>2. \A x \in ToSet(s) : x \in ToSet(a)
    <3> SUFFICES ASSUME NEW i \in 1 .. Len(s) PROVE s[i] \in ToSet(a)
      BY <1>1 DEF ToSet
    <3>1. i \in 1 .. Len(a)
      BY <1>1
    <3> QED BY <1>1, <3>1 DEF ToSet
  <2>3. v \in ToSet(a)
    <3>1. Len(s) + 1 \in 1 .. Len(a)
      BY <1>1
    <3> QED BY <1>1, <3>1 DEF ToSet
  <2> QED BY <2>1, <2>2, <2>3
<1>3. ASSUME IsInjective(s), v \notin ToSet(s)
      PROVE IsInjective(a)
  <2> SUFFICES ASSUME NEW i \in 1 .. Len(a), NEW j \in 1 .. Len(a), a[i] = a[j]
               PROVE i = j
    BY <1>1 DEF IsInjective
  <2>1. i \in 1 .. Len(s) \/ i = Len(s) + 1
    BY <1>1
  <2>2. j \in 1 .. Len(s) \/ j = Len(s) + 1
    BY <1>1
  <2> QED BY <1>1, <1>3, <2>1, <2>2 DEF ToSet, IsInjective
<1> QED BY <1>1, <1>2, <1>3 DEF a

\* The elements of a prefix grow by one with its length.
LEMMA PrefixGrows ==
    ASSUME NEW s, NEW k \in Nat \ {0}
    PROVE  {s[i] : i \in 1 .. k} = {s[i] : i \in 1 .. (k - 1)} \cup {s[k]}
<1>1. 1 .. k = (1 .. (k - 1)) \cup {k}
  OBVIOUS
<1> QED BY <1>1

\* r is s with e behind its first k elements.
Inserted(S, s, k, e, r) ==
    /\ r \in Seq(S) /\ Len(r) = Len(s) + 1
    /\ \A i \in 1 .. Len(s) + 1 : r[i] = IF i <= k THEN s[i] ELSE IF i = k + 1 THEN e ELSE s[i - 1]

\* The elements of s are in order of their keys.
SortedBy(key, s) == \A i, j \in 1 .. Len(s) : i < j => key[s[i]] <= key[s[j]]

\* What InsertAt returns.
LEMMA InsertFacts ==
    ASSUME NEW S, NEW s \in Seq(S), NEW e \in S, NEW k \in 0 .. Len(s)
    PROVE  Inserted(S, s, k, e, InsertAt(s, 1 + k, e))
<1> DEFINE a == SubSeq(s, 1, k)
           b == SubSeq(s, k + 1, Len(s))
           r == a \o <<e>> \o b
<1>0. k \in Nat /\ Len(s) \in Nat /\ k <= Len(s)
  OBVIOUS
<1>1. a \in Seq(S) /\ Len(a) = k /\ \A i \in 1 .. k : a[i] = s[i]
  BY <1>0
<1>2. b \in Seq(S) /\ Len(b) = Len(s) - k /\ \A i \in 1 .. Len(s) - k : b[i] = s[k + i]
  BY <1>0
<1>3. InsertAt(s, 1 + k, e) = r
  <2>1. (1 + k) - 1 = k /\ 1 + k = k + 1
    BY <1>0
  <2> QED BY <2>1 DEF InsertAt
<1> DEFINE c == a \o <<e>>
<1> HIDE DEF a, b
<1>4. c \in Seq(S) /\ Len(c) = k + 1 /\ \A i \in 1 .. k + 1 : c[i] = IF i <= k THEN s[i] ELSE e
  BY <1>0, <1>1
<1>5. r = c \o b
  OBVIOUS
<1> HIDE DEF c, r
<1>6. r \in Seq(S) /\ Len(r) = Len(s) + 1
  <2>1. r \in Seq(S) /\ Len(r) = Len(c) + Len(b)
    BY <1>2, <1>4, <1>5
  <2> QED BY <2>1, <1>0, <1>2, <1>4
<1>7. ASSUME NEW i \in 1 .. Len(s) + 1
      PROVE  r[i] = IF i <= k THEN s[i] ELSE IF i = k + 1 THEN e ELSE s[i - 1]
  <2>1. CASE i <= k + 1
    <3>1. r[i] = c[i]
      BY <1>0, <1>2, <1>4, <1>5, <2>1
    <3> QED BY <3>1, <1>0, <1>4, <2>1
  <2>2. CASE i > k + 1
    <3>1. r[i] = b[i - (k + 1)]
      BY <1>0, <1>2, <1>4, <1>5, <2>2, SMTT(20)
    <3>2. i - (k + 1) \in 1 .. Len(s) - k /\ k + (i - (k + 1)) = i - 1
      BY <1>0, <2>2
    <3> QED BY <3>1, <3>2, <1>0, <1>2, <2>2, SMTT(20)
  <2> QED BY <2>1, <2>2, <1>0
<1> QED BY <1>3, <1>6, <1>7 DEF Inserted

\* Inserting adds the element, and nothing else.
LEMMA InsertSet ==
    ASSUME NEW S, NEW s \in Seq(S), NEW e \in S, NEW k \in 0 .. Len(s),
           NEW r, Inserted(S, s, k, e, r)
    PROVE  ToSet(r) = ToSet(s) \cup {e}
<1> DEFINE n == Len(s)
<1>0. k \in Nat /\ n \in Nat /\ k <= n /\ DOMAIN s = 1 .. n
  OBVIOUS
<1>1. /\ r \in Seq(S) /\ Len(r) = n + 1
      /\ \A i \in 1 .. n + 1 : r[i] = IF i <= k THEN s[i] ELSE IF i = k + 1 THEN e ELSE s[i - 1]
  BY DEF Inserted
<1>2. DOMAIN r = 1 .. n + 1
  BY <1>1
<1> HIDE DEF n
<1>3. \A i \in 1 .. n + 1 : r[i] \in {s[j] : j \in 1 .. n} \cup {e}
  <2> SUFFICES ASSUME NEW i \in 1 .. n + 1, i # k + 1
               PROVE  r[i] \in {s[j] : j \in 1 .. n}
    BY <1>0, <1>1
  <2>1. CASE i <= k
    BY <1>0, <1>1, <2>1
  <2>2. CASE i > k + 1
    <3>1. i - 1 \in 1 .. n /\ r[i] = s[i - 1]
      BY <1>0, <1>1, <2>2
    <3> QED BY <3>1
  <2> QED BY <1>0, <2>1, <2>2
<1>4. \A j \in 1 .. n : s[j] \in {r[i] : i \in 1 .. n + 1}
  <2> SUFFICES ASSUME NEW j \in 1 .. n PROVE \E i \in 1 .. n + 1 : r[i] = s[j]
    OBVIOUS
  <2>1. CASE j <= k
    BY <1>0, <1>1, <2>1
  <2>2. CASE j > k
    <3>1. j + 1 \in 1 .. n + 1 /\ r[j + 1] = s[j]
      BY <1>0, <1>1, <2>2
    <3> QED BY <3>1
  <2> QED BY <1>0, <2>1, <2>2
<1>5. e \in {r[i] : i \in 1 .. n + 1}
  <2>1. k + 1 \in 1 .. n + 1 /\ r[k + 1] = e
    BY <1>0, <1>1
  <2> QED BY <2>1
<1> QED BY <1>0, <1>2, <1>3, <1>4, <1>5 DEF ToSet, n

\* A sequence in order of key stays so if the element goes between those that may stand
\* before it and those that may stand behind it.
LEMMA InsertSorted ==
    ASSUME NEW S, NEW key \in [S -> Int], NEW s \in Seq(S), NEW e \in S, NEW k \in 0 .. Len(s),
           NEW r, Inserted(S, s, k, e, r), SortedBy(key, s),
           k # 0 => key[s[k]] <= key[e],
           \A i \in 1 .. Len(s) : i > k => key[e] <= key[s[i]]
    PROVE  SortedBy(key, r)
<1> SUFFICES ASSUME NEW i \in 1 .. Len(s) + 1, NEW j \in 1 .. Len(s) + 1, i < j
             PROVE  key[r[i]] <= key[r[j]]
  BY DEF SortedBy, Inserted
<1> DEFINE n == Len(s)
<1>0. k \in Nat /\ n \in Nat /\ k <= n /\ \A l \in 1 .. n : s[l] \in S
  OBVIOUS
<1>1. /\ r \in Seq(S) /\ Len(r) = n + 1
      /\ \A l \in 1 .. n + 1 : r[l] = IF l <= k THEN s[l] ELSE IF l = k + 1 THEN e ELSE s[l - 1]
  BY DEF Inserted
<1>2. \A l \in 1 .. n : l <= k => key[s[l]] <= key[e]
  <2> SUFFICES ASSUME NEW l \in 1 .. n, l < k PROVE key[s[l]] <= key[e]
    BY <1>0
  <2>1. k \in 1 .. n /\ key[s[l]] <= key[s[k]] /\ key[s[k]] <= key[e]
    BY <1>0 DEF SortedBy
  <2>2. key[s[l]] \in Int /\ key[s[k]] \in Int /\ key[e] \in Int
    BY <1>0, <2>1
  <2> QED BY <2>1, <2>2
<1>6. \A l \in 1 .. n + 1 : r[l] = IF l <= k THEN s[l] ELSE IF l = k + 1 THEN e ELSE s[l - 1]
  BY <1>1
<1>7. \A l, o \in 1 .. n : l < o => key[s[l]] <= key[s[o]]
  BY DEF SortedBy
<1>8. \A l \in 1 .. n : l > k => key[e] <= key[s[l]]
  OBVIOUS
<1>9. i \in 1 .. n + 1 /\ j \in 1 .. n + 1 /\ i < j
  OBVIOUS
<1> HIDE DEF n
<1>3. CASE i <= k
  <2>1. r[i] = s[i] /\ i \in 1 .. n
    BY <1>0, <1>6, <1>9, <1>3
  <2>2. CASE j <= k
    BY <1>0, <1>6, <1>7, <1>9, <2>1, <2>2, SMTT(20)
  <2>3. CASE j = k + 1
    BY <1>0, <1>6, <1>9, <1>2, <1>3, <2>1, <2>3
  <2>4. CASE j > k + 1
    <3>1. r[j] = s[j - 1] /\ j - 1 \in 1 .. n /\ i < j - 1
      BY <1>0, <1>6, <1>9, <1>3, <2>4
    <3> QED BY <1>7, <3>1, <2>1
  <2> QED BY <1>0, <1>9, <2>2, <2>3, <2>4
<1>4. CASE i = k + 1
  <2>1. r[i] = e /\ r[j] = s[j - 1] /\ j - 1 \in 1 .. n /\ j - 1 > k
    BY <1>0, <1>6, <1>9, <1>4
  <2> QED BY <1>8, <2>1
<1>5. CASE i > k + 1
  <2>1. r[i] = s[i - 1] /\ i - 1 \in 1 .. n
    BY <1>0, <1>6, <1>9, <1>5
  <2>2. r[j] = s[j - 1] /\ j - 1 \in 1 .. n /\ i - 1 < j - 1
    BY <1>0, <1>6, <1>9, <1>5
  <2> QED BY <1>7, <2>1, <2>2
<1> QED BY <1>0, <1>9, <1>3, <1>4, <1>5

\* What SelectLastInSeq returns, as the last of a set of positions.
LEMMA LastPosition ==
    ASSUME NEW n \in Nat, NEW I \in SUBSET (1 .. n), NEW m, m = IF I # {} THEN Max(I) ELSE 0
    PROVE  m \in 0 .. n /\ (m # 0 => m \in I) /\ \A i \in I : i <= m
<1>1. CASE I = {}
  BY <1>1
<1>2. CASE I # {}
  <2>1. I \in SUBSET (0 .. n)
    OBVIOUS
  <2>2. Max(I) \in I /\ \A y \in I : Max(I) >= y
    BY <1>2, <2>1, Greatest
  <2>3. Max(I) \in 0 .. n /\ \A i \in I : i <= Max(I)
    BY <2>1, <2>2
  <2> QED BY <1>2, <2>2, <2>3
<1> QED BY <1>1, <1>2

\* A finite set of integers that is not empty has a greatest element.
LEMMA FiniteMax ==
    ASSUME NEW S \in SUBSET Int, IsFiniteSet(S), S # {}
    PROVE  Max(S) \in S /\ \A y \in S : Max(S) >= y
<1>0. PICK n \in Nat : ExistsSurjection(1 .. n, S)
  BY FS_NatSurjection
<1>1. PICK f \in [1 .. n -> S] : \A s \in S : \E i \in 1 .. n : f[i] = s
  BY <1>0 DEF ExistsSurjection, Surjection
<1> DEFINE T == {k \in 0 .. n : k = 0 \/ \E x \in S : \A i \in 1 .. k : x >= f[i]}
<1>2. 0 \in T
  BY <1>1
<1>3. ASSUME NEW k \in 1 .. n, k - 1 \in T
      PROVE  k \in T
  <2>0. \A x \in S : x \in Int
    OBVIOUS
  <2>1. f[k] \in S /\ k \in 0 .. n /\ f[k] \in Int
    <3>1. f[k] \in S
      BY <1>1
    <3>2. f[k] \in Int
      BY <3>1, <2>0
    <3>3. k \in 0 .. n
      OBVIOUS
    <3> QED BY <3>1, <3>2, <3>3
  <2>2. CASE k = 1
    <3>1. f[k] >= f[k] /\ \A i \in 1 .. k : i = k
      BY <2>1, <2>2
    <3> QED BY <3>1, <2>1
  <2>3. CASE k # 1
    <3>1. PICK x \in S : \A i \in 1 .. k - 1 : x >= f[i]
      BY <1>3, <2>3
    <3>2. \A i \in 1 .. k - 1 : f[i] \in S
      BY <1>1
    <3>3. CASE x >= f[k]
      BY <3>1, <3>3, <2>1
    <3>4. CASE ~(x >= f[k])
      <4>1. ASSUME NEW i \in 1 .. k PROVE f[k] >= f[i]
        <5>1. f[k] \in Int /\ x \in Int /\ f[k] > x
          BY <3>4, <2>0, <2>1
        <5>2. CASE i = k
          BY <5>1, <5>2
        <5>3. CASE i \in 1 .. k - 1
          <6>1. f[i] \in Int /\ x >= f[i]
            BY <3>1, <3>2, <5>3, <2>0
          <6> QED BY <5>1, <6>1
        <5> QED BY <5>2, <5>3
      <4> QED BY <4>1, <2>1
    <3> QED BY <3>3, <3>4
  <2> QED BY <2>2, <2>3
<1>4. n \in T
  <2> HIDE DEF T
  <2>1. \A k \in 0 .. n : k \in T
    BY <1>1, <1>2, <1>3, Induction
  <2> QED BY <2>1, <1>1
<1>5. \E x \in S : \A y \in S : x >= y
  <2>1. n # 0
    <3>1. PICK i \in 1 .. n : TRUE
      BY <1>1
    <3> QED BY <3>1
  <2>2. PICK x \in S : \A i \in 1 .. n : x >= f[i]
    BY <1>4, <2>1
  <2> QED BY <1>1, <2>2
<1> QED BY <1>5 DEF Max

\* The same of the least element, by negation.
LEMMA FiniteMin ==
    ASSUME NEW S \in SUBSET Int, IsFiniteSet(S), S # {}
    PROVE  Min(S) \in S /\ \A y \in S : Min(S) <= y
<1>0. \A x \in S : x \in Int
  OBVIOUS
<1> DEFINE M == {-x : x \in S}
<1>1. M \in SUBSET Int /\ M # {}
  <2>1. PICK x \in S : TRUE
    OBVIOUS
  <2>2. -x \in M
    OBVIOUS
  <2>3. \A m \in M : m \in Int
    BY <1>0
  <2> HIDE DEF M
  <2> QED BY <2>2, <2>3
<1>2. IsFiniteSet(M)
  <2>0. PICK n \in Nat : ExistsSurjection(1 .. n, S)
    BY FS_NatSurjection
  <2>1. PICK f \in [1 .. n -> S] : \A s \in S : \E i \in 1 .. n : f[i] = s
    BY <2>0 DEF ExistsSurjection, Surjection
  <2> DEFINE g == [i \in 1 .. n |-> -f[i]]
  <2>2. g \in [1 .. n -> M]
    BY <2>1
  <2>3. \A m \in M : \E i \in 1 .. n : g[i] = m
    BY <2>1
  <2> HIDE DEF g
  <2>4. g \in Surjection(1 .. n, M)
    BY <2>2, <2>3 DEF Surjection
  <2> QED BY <2>1, <2>4, FS_NatSurjection DEF ExistsSurjection
<1>3. PICK m \in M : \A y \in M : m >= y
  <2> HIDE DEF M
  <2> QED BY <1>1, <1>2, FiniteMax
<1>4. \E x \in S : \A y \in S : x <= y
  <2>1. PICK x \in S : m = -x
    OBVIOUS
  <2>2. ASSUME NEW y \in S PROVE x <= y
    <3>1. -y \in M /\ x \in Int /\ y \in Int
      BY <1>0
    <3>2. m >= -y
      BY <1>3, <3>1
    <3> QED BY <2>1, <3>1, <3>2
  <2> QED BY <2>2
<1> QED BY <1>4 DEF Min

=============================================================================
