----------------------------- MODULE PureProofs -----------------------------
(***************************************************************************)
(* What is proved about the history ring, the temperatures of a report,     *)
(* the lines of the chart and the rows of the table: the ring implements    *)
(* the bounded log for every capacity, and the properties of the functions   *)
(* hold for every input the assumptions on the inputs allow, of any length. *)
(*                                                                         *)
(* The loops are folds over a sequence.  FoldLemmas has the induction over  *)
(* the loop of one function; here it is instantiated with each of the loops *)
(* and given its loop invariant: Arranged for the table, Timed and Drawing  *)
(* for the chart.                                                          *)
(***************************************************************************)
EXTENDS Pure, SequenceTheorems, FiniteSetTheorems, TLAPS

-----------------------------------------------------------------------------
(* The history ring *)

\* What a slot may hold.
Cells == Points \cup {Zero}

\* Number of points slice() returns.
Held(h, f) == IF f THEN Capacity ELSE h

\* The slot of the i-th point slice() returns.
Slot(h, f, i) == IF ~f THEN i - 1
                 ELSE IF i <= Capacity - h THEN h + i - 1
                 ELSE i - (Capacity - h) - 1

\* The write index wraps to 0 exactly at the end of the buffer.
LEMMA NextHead ==
    ASSUME NEW h \in Slots
    PROVE  (h + 1) % Capacity = IF h = Capacity - 1 THEN 0 ELSE h + 1
BY RingAssumption, SMTT(30) DEF Slots

\* slice() is a sequence of Held points, the i-th from slot Slot(i).
LEMMA SliceFacts ==
    ASSUME NEW b \in [Slots -> Cells], NEW h \in Slots, NEW f \in BOOLEAN
    PROVE  /\ Held(h, f) \in 0 .. Capacity
           /\ \A i \in 1 .. Held(h, f) : Slot(h, f, i) \in Slots
           /\ SliceOf(b, h, f) \in Seq(Cells)
           /\ Len(SliceOf(b, h, f)) = Held(h, f)
           /\ \A i \in 1 .. Held(h, f) : SliceOf(b, h, f)[i] = b[Slot(h, f, i)]
<1> DEFINE s == SliceOf(b, h, f)
           n == Held(h, f)
<1>1. n \in 0 .. Capacity
  BY RingAssumption DEF Held, Slots
<1>2. ASSUME NEW i \in 1 .. n PROVE Slot(h, f, i) \in Slots
  BY <1>1, RingAssumption DEF Held, Slot, Slots
<1>3. s = [i \in 1 .. n |-> b[Slot(h, f, i)]]
  BY DEF SliceOf, Held, Slot
<1>4. \A i \in 1 .. n : b[Slot(h, f, i)] \in Cells
  BY <1>2
<1> HIDE DEF n, s
<1>5. s \in [1 .. n -> Cells]
  BY <1>3, <1>4
<1>6. n \in Nat
  BY <1>1, RingAssumption
<1>7. s \in Seq(Cells)
  BY <1>5, <1>6, SeqDef
<1>8. Len(s) = n
  BY <1>5, <1>6, <1>7, LenProperties
<1> QED
  BY <1>1, <1>2, <1>3, <1>7, <1>8 DEF n, s

\* Every step keeps the index inside the buffer and the slots well typed.
THEOREM RingType == Spec => []TypeOK
<1>1. Init => TypeOK
  <2>1. Init => head \in Slots
    BY RingAssumption DEF Init, Slots
  <2>2. Init => full \in BOOLEAN
    BY Zenon DEF Init
  <2>3. Init => buf \in [Slots -> Points \cup {Zero}]
    BY DEF Init
  <2> QED
    BY <2>1, <2>2, <2>3 DEF TypeOK
<1>2. TypeOK /\ [Next]_vars => TypeOK'
  <2>1. SUFFICES ASSUME TypeOK, NEW p \in Points, Push(p) PROVE TypeOK'
    BY DEF Next, TypeOK, vars
  <2>2. head' \in Slots
    BY <2>1, NextHead, RingAssumption DEF TypeOK, Push, Slots
  <2>3. full' \in BOOLEAN
    BY <2>1 DEF TypeOK, Push
  <2>4. buf' \in [Slots -> Points \cup {Zero}]
    BY <2>1 DEF TypeOK, Push
  <2> QED
    BY <2>2, <2>3, <2>4 DEF TypeOK
<1> QED
  BY <1>1, <1>2, PTL DEF Spec

\* One push appends the point, and drops the oldest one when the buffer is full.
LEMMA PushRecords ==
    ASSUME TypeOK, TypeOK', NEW p \in Points, Push(p)
    PROVE  Slice' = Recent!Keep(Slice, p)
<1> DEFINE n == Held(head, full)
           m == Held(head', full')
           old == SliceOf(buf, head, full)
           new == SliceOf(buf', head', full')
           kept == Recent!Keep(old, p)
<1>1. /\ old \in Seq(Cells) /\ Len(old) = n
      /\ \A i \in 1 .. n : old[i] = buf[Slot(head, full, i)] /\ Slot(head, full, i) \in Slots
  BY SliceFacts DEF TypeOK, Cells
<1>2. /\ new \in Seq(Cells) /\ Len(new) = m
      /\ \A i \in 1 .. m : new[i] = buf'[Slot(head', full', i)]
                           /\ Slot(head', full', i) \in Slots
  BY SliceFacts DEF TypeOK, Cells
<1>3. /\ head' = IF head = Capacity - 1 THEN 0 ELSE head + 1
      /\ \A j \in Slots : buf'[j] = IF j = head THEN p ELSE buf[j]
  BY NextHead DEF TypeOK, Push
<1>7. full' <=> (full \/ head' = 0)
  BY Zenon DEF Push
<1>4. head \in 0 .. Capacity - 1 /\ Capacity \in Nat \ {0} /\ p \in Cells
  BY RingAssumption DEF TypeOK, Slots, Cells
<1>5. /\ kept \in Seq(Cells) /\ Len(kept) = m
      /\ \A i \in 1 .. m : kept[i] = new[i]
  <2>1. CASE ~full
    <3> HIDE DEF old, new
    <3>1. n = head /\ m = head + 1 /\ n < Capacity
      BY <2>1, <1>3, <1>4, <1>7 DEF Held
    <3>2. kept = Append(old, p)
      BY <3>1, <1>1 DEF Recent!Keep
    <3>3. /\ kept \in Seq(Cells) /\ Len(kept) = m
          /\ \A i \in 1 .. m : kept[i] = IF i = m THEN p ELSE old[i]
      BY <3>1, <3>2, <1>1, <1>4
    <3>4. ASSUME NEW i \in 1 .. m
          PROVE  new[i] = IF i = m THEN p ELSE old[i]
      <4>1. Slot(head', full', i) = i - 1
        BY <2>1, <3>1, <1>3, <1>4, <1>7 DEF Slot
      <4>2. i < m => Slot(head, full, i) = i - 1
        BY <2>1, <3>1, <1>4 DEF Slot
      <4>3. new[i] = buf'[i - 1] /\ i - 1 \in Slots
        BY <4>1, <1>2
      <4>4. CASE i = m
        BY <4>3, <4>4, <3>1, <1>3, <1>4
      <4>5. CASE i < m
        <5>1. i \in 1 .. n /\ i - 1 # head
          BY <4>5, <3>1, <1>4
        <5> QED
          BY <5>1, <4>2, <4>3, <4>5, <1>1, <1>3
      <4> QED
        BY <4>4, <4>5, <3>1, <1>4
    <3> QED
      BY <3>3, <3>4
  <2>2. CASE full
    <3> HIDE DEF old, new
    <3>1. n = Capacity /\ m = Capacity
      BY <2>2, <1>7 DEF Held
    <3>2. kept = Append(Tail(old), p) /\ old # <<>>
      BY <3>1, <1>1, <1>4 DEF Recent!Keep
    <3>3. /\ Tail(old) \in Seq(Cells) /\ Len(Tail(old)) = m - 1
          /\ \A i \in 1 .. m - 1 : Tail(old)[i] = old[i + 1]
      BY <3>1, <3>2, <1>1, <1>4, HeadTailProperties
    <3>4. /\ kept \in Seq(Cells) /\ Len(kept) = m
          /\ \A i \in 1 .. m : kept[i] = IF i = m THEN p ELSE old[i + 1]
      BY <3>1, <3>2, <3>3, <1>4
    <3>5. ASSUME NEW i \in 1 .. m
          PROVE  new[i] = IF i = m THEN p ELSE old[i + 1]
      <4>1. i = Capacity => Slot(head', full', i) = head
        BY <2>2, <1>3, <1>4, <1>7 DEF Slot
      <4>2. i < m => Slot(head', full', i) = Slot(head, full, i + 1)
        BY <2>2, <3>1, <1>3, <1>4, <1>7 DEF Slot
      <4>3. i < m => Slot(head, full, i + 1) # head
        BY <2>2, <3>1, <1>4 DEF Slot
      <4>4. i < m => i + 1 \in 1 .. n
        BY <3>1, <1>4
      <4> QED
        BY <4>1, <4>2, <4>3, <4>4, <3>1, <1>1, <1>2, <1>3, <1>4
    <3> QED
      BY <3>4, <3>5
  <2> QED
    BY <2>1, <2>2 DEF TypeOK
<1>6. new = kept
  <2> HIDE DEF new, kept
  <2> QED
    BY <1>2, <1>5, SeqEqual
<1> QED
  BY <1>6 DEF Slice

\* The ring is the bounded log: from the empty ring to every state the program can
\* reach, slice() returns the last Capacity points pushed, in the order they came.
THEOREM RingRefines == Spec => IsRecentPoints
<1>1. Init => Recent!Init
  <2>1. Init => Slice = [i \in 1 .. 0 |-> buf[i - 1]]
    BY DEF Init, Slice, SliceOf
  <2> QED
    BY <2>1 DEF Recent!Init
<1>2. TypeOK /\ TypeOK' /\ [Next]_vars => [Recent!Next]_Slice
  <2>1. CASE Next
    BY <2>1, PushRecords DEF Next, Recent!Next, Recent!Record
  <2>2. CASE UNCHANGED vars
    BY <2>2 DEF vars, Slice
  <2> QED
    BY <2>1, <2>2
<1> QED
  BY <1>1, <1>2, RingType, PTL DEF Spec, IsRecentPoints, Recent!Spec

-----------------------------------------------------------------------------
(* The inputs *)

\* The input is none, or one of those the program may get.
Given ==
    \/ input = [part |-> "none"]
    \/ input \in SeriesInputs \cup SteadyInputs \cup MinerInputs
                   \cup LineInputs \cup RowInputs \cup SortInputs

\* No input is made up.
LEMMA GivenInvariant == PureSpec => []Given
<1>1. PureInit => Given
  BY DEF PureInit, Given
<1>2. Given /\ [PureNext]_<<input, vars>> => Given'
  BY DEF PureNext, Given
<1> QED BY <1>1, <1>2, PTL DEF PureSpec

\* What an input of a part is.
LEMMA InputKinds ==
    ASSUME Given
    PROVE  /\ input.part = "series" => input \in SeriesInputs
           /\ input.part = "steady" => input \in SteadyInputs
           /\ input.part = "miner" => input \in MinerInputs
           /\ input.part = "lines" => input \in LineInputs
           /\ input.part = "row" => input \in RowInputs
           /\ input.part = "sort" => input \in SortInputs
<1>1. CASE input = [part |-> "none"]
  BY <1>1
<1>2. CASE input # [part |-> "none"]
  <2>1. /\ \A x \in SeriesInputs : x.part = "series"
        /\ \A x \in SteadyInputs : x.part = "steady"
        /\ \A x \in MinerInputs : x.part = "miner"
        /\ \A x \in LineInputs : x.part = "lines"
        /\ \A x \in RowInputs : x.part = "row"
        /\ \A x \in SortInputs : x.part = "sort"
    BY PureAssumption, Zenon
  <2> QED BY <1>2, <2>1 DEF Given
<1> QED BY <1>1, <1>2

-----------------------------------------------------------------------------
(* The table: warm rows *)

\* For every row, whatever other fields it has.
LEMMA WarmRows ==
    ASSUME NEW m, m.hasAsic \in BOOLEAN, m.hasVr \in BOOLEAN,
           {m.asic, m.vr, m.avg} \subseteq Int \cup {Missing}
    PROVE  WarmIsFiltered(m)
<1> DEFINE f == NoFilter(m)
           a == [f EXCEPT !.asic = FromWarm]
           v == [f EXCEPT !.vr = FromWarm]
           unread == (m.hasAsic /\ m.asic = Missing) \/ (m.hasVr /\ m.vr = Missing)
<1>1. SUFFICES IsWarm(m) \/ unread <=> Passes(m, a) \/ Passes(m, v)
  BY Zenon DEF WarmIsFiltered
<1>2. /\ a.search = Missing /\ a.mining = Missing /\ a.status = Missing
      /\ v.search = Missing /\ v.mining = Missing /\ v.status = Missing
      /\ a.picked = [k \in DOMAIN m.facet |-> {}] /\ v.picked = [k \in DOMAIN m.facet |-> {}]
      /\ a.hashrate = NoBounds /\ v.hashrate = NoBounds
      /\ a.asic = FromWarm /\ v.asic = NoBounds
      /\ a.vr = NoBounds /\ v.vr = FromWarm
      /\ \A k \in {"wattage", "chips", "efficiency"} : a[k] = NoBounds /\ v[k] = NoBounds
  BY DEF NoFilter
<1> HIDE DEF a, v
<1>0. Missing \notin Int /\ Missing \notin {"ok", "err", "msg"}
  BY TableAssumption
<1>3. \A x : InBounds(x, NoBounds)
  BY DEF InBounds, NoBounds, Less
<1>4. \A x \in Int \cup {Missing} : InBounds(x, FromWarm) <=> x = Missing \/ x >= Warm
  BY <1>0 DEF InBounds, FromWarm, Less, Warm
<1>5. FromWarm # [min |-> Missing, max |-> Missing]
  BY <1>0 DEF FromWarm, Warm
<1> DEFINE open(g) == /\ g.search = Missing \/ g.search \in m.words
                      /\ \A k \in DOMAIN g.picked : g.picked[k] = {} \/ m.facet[k] \in g.picked[k]
                      /\ g.mining = Missing \/ m.mining = g.mining
                      /\ g.status = "ok" => ~m.error
                      /\ g.status = "err" => m.error
                      /\ g.status = "msg" => m.messages
<1>11. open(a) /\ open(v)
  <2>1. \A k \in DOMAIN m.facet : [j \in DOMAIN m.facet |-> {}][k] = {}
    OBVIOUS
  <2> QED BY <1>0, <1>2, <2>1
<1>12. \A g : Passes(m, g) <=> open(g) /\ PassesNumbers(m, g)
  BY Zenon DEF Passes
<1>13. PassesNumbers(m, a) <=> InBounds(AsicTemp(m), FromWarm)
  BY <1>2, <1>3 DEF PassesNumbers, NoBounds
<1>14. PassesNumbers(m, v) <=> m.hasVr /\ InBounds(VrTemp(m), FromWarm)
  BY <1>2, <1>3, <1>5 DEF PassesNumbers, NoBounds
<1> HIDE DEF open
<1>6. Passes(m, a) <=> InBounds(AsicTemp(m), FromWarm)
  BY <1>11, <1>12, <1>13
<1>7. Passes(m, v) <=> m.hasVr /\ InBounds(VrTemp(m), FromWarm)
  BY <1>11, <1>12, <1>14
<1>8. m.hasAsic => AsicTemp(m) = m.asic
  BY DEF AsicTemp
<1>9. ~m.hasAsic => AsicTemp(m) = OrZero(m.avg) /\ OrZero(m.avg) \in Int
  BY DEF AsicTemp, OrZero
<1>10. m.hasVr => VrTemp(m) = m.vr
  BY DEF VrTemp
<1>15. \A x \in Int : x # Missing
  BY <1>0
<1>16. Passes(m, a) <=> \/ m.hasAsic /\ (m.asic = Missing \/ m.asic >= Warm)
                        \/ ~m.hasAsic /\ OrZero(m.avg) >= Warm
  BY <1>4, <1>6, <1>8, <1>9, <1>15
<1>17. Passes(m, v) <=> m.hasVr /\ (m.vr = Missing \/ m.vr >= Warm)
  BY <1>4, <1>7, <1>10
<1> HIDE DEF unread
<1>18. unread <=> (m.hasAsic /\ m.asic = Missing) \/ (m.hasVr /\ m.vr = Missing)
  BY DEF unread
<1> QED BY <1>1, <1>16, <1>17, <1>18 DEF IsWarm

\* The temperature filters from 70 degrees on find the red rows and those with a sensor
\* whose reading is missing, and no other, whatever the rows' other columns hold.
THEOREM TableWarm == PureSpec => []WarmMatchesFilters
<1>1. Given => WarmMatchesFilters
  <2> SUFFICES ASSUME Given, input.part = "row" PROVE WarmIsFiltered(input.row)
    BY DEF WarmMatchesFilters
  <2>1. input \in RowInputs
    BY InputKinds
  <2> QED BY <2>1, PureAssumption, TableAssumption, WarmRows
<1> QED BY <1>1, GivenInvariant, PTL

-----------------------------------------------------------------------------
(* The table: sorted rows *)

\* One row more, with the column and the direction for a context.
PlacedIn(c, s, m) == Placed(s, m, c[1], c[2])

RowLoop == INSTANCE FoldLemmas WITH Op <- PlacedIn

\* The loop of the lemmas is the sort of the table.
LEMMA SortedFolds ==
    ASSUME NEW rows, NEW texts, NEW dir
    PROVE  Sorted(rows, texts, dir) = RowLoop!Fold(<<texts, dir>>, <<>>, rows)
BY Zenon DEF Sorted, PlacedIn, FoldLeft, MapThenFoldSet, Max, RowLoop!Fold, RowLoop!FoldLeft, RowLoop!MapThenFoldSet, RowLoop!Max

Values == Nat \cup {Missing}
Rows == [place : Nat, value : Values]
SortKey(dir) == [m \in Rows |-> dir * OrZero(m.value)]

\* A missing value counts as zero and differs from every number.
LEMMA CompareFacts ==
    ASSUME NEW texts \in BOOLEAN, NEW dir \in {1, -1}, NEW m \in Rows, NEW o \in Rows
    PROVE  /\ SortKey(dir) \in [Rows -> Int]
           /\ Compare(texts, o.value, m.value) * dir <= 0 => SortKey(dir)[o] <= SortKey(dir)[m]
           /\ ~(Compare(texts, o.value, m.value) * dir <= 0) =>
                SortKey(dir)[m] <= SortKey(dir)[o] /\ o.value # m.value
<1> DEFINE a == o.value
           b == m.value
<1>0. Missing \notin Int
  BY TableAssumption
<1>1. a \in Values /\ b \in Values
  BY DEF Rows
<1>2. \A v \in Values : OrZero(v) \in Nat /\ (v # Missing => OrZero(v) = v /\ v \in Nat) /\ (v = Missing => OrZero(v) = 0)
  BY DEF OrZero, Values
<1>3. SortKey(dir) \in [Rows -> Int]
  <2>1. \A r \in Rows : dir * OrZero(r.value) \in Int
    BY <1>2 DEF Rows
  <2> QED BY <2>1 DEF SortKey
<1>4. SortKey(dir)[o] = dir * OrZero(a) /\ SortKey(dir)[m] = dir * OrZero(b)
  BY DEF SortKey
<1>5. Compare(texts, a, b) = IF a = Missing THEN (IF b = Missing THEN 0 ELSE -1)
                             ELSE IF texts /\ b = Missing THEN 1 ELSE a - OrZero(b)
  BY DEF Compare
<1> HIDE DEF a, b
<1>6. /\ Compare(texts, a, b) * dir <= 0 => dir * OrZero(a) <= dir * OrZero(b)
      /\ ~(Compare(texts, a, b) * dir <= 0) => dir * OrZero(b) <= dir * OrZero(a) /\ a # b
  <2>1. CASE dir = 1
    BY <1>0, <1>1, <1>2, <1>5, <2>1
  <2>2. CASE dir = -1
    BY <1>0, <1>1, <1>2, <1>5, <2>2
  <2> QED BY <2>1, <2>2
<1> QED BY <1>3, <1>4, <1>6 DEF a, b

\* Where a row goes: behind the last one it does not precede.
LEMMA PlacedFacts ==
    ASSUME NEW texts \in BOOLEAN, NEW dir \in {1, -1}, NEW s \in Seq(Rows), NEW m \in Rows
    PROVE  \E n \in 0 .. Len(s) :
             /\ RowLoop!Inserted(Rows, s, n, m, Placed(s, m, texts, dir))
             /\ n # 0 => SortKey(dir)[s[n]] <= SortKey(dir)[m]
             /\ \A i \in 1 .. Len(s) : i > n => SortKey(dir)[m] <= SortKey(dir)[s[i]]
             /\ \A i \in 1 .. Len(s) : i > n => s[i].value # m.value
<1> DEFINE I == {i \in 1 .. Len(s) : Compare(texts, s[i].value, m.value) * dir <= 0}
           n == IF I # {} THEN RowLoop!Max(I) ELSE 0
<1>1. Placed(s, m, texts, dir) = RowLoop!InsertAt(s, 1 + n, m)
  BY Zenon DEF Placed, SelectLastInSeq, Max, RowLoop!Max, InsertAt, RowLoop!InsertAt
<1>2. n \in 0 .. Len(s) /\ (n # 0 => n \in I) /\ \A i \in I : i <= n
  <2>1. I \in SUBSET (1 .. Len(s)) /\ Len(s) \in Nat
    OBVIOUS
  <2> HIDE DEF I
  <2> QED BY <2>1, RowLoop!LastPosition
<1> HIDE DEF n
<1>3. \A i \in 1 .. Len(s) : s[i] \in Rows
  OBVIOUS
<1>4. n # 0 => SortKey(dir)[s[n]] <= SortKey(dir)[m]
  BY <1>2, <1>3, CompareFacts
<1>5. ASSUME NEW i \in 1 .. Len(s), i > n
      PROVE  SortKey(dir)[m] <= SortKey(dir)[s[i]] /\ s[i].value # m.value
  <2>1. i \notin I
    BY <1>2, <1>5
  <2>2. ~(Compare(texts, s[i].value, m.value) * dir <= 0)
    BY <2>1
  <2> QED BY <2>2, <1>3, CompareFacts
<1>6. RowLoop!Inserted(Rows, s, n, m, Placed(s, m, texts, dir))
  BY <1>1, <1>2, RowLoop!InsertFacts
<1> HIDE DEF I
<1> QED BY <1>2, <1>4, <1>5, <1>6

\* The rows are numbered in the order they come in.
Numbered(rows) == \A i \in 1 .. Len(rows) : rows[i].place = i

\* Rows with one value are in the order they had.
Stable(s) == \A i, j \in 1 .. Len(s) : i < j /\ s[i].value = s[j].value => s[i].place < s[j].place

\* The first k rows are in s, in order and once each.
Arranged(rows, dir, k, s) ==
    /\ s \in Seq(Rows) /\ Len(s) = k
    /\ ToSet(s) = {rows[i] : i \in 1 .. k}
    /\ RowLoop!SortedBy(SortKey(dir), s) /\ Stable(s)

\* One more row keeps them so.
LEMMA ArrangedStep ==
    ASSUME NEW texts \in BOOLEAN, NEW dir \in {1, -1}, NEW rows \in Seq(Rows),
           Numbered(rows),
           NEW k \in 1 .. Len(rows), NEW s, Arranged(rows, dir, k - 1, s)
    PROVE  Arranged(rows, dir, k, Placed(s, rows[k], texts, dir))
<1> DEFINE m == rows[k]
           r == Placed(s, m, texts, dir)
           key == SortKey(dir)
<1>0. /\ k \in Nat /\ k - 1 \in Nat /\ m \in Rows /\ s \in Seq(Rows) /\ Len(s) = k - 1
      /\ key \in [Rows -> Int]
  BY CompareFacts DEF Arranged
<1>1. PICK n \in 0 .. Len(s) :
             /\ RowLoop!Inserted(Rows, s, n, m, r)
             /\ n # 0 => key[s[n]] <= key[m]
             /\ \A i \in 1 .. Len(s) : i > n => key[m] <= key[s[i]]
             /\ \A i \in 1 .. Len(s) : i > n => s[i].value # m.value
  BY <1>0, PlacedFacts
<1> HIDE DEF m, key, r
<1>2. /\ r \in Seq(Rows) /\ Len(r) = k
      /\ \A i \in 1 .. k : r[i] = IF i <= n THEN s[i] ELSE IF i = n + 1 THEN m ELSE s[i - 1]
  <2>1. Len(s) + 1 = k
    BY <1>0
  <2> QED BY <1>1, <2>1 DEF RowLoop!Inserted
<1>3. ToSet(r) = {rows[i] : i \in 1 .. k}
  <2>1. ToSet(r) = ToSet(s) \cup {m}
    <3>1. RowLoop!ToSet(r) = RowLoop!ToSet(s) \cup {m}
      BY <1>0, <1>1, RowLoop!InsertSet
    <3> QED BY <3>1, Zenon DEF ToSet, RowLoop!ToSet
  <2>2. {rows[i] : i \in 1 .. k} = {rows[i] : i \in 1 .. (k - 1)} \cup {rows[k]}
    BY <1>0, RowLoop!PrefixGrows
  <2> QED BY <2>1, <2>2 DEF Arranged, m
<1>4. RowLoop!SortedBy(key, r)
  <2>1. RowLoop!SortedBy(key, s)
    BY DEF Arranged, key
  <2> QED BY <1>0, <1>1, <2>1, RowLoop!InsertSorted
<1>5. ASSUME NEW i \in 1 .. k, NEW j \in 1 .. k, i < j, r[i].value = r[j].value
      PROVE  r[i].place < r[j].place
  <2>1. \A l \in 1 .. k - 1 : s[l].place \in Nat /\ s[l].place < k
    <3> SUFFICES ASSUME NEW l \in 1 .. k - 1 PROVE s[l].place \in Nat /\ s[l].place < k
      OBVIOUS
    <3>1. s[l] \in ToSet(s)
      <4>1. DOMAIN s = 1 .. k - 1
        BY <1>0
      <4> QED BY <4>1 DEF ToSet
    <3>2. PICK o \in 1 .. (k - 1) : s[l] = rows[o]
      BY <3>1 DEF Arranged
    <3>3. o \in 1 .. Len(rows) /\ rows[o].place = o
      <4>1. o \in 1 .. Len(rows)
        BY <1>0
      <4> QED BY <4>1 DEF Numbered
    <3> QED BY <3>2, <3>3, <1>0
  <2>2. m.place = k
    BY DEF m, Numbered
  <2>3. \A l, o \in 1 .. k - 1 : l < o /\ s[l].value = s[o].value => s[l].place < s[o].place
    BY <1>0 DEF Arranged, Stable
  <2>4. /\ i <= n => r[i] = s[i] /\ i \in 1 .. k - 1
        /\ i = n + 1 => r[i] = m
        /\ i > n + 1 => r[i] = s[i - 1] /\ i - 1 \in 1 .. k - 1
        /\ j <= n => r[j] = s[j] /\ j \in 1 .. k - 1
        /\ j = n + 1 => r[j] = m
        /\ j > n + 1 => r[j] = s[j - 1] /\ j - 1 \in 1 .. k - 1
    <3>1. ASSUME NEW l \in 1 .. k
          PROVE  /\ l <= n => r[l] = s[l] /\ l \in 1 .. k - 1
                 /\ l = n + 1 => r[l] = m
                 /\ l > n + 1 => r[l] = s[l - 1] /\ l - 1 \in 1 .. k - 1
      <4>1. r[l] = IF l <= n THEN s[l] ELSE IF l = n + 1 THEN m ELSE s[l - 1]
        BY <1>2
      <4>2. n \in 0 .. k - 1
        BY <1>0
      <4> QED BY <1>0, <4>1, <4>2
    <3> QED BY <3>1
  <2>8. n \in Nat /\ i \in Nat /\ j \in Nat /\ i < j
    BY <1>5
  <2>5. CASE j <= n
    <3>1. i <= n
      BY <2>5, <2>8
    <3>2. r[i] = s[i] /\ r[j] = s[j] /\ i \in 1 .. k - 1 /\ j \in 1 .. k - 1
      BY <2>4, <2>5, <3>1
    <3> QED BY <1>5, <2>3, <3>2
  <2>6. CASE j = n + 1
    <3>1. i <= n
      BY <2>6, <2>8
    <3>2. r[i] = s[i] /\ r[j] = m /\ i \in 1 .. k - 1
      BY <2>4, <2>6, <3>1
    <3> QED BY <2>1, <2>2, <3>2
  <2>7. CASE j > n + 1
    <3>1. CASE i <= n
      <4>1. r[i] = s[i] /\ r[j] = s[j - 1] /\ i \in 1 .. k - 1 /\ j - 1 \in 1 .. k - 1 /\ i < j - 1
        BY <2>4, <2>7, <2>8, <3>1
      <4> QED BY <1>5, <2>3, <4>1
    <3>2. CASE i = n + 1
      <4>1. j - 1 \in 1 .. Len(s) /\ j - 1 > n
        BY <1>0, <2>7
      <4>2. s[j - 1].value # m.value
        BY <1>1, <4>1
      <4> QED BY <1>5, <2>4, <2>7, <3>2, <4>2
    <3>3. CASE i > n + 1
      <4>1. i - 1 < j - 1
        BY <1>5
      <4> QED BY <4>1, <1>5, <2>3, <2>4, <2>7, <3>3
    <3> QED BY <3>1, <3>2, <3>3
  <2> QED BY <2>5, <2>6, <2>7
<1>6. Stable(r)
  BY <1>2, <1>5 DEF Stable
<1> QED BY <1>2, <1>3, <1>4, <1>6 DEF Arranged, key, r, m

\* The table comes out arranged.
LEMMA SortedArranged ==
    ASSUME NEW texts \in BOOLEAN, NEW dir \in {1, -1}, NEW rows \in Seq(Rows),
           Numbered(rows)
    PROVE  Arranged(rows, dir, Len(rows), Sorted(rows, texts, dir))
<1> DEFINE c == <<texts, dir>>
           V == Seq(Rows)
           J == {w \in Nat \X V : Arranged(rows, dir, w[1], w[2])}
<1>0. \A s, m : PlacedIn(c, s, m) = Placed(s, m, texts, dir)
  BY DEF PlacedIn
<1>1. RowLoop!Closed(c, V, Len(rows), rows)
  <2> SUFFICES ASSUME NEW s \in V, NEW k \in 1 .. Len(rows)
               PROVE  Placed(s, rows[k], texts, dir) \in V
    BY <1>0, Zenon DEF RowLoop!Closed
  <2>1. rows[k] \in Rows
    OBVIOUS
  <2>2. PICK n \in 0 .. Len(s) : RowLoop!Inserted(Rows, s, n, rows[k], Placed(s, rows[k], texts, dir))
    BY <2>1, PlacedFacts
  <2> QED BY <2>2 DEF RowLoop!Inserted
<1>2. RowLoop!Inductive(c, V, <<>>, rows, J)
  <2>1. <<0, <<>>>> \in J
    <3>1. ToSet(<<>>) = {} /\ {rows[i] : i \in 1 .. 0} = {}
      BY DEF ToSet
    <3>2. <<>> \in V /\ Len(<<>>) = 0 /\ \A i \in 1 .. 0 : FALSE
      OBVIOUS
    <3>3. Arranged(rows, dir, 0, <<>>)
      BY <3>1, <3>2 DEF Arranged, Stable, RowLoop!SortedBy
    <3>4. \A e \in V : Arranged(rows, dir, 0, e) => <<0, e>> \in J
      OBVIOUS
    <3> HIDE DEF V, J
    <3> QED BY <3>2, <3>3, <3>4, Zenon
  <2>2. ASSUME NEW k \in 1 .. Len(rows), NEW s \in V, <<k - 1, s>> \in J
        PROVE  <<k, Placed(s, rows[k], texts, dir)>> \in J
    <3>1. Arranged(rows, dir, k - 1, s)
      BY <2>2
    <3>2. Arranged(rows, dir, k, Placed(s, rows[k], texts, dir))
      <4> HIDE DEF J, V
      <4> QED BY <3>1, ArrangedStep
    <3>3. k \in Nat /\ Placed(s, rows[k], texts, dir) \in V
      BY <3>2 DEF Arranged
    <3> QED BY <3>2, <3>3
  <2> HIDE DEF J, V
  <2> QED BY <1>0, <2>1, <2>2, Zenon DEF RowLoop!Inductive
<1>3. <<Len(rows), RowLoop!Fold(c, <<>>, rows)>> \in J
  <2>1. <<>> \in V
    OBVIOUS
  <2> HIDE DEF J, V, c
  <2> QED BY <2>1, <1>1, <1>2, RowLoop!FoldInduction
<1>4. Arranged(rows, dir, Len(rows), RowLoop!Fold(c, <<>>, rows))
  BY <1>3
<1> QED BY <1>4, SortedFolds

\* The table is in order, stably, for every column and direction: rows with a missing
\* number among the zeros, rows with a missing text first (sortList).
THEOREM TableSorted == PureSpec => []SortsRows
<1>1. Given => SortsRows
  <2> SUFFICES ASSUME Given, input.part = "sort"
               PROVE  InOrder([n \in DOMAIN input.values |-> [place |-> n, value |-> input.values[n]]],
                              input.texts, input.dir)
    BY DEF SortsRows
  <2>1. /\ input.dir \in {1, -1} /\ input.texts \in BOOLEAN
        /\ input.values \in Seq(Values)
    BY InputKinds, PureAssumption DEF Values
  <2> DEFINE x == input.values
             rows == [n \in DOMAIN x |-> [place |-> n, value |-> x[n]]]
             out == Sorted(rows, input.texts, input.dir)
  <2>2. /\ rows \in Seq(Rows) /\ Len(rows) \in Nat /\ DOMAIN rows = 1 .. Len(rows)
        /\ \A i \in 1 .. Len(rows) : rows[i].place = i
    <3>1. DOMAIN x = 1 .. Len(x) /\ Len(x) \in Nat /\ \A n \in 1 .. Len(x) : x[n] \in Values
      BY <2>1
    <3>2. rows \in [1 .. Len(x) -> Rows]
      BY <3>1 DEF Rows
    <3>3. rows \in Seq(Rows)
      BY <3>1, <3>2, SeqDef
    <3>4. Len(rows) = Len(x)
      BY <3>1, <3>2, <3>3
    <3> QED BY <3>1, <3>3, <3>4
  <2> HIDE DEF rows
  <2>3. Arranged(rows, input.dir, Len(rows), out)
    BY <2>1, <2>2, SortedArranged DEF Numbered
  <2> HIDE DEF out
  <2>4. DOMAIN out = 1 .. Len(rows) /\ Len(out) = Len(rows)
    BY <2>3 DEF Arranged
  <2>5. ToSet(out) = ToSet(rows)
    BY <2>2, <2>3 DEF Arranged, ToSet
  <2>6. \A i \in 1 .. Len(rows) : out[i] \in Rows /\ SortKey(input.dir)[out[i]] = input.dir * OrZero(out[i].value)
    BY <2>3, <2>4 DEF Arranged, SortKey
  <2>7. \A i, j \in DOMAIN out : i < j =>
             /\ input.dir * OrZero(out[i].value) <= input.dir * OrZero(out[j].value)
             /\ out[i].value = out[j].value => out[i].place < out[j].place
    BY <2>3, <2>4, <2>6 DEF Arranged, Stable, RowLoop!SortedBy
  <2> QED BY <2>4, <2>5, <2>7 DEF InOrder, out, rows
<1> QED BY <1>1, GivenInvariant, PTL

-----------------------------------------------------------------------------
(* The chart: the samples in order of time *)

\* The loops of the chart with their context: none, and the threshold of a hole.
ByTimeIn(c, s, p) == ByTime(s, p)
TakenIn(c, lines, p) == Taken(lines, p, c)

PointLoop == INSTANCE FoldLemmas WITH Op <- ByTimeIn
LineLoop == INSTANCE FoldLemmas WITH Op <- TakenIn

\* The loops of the lemmas are those of the chart.
LEMMA PtsFolds == ASSUME NEW raw PROVE Pts(raw) = PointLoop!Fold(0, <<>>, raw)
BY Zenon DEF Pts, ByTimeIn, FoldLeft, MapThenFoldSet, Max,
   PointLoop!Fold, PointLoop!FoldLeft, PointLoop!MapThenFoldSet, PointLoop!Max

LEMMA SegmentsFolds ==
    ASSUME NEW raw, NEW gap, NEW tMax
    PROVE  Segments(raw, gap, tMax) =
             Closed(LineLoop!Fold(gap, [done |-> <<>>, seg |-> <<>>], Pts(raw)), gap, tMax)
BY Zenon DEF Segments, TakenIn, FoldLeft, MapThenFoldSet, Max,
   LineLoop!Fold, LineLoop!FoldLeft, LineLoop!MapThenFoldSet, LineLoop!Max

Samples == [t : Int, v : Int \cup {NotFinite}]
Drawings == [t : Int, v : Int]
Reals == {p \in Drawings : p.v # NotFinite}
TimeKey == [p \in Reals |-> p.t]

\* Where a sample goes: behind the last one that is not later.
LEMMA ByTimeFacts ==
    ASSUME NEW s \in Seq(Reals), NEW p \in Samples
    PROVE  /\ p.v = NotFinite => ByTime(s, p) = s
           /\ p.v # NotFinite =>
                /\ p \in Reals
                /\ \E n \in 0 .. Len(s) :
                     /\ PointLoop!Inserted(Reals, s, n, p, ByTime(s, p))
                     /\ n # 0 => TimeKey[s[n]] <= TimeKey[p]
                     /\ \A i \in 1 .. Len(s) : i > n => TimeKey[p] <= TimeKey[s[i]]
                     /\ \A i \in 1 .. Len(s) : i > n => TimeKey[p] # TimeKey[s[i]]
<1>1. p.v = NotFinite => ByTime(s, p) = s
  BY DEF ByTime
<1> SUFFICES ASSUME p.v # NotFinite
             PROVE  /\ p \in Reals
                    /\ \E n \in 0 .. Len(s) :
                         /\ PointLoop!Inserted(Reals, s, n, p, ByTime(s, p))
                         /\ n # 0 => TimeKey[s[n]] <= TimeKey[p]
                         /\ \A i \in 1 .. Len(s) : i > n => TimeKey[p] <= TimeKey[s[i]]
                         /\ \A i \in 1 .. Len(s) : i > n => TimeKey[p] # TimeKey[s[i]]
  BY <1>1
<1>2. p \in Reals
  BY DEF Samples, Drawings, Reals
<1> DEFINE I == {i \in 1 .. Len(s) : s[i].t <= p.t}
           n == IF I # {} THEN PointLoop!Max(I) ELSE 0
<1>3. ByTime(s, p) = PointLoop!InsertAt(s, 1 + n, p)
  BY Zenon DEF ByTime, SelectLastInSeq, Max, PointLoop!Max, InsertAt, PointLoop!InsertAt
<1>4. n \in 0 .. Len(s) /\ (n # 0 => n \in I) /\ \A i \in I : i <= n
  <2>1. I \in SUBSET (1 .. Len(s)) /\ Len(s) \in Nat
    OBVIOUS
  <2> HIDE DEF I
  <2> QED BY <2>1, PointLoop!LastPosition
<1>5. /\ TimeKey[p] = p.t /\ p.t \in Int
      /\ \A i \in 1 .. Len(s) : TimeKey[s[i]] = s[i].t /\ s[i].t \in Int
  <2>1. \A q \in Reals : TimeKey[q] = q.t /\ q.t \in Int
    BY DEF TimeKey, Reals, Drawings
  <2>2. \A i \in 1 .. Len(s) : s[i] \in Reals
    OBVIOUS
  <2> QED BY <1>2, <2>1, <2>2
<1> HIDE DEF n
<1>6. n # 0 => TimeKey[s[n]] <= TimeKey[p]
  BY <1>4, <1>5
<1>7. ASSUME NEW i \in 1 .. Len(s), i > n
      PROVE  TimeKey[p] <= TimeKey[s[i]] /\ TimeKey[p] # TimeKey[s[i]]
  <2>1. i \notin I
    BY <1>4, <1>7
  <2>2. ~(s[i].t <= p.t)
    BY <2>1
  <2> QED BY <2>2, <1>5
<1>8. PointLoop!Inserted(Reals, s, n, p, ByTime(s, p))
  BY <1>2, <1>3, <1>4, PointLoop!InsertFacts
<1> HIDE DEF I
<1> QED BY <1>2, <1>4, <1>6, <1>7, <1>8

\* The finite ones of the first k samples are in s, in order of time.
Timed(raw, k, s) ==
    /\ s \in Seq(Reals)
    /\ ToSet(s) = {p \in {raw[i] : i \in 1 .. k} : p.v # NotFinite}
    /\ PointLoop!SortedBy(TimeKey, s)

\* One more sample keeps them so.
LEMMA TimedStep ==
    ASSUME NEW raw \in Seq(Samples), NEW k \in 1 .. Len(raw), NEW s, Timed(raw, k - 1, s)
    PROVE  Timed(raw, k, ByTime(s, raw[k]))
<1> DEFINE p == raw[k]
           r == ByTime(s, p)
<1>0. k \in Nat \ {0} /\ p \in Samples /\ s \in Seq(Reals) /\ TimeKey \in [Reals -> Int]
  BY DEF Timed, TimeKey, Reals, Drawings
<1>1. {raw[i] : i \in 1 .. k} = {raw[i] : i \in 1 .. (k - 1)} \cup {p}
  BY <1>0, PointLoop!PrefixGrows
<1>2. ToSet(s) = {q \in {raw[i] : i \in 1 .. (k - 1)} : q.v # NotFinite} /\ PointLoop!SortedBy(TimeKey, s)
  BY DEF Timed
<1>3. /\ p.v = NotFinite => r = s
      /\ p.v # NotFinite =>
                /\ p \in Reals
                /\ \E n \in 0 .. Len(s) :
                     /\ PointLoop!Inserted(Reals, s, n, p, r)
                     /\ n # 0 => TimeKey[s[n]] <= TimeKey[p]
                     /\ \A i \in 1 .. Len(s) : i > n => TimeKey[p] <= TimeKey[s[i]]
  BY <1>0, ByTimeFacts
<1> HIDE DEF p, r
<1>4. CASE p.v = NotFinite
  <2>1. {q \in {raw[i] : i \in 1 .. k} : q.v # NotFinite}
          = {q \in {raw[i] : i \in 1 .. (k - 1)} : q.v # NotFinite}
    BY <1>1, <1>4
  <2>2. r = s
    BY <1>3, <1>4
  <2> QED BY <1>0, <1>2, <2>1, <2>2 DEF Timed, p, r
<1>5. CASE p.v # NotFinite
  <2>1. p \in Reals
    BY <1>3, <1>5
  <2>2. PICK n \in 0 .. Len(s) :
                     /\ PointLoop!Inserted(Reals, s, n, p, r)
                     /\ n # 0 => TimeKey[s[n]] <= TimeKey[p]
                     /\ \A i \in 1 .. Len(s) : i > n => TimeKey[p] <= TimeKey[s[i]]
    BY <1>3, <1>5
  <2>3. {q \in {raw[i] : i \in 1 .. k} : q.v # NotFinite}
          = {q \in {raw[i] : i \in 1 .. (k - 1)} : q.v # NotFinite} \cup {p}
    BY <1>1, <1>5
  <2>4. ToSet(r) = ToSet(s) \cup {p}
    <3>1. PointLoop!ToSet(r) = PointLoop!ToSet(s) \cup {p}
      BY <1>0, <2>1, <2>2, PointLoop!InsertSet
    <3> QED BY <3>1, Zenon DEF ToSet, PointLoop!ToSet
  <2>5. PointLoop!SortedBy(TimeKey, r)
    BY <1>0, <1>2, <2>1, <2>2, PointLoop!InsertSorted
  <2>6. r \in Seq(Reals)
    BY <2>2 DEF PointLoop!Inserted
  <2> QED BY <1>2, <2>3, <2>4, <2>5, <2>6 DEF Timed, p, r
<1> QED BY <1>4, <1>5

\* The points of the chart are the finite samples, in order of time.
LEMMA PtsTimed ==
    ASSUME NEW raw \in Seq(Samples)
    PROVE  Timed(raw, Len(raw), Pts(raw))
<1> DEFINE V == Seq(Reals)
           J == {w \in Nat \X V : Timed(raw, w[1], w[2])}
<1>1. PointLoop!Closed(0, V, Len(raw), raw)
  <2> SUFFICES ASSUME NEW s \in V, NEW k \in 1 .. Len(raw)
               PROVE  ByTime(s, raw[k]) \in V
    BY Zenon DEF PointLoop!Closed, ByTimeIn
  <2>1. raw[k] \in Samples
    OBVIOUS
  <2>2. \/ ByTime(s, raw[k]) = s
        \/ \E n \in 0 .. Len(s) : PointLoop!Inserted(Reals, s, n, raw[k], ByTime(s, raw[k]))
    BY <2>1, ByTimeFacts
  <2> QED BY <2>2 DEF PointLoop!Inserted
<1>2. PointLoop!Inductive(0, V, <<>>, raw, J)
  <2>1. <<0, <<>>>> \in J
    <3>1. ToSet(<<>>) = {} /\ {raw[i] : i \in 1 .. 0} = {}
      BY DEF ToSet
    <3>2. <<>> \in V /\ Len(<<>>) = 0
      OBVIOUS
    <3>3. Timed(raw, 0, <<>>)
      BY <3>1, <3>2 DEF Timed, PointLoop!SortedBy
    <3>4. \A e \in V : Timed(raw, 0, e) => <<0, e>> \in J
      OBVIOUS
    <3> HIDE DEF V, J
    <3> QED BY <3>2, <3>3, <3>4, Zenon
  <2>2. ASSUME NEW k \in 1 .. Len(raw), NEW s \in V, <<k - 1, s>> \in J
        PROVE  <<k, ByTime(s, raw[k])>> \in J
    <3>1. Timed(raw, k - 1, s)
      BY <2>2
    <3>2. Timed(raw, k, ByTime(s, raw[k]))
      <4> HIDE DEF J, V
      <4> QED BY <3>1, TimedStep
    <3>3. k \in Nat /\ ByTime(s, raw[k]) \in V
      BY <3>2 DEF Timed
    <3> QED BY <3>2, <3>3
  <2> HIDE DEF J, V
  <2> QED BY <2>1, <2>2, Zenon DEF PointLoop!Inductive, ByTimeIn
<1>3. <<Len(raw), PointLoop!Fold(0, <<>>, raw)>> \in J
  <2>1. <<>> \in V
    OBVIOUS
  <2> HIDE DEF J, V
  <2> QED BY <2>1, <1>1, <1>2, PointLoop!FoldInduction
<1>4. Timed(raw, Len(raw), PointLoop!Fold(0, <<>>, raw))
  BY <1>3
<1> QED BY <1>4, PtsFolds

-----------------------------------------------------------------------------
(* The chart: the lines *)

\* No two neighbours of a segment are further apart than a hole.
Smooth(gap, s) ==
    /\ s \in Seq(Drawings) /\ s # <<>>
    /\ \A k \in 1 .. Len(s) - 1 : s[k + 1].t - s[k].t \in 0 .. gap

\* A segment that starts at zero, behind the hole at the end of those before.
Behind(gap, d, s) == d # <<>> => Head(s).v = 0 /\ Head(s).t - Last(Last(d)).t > gap

\* Segments with a hole between each two, at zero on both sides of it.
Broken(gap, d) ==
    /\ d \in Seq(Seq(Drawings))
    /\ \A n \in 1 .. Len(d) : Smooth(gap, d[n])
    /\ \A n \in 1 .. Len(d) - 1 : Head(d[n + 1]).t - Last(d[n]).t > gap
    /\ \A n \in 1 .. Len(d) : n > 1 => Head(d[n]).v = 0
    /\ \A n \in 1 .. Len(d) - 1 : Last(d[n]).v = 0

\* Head and Last by position.
LEMMA Ends ==
    ASSUME NEW S, NEW s \in Seq(S), s # <<>>
    PROVE  /\ Len(s) \in Nat \ {0} /\ DOMAIN s = 1 .. Len(s)
           /\ Head(s) = s[1] /\ Last(s) = s[Len(s)] /\ Head(s) \in S /\ Last(s) \in S
<1>1. Len(s) \in Nat \ {0} /\ DOMAIN s = 1 .. Len(s)
  BY EmptySeq
<1>2. 1 \in 1 .. Len(s) /\ Len(s) \in 1 .. Len(s)
  BY <1>1
<1> QED BY <1>1, <1>2 DEF Last

\* Append by position.
LEMMA Appended ==
    ASSUME NEW S, NEW s \in Seq(S), NEW e \in S
    PROVE  /\ Append(s, e) \in Seq(S) /\ Append(s, e) # <<>> /\ Len(Append(s, e)) = Len(s) + 1
           /\ \A i \in 1 .. Len(s) : Append(s, e)[i] = s[i]
           /\ Append(s, e)[Len(s) + 1] = e
OBVIOUS

\* A segment takes on a point that is not beyond a hole.
LEMMA SmoothAppend ==
    ASSUME NEW gap \in Nat, NEW s, Smooth(gap, s), NEW p \in Drawings, p.t - Last(s).t \in 0 .. gap
    PROVE  /\ Smooth(gap, Append(s, p)) /\ Head(Append(s, p)) = Head(s) /\ Last(Append(s, p)) = p
           /\ ToSet(Append(s, p)) = ToSet(s) \cup {p}
<1> DEFINE r == Append(s, p)
           n == Len(s)
<1>0. s \in Seq(Drawings) /\ s # <<>> /\ \A k \in 1 .. n - 1 : s[k + 1].t - s[k].t \in 0 .. gap
  BY DEF Smooth
<1>1. n \in Nat \ {0} /\ Head(s) = s[1] /\ Last(s) = s[n]
  BY <1>0, Ends
<1>2. /\ r \in Seq(Drawings) /\ r # <<>> /\ Len(r) = n + 1
      /\ \A k \in 1 .. n : r[k] = s[k]
      /\ r[n + 1] = p
  BY <1>0
<1>3. ToSet(r) = ToSet(s) \cup {p}
  <2>1. PointLoop!ToSet(r) = PointLoop!ToSet(s) \cup {p}
    BY <1>0, PointLoop!AppendFacts
  <2> QED BY <2>1, Zenon DEF ToSet, PointLoop!ToSet
<1> HIDE DEF r, n
<1>4. Head(r) = r[1] /\ Last(r) = r[n + 1]
  BY <1>2, Ends
<1>5. ASSUME NEW k \in 1 .. Len(r) - 1 PROVE r[k + 1].t - r[k].t \in 0 .. gap
  <2>1. CASE k = n
    <3>1. r[k + 1] = p /\ r[k] = Last(s)
      BY <1>1, <1>2, <2>1
    <3> QED BY <3>1
  <2>2. CASE k # n
    <3>1. k \in 1 .. n - 1 /\ k \in 1 .. n /\ k + 1 \in 1 .. n
      BY <1>1, <1>2, <2>2
    <3>2. r[k + 1] = s[k + 1] /\ r[k] = s[k]
      BY <1>2, <3>1
    <3> QED BY <1>0, <3>1, <3>2
  <2> QED BY <2>1, <2>2
<1>6. Smooth(gap, r)
  BY <1>2, <1>5 DEF Smooth
<1>7. Head(r) = Head(s) /\ Last(r) = p
  BY <1>1, <1>2, <1>4
<1> QED BY <1>3, <1>6, <1>7 DEF r

\* The zero under a point.
Under(p) == [t |-> p.t, v |-> 0]

\* A segment that is taken to zero.
LEMMA SmoothStub ==
    ASSUME NEW gap \in Nat, NEW s, Smooth(gap, s)
    PROVE  LET r == s \o Stub(Last(s))
           IN  /\ Smooth(gap, r) /\ Head(r) = Head(s) /\ Last(r).t = Last(s).t /\ Last(r).v = 0
               /\ ToSet(r) \in {ToSet(s), ToSet(s) \cup {Under(Last(s))}}
<1> DEFINE p == Under(Last(s))
           r == s \o Stub(Last(s))
<1>0. s \in Seq(Drawings) /\ s # <<>> /\ Last(s) \in Drawings
  BY Ends DEF Smooth
<1>1. p \in Drawings /\ p.t - Last(s).t = 0 /\ p.t = Last(s).t /\ p.v = 0 /\ 0 \in 0 .. gap
  BY <1>0 DEF Drawings, Under
<1>2. CASE Last(s).v = 0
  <2>1. r = s
    BY <1>0, <1>2 DEF Stub
  <2> QED BY <2>1, <1>2
<1>3. CASE Last(s).v # 0
  <2>1. r = Append(s, p)
    BY <1>0, <1>3 DEF Stub, Under
  <2> HIDE DEF p, r
  <2>2. /\ Smooth(gap, r) /\ Head(r) = Head(s) /\ Last(r) = p
        /\ ToSet(r) = ToSet(s) \cup {p}
    BY <1>1, <2>1, SmoothAppend
  <2> QED BY <1>1, <2>2 DEF p, r
<1> QED BY <1>2, <1>3

\* A segment that is started behind a hole.
LEMMA SmoothStart ==
    ASSUME NEW gap \in Nat, NEW p \in Drawings
    PROVE  LET r == Append(Stub(p), p)
           IN  /\ Smooth(gap, r) /\ Head(r).t = p.t /\ Head(r).v = 0 /\ Last(r) = p
               /\ ToSet(r) \in {{p}, {p, Under(p)}}
<1> DEFINE r == Append(Stub(p), p)
<1>1. CASE p.v = 0
  <2>1. r = <<p>>
    BY <1>1 DEF Stub
  <2>2. /\ r \in Seq(Drawings) /\ r # <<>> /\ Len(r) = 1 /\ r[1] = p /\ DOMAIN r = {1}
    BY <2>1
  <2> HIDE DEF r
  <2>3. Head(r) = p /\ Last(r) = p
    BY <2>2, Ends
  <2>4. ToSet(r) = {p}
    BY <2>2 DEF ToSet
  <2> QED BY <1>1, <2>2, <2>3, <2>4 DEF r, Smooth
<1>2. CASE p.v # 0
  <2>1. r \in Seq(Drawings) /\ Len(r) = 2 /\ r[1] = Under(p) /\ r[2] = p
    <3>1. Stub(p) = <<Under(p)>>
      BY <1>2 DEF Stub, Under
    <3>2. /\ Under(p) \in Drawings /\ <<Under(p)>> \in Seq(Drawings) /\ Len(<<Under(p)>>) = 1
          /\ <<Under(p)>>[1] = Under(p)
      BY DEF Under, Drawings
    <3> HIDE DEF r
    <3>3. r = Append(<<Under(p)>>, p)
      BY <3>1 DEF r
    <3> QED BY <3>2, <3>3, Appended
  <2>2. /\ Under(p) \in Drawings /\ Under(p).t = p.t /\ Under(p).v = 0 /\ p.t \in Int
    BY DEF Under, Drawings
  <2>3. /\ r \in Seq(Drawings) /\ r # <<>> /\ Len(r) = 2 /\ r[1] = Under(p) /\ r[2] = p
        /\ DOMAIN r = {1, 2}
    <3> HIDE DEF r
    <3> QED BY <2>1
  <2> HIDE DEF r
  <2>4. Head(r) = Under(p) /\ Last(r) = p
    BY <2>3, Ends
  <2>5. ToSet(r) = {p, Under(p)}
    BY <2>3 DEF ToSet
  <2>6. \A k \in 1 .. Len(r) - 1 : r[k + 1].t - r[k].t \in 0 .. gap
    <3> SUFFICES ASSUME NEW k \in 1 .. Len(r) - 1 PROVE r[k + 1].t - r[k].t \in 0 .. gap
      OBVIOUS
    <3>1. k = 1 /\ r[k + 1].t = p.t /\ r[k].t = p.t
      BY <2>2, <2>3
    <3>2. p.t - p.t = 0 /\ 0 \in 0 .. gap
      BY <2>2
    <3> QED BY <3>1, <3>2
  <2> QED BY <2>2, <2>3, <2>4, <2>5, <2>6 DEF r, Smooth
<1> QED BY <1>1, <1>2

\* Finished segments take on another that is behind them, if they end at zero.
LEMMA BrokenAppend ==
    ASSUME NEW gap \in Nat, NEW d, Broken(gap, d), NEW s, Smooth(gap, s), Behind(gap, d, s),
           d # <<>> => Last(Last(d)).v = 0
    PROVE  /\ Broken(gap, Append(d, s)) /\ Append(d, s) # <<>> /\ Last(Append(d, s)) = s
           /\ ToSet(Append(d, s)) = ToSet(d) \cup {s}
<1> DEFINE r == Append(d, s)
           n == Len(d)
<1>0. /\ d \in Seq(Seq(Drawings)) /\ s \in Seq(Drawings) /\ n \in Nat
      /\ \A i \in 1 .. n : Smooth(gap, d[i])
      /\ \A i \in 1 .. n - 1 : Head(d[i + 1]).t - Last(d[i]).t > gap
      /\ \A i \in 1 .. n : i > 1 => Head(d[i]).v = 0
      /\ \A i \in 1 .. n - 1 : Last(d[i]).v = 0
  BY DEF Broken, Smooth
<1>1. /\ r \in Seq(Seq(Drawings)) /\ r # <<>> /\ Len(r) = n + 1
      /\ \A i \in 1 .. n : r[i] = d[i]
      /\ r[n + 1] = s
  BY <1>0, Appended
<1>2. ToSet(r) = ToSet(d) \cup {s}
  <2>1. PointLoop!ToSet(r) = PointLoop!ToSet(d) \cup {s}
    BY <1>0, PointLoop!AppendFacts
  <2> QED BY <2>1, Zenon DEF ToSet, PointLoop!ToSet
<1>3. n > 0 => Last(d) = d[n] /\ d # <<>>
  <2> SUFFICES ASSUME n > 0 PROVE Last(d) = d[n] /\ d # <<>>
    OBVIOUS
  <2>1. d # <<>>
    BY <1>0
  <2> QED BY <1>0, <2>1, Ends
<1>4. n > 0 => Head(s).v = 0 /\ Head(s).t - Last(d[n]).t > gap /\ Last(d[n]).v = 0
  BY <1>3 DEF Behind
<1> HIDE DEF r, n
<1>5. Last(r) = s
  BY <1>1, Ends
<1>6. \A i \in 1 .. Len(r) : Smooth(gap, r[i])
  <2> SUFFICES ASSUME NEW i \in 1 .. n + 1 PROVE Smooth(gap, r[i])
    BY <1>1
  <2>1. i \in 1 .. n \/ i = n + 1
    BY <1>0
  <2> QED BY <1>0, <1>1, <2>1
<1>7. ASSUME NEW i \in 1 .. Len(r) - 1
      PROVE  Head(r[i + 1]).t - Last(r[i]).t > gap /\ Last(r[i]).v = 0
  <2>1. CASE i = n
    <3>1. n > 0 /\ r[i] = d[n] /\ r[i + 1] = s
      BY <1>0, <1>1, <2>1
    <3> QED BY <1>4, <3>1
  <2>2. CASE i # n
    <3>0. Len(r) = n + 1 /\ n \in Nat
      BY <1>0, <1>1
    <3>1. i \in 1 .. n - 1 /\ i \in 1 .. n /\ i + 1 \in 1 .. n
      BY <2>2, <3>0
    <3>2. r[i] = d[i] /\ r[i + 1] = d[i + 1]
      BY <1>1, <3>1
    <3> QED BY <1>0, <3>1, <3>2
  <2> QED BY <2>1, <2>2
<1>8. ASSUME NEW i \in 1 .. Len(r), i > 1
      PROVE  Head(r[i]).v = 0
  <2>1. CASE i = n + 1
    <3>1. n > 0 /\ r[i] = s
      BY <1>0, <1>1, <1>8, <2>1
    <3> QED BY <1>4, <3>1
  <2>2. CASE i # n + 1
    <3>1. i \in 1 .. n /\ r[i] = d[i]
      BY <1>0, <1>1, <2>2
    <3> QED BY <1>0, <1>8, <3>1
  <2> QED BY <2>1, <2>2
<1>9. Broken(gap, r)
  BY <1>1, <1>6, <1>7, <1>8 DEF Broken
<1> QED BY <1>1, <1>2, <1>5, <1>9 DEF r

\* What the segments draw.
DrawnOf(d) == UNION {ToSet(s) : s \in ToSet(d)}

\* The points drawn are the samples, and zeros under samples.
Covers(samples, drawn) == samples \subseteq drawn /\ drawn \subseteq samples \cup {Under(p) : p \in samples}

Lines == [done : Seq(Seq(Drawings)), seg : Seq(Drawings)]

\* The lines after the first k points.
Drawing(pts, gap, k, l) ==
    /\ l \in Lines
    /\ k = 0 => l.done = <<>> /\ l.seg = <<>>
    /\ k # 0 => /\ Smooth(gap, l.seg) /\ Last(l.seg) = pts[k]
                /\ Broken(gap, l.done) /\ Behind(gap, l.done, l.seg)
                /\ l.done # <<>> => Last(Last(l.done)).v = 0
    /\ Covers({pts[i] : i \in 1 .. k}, DrawnOf(l.done) \cup ToSet(l.seg))

\* Nothing is drawn before the first point.
LEMMA NoneDrawn == ToSet(<<>>) = {} /\ DrawnOf(<<>>) = {} /\ \A gap : Broken(gap, <<>>)
<1>1. ToSet(<<>>) = {}
  BY DEF ToSet
<1>2. DrawnOf(<<>>) = {}
  BY <1>1 DEF DrawnOf
<1>3. ASSUME NEW gap PROVE Broken(gap, <<>>)
  BY DEF Broken
<1> QED BY <1>1, <1>2, <1>3

\* A hole ends the segment and the next one starts.
LEMMA HoleStep ==
    ASSUME NEW gap \in Nat, NEW p \in Drawings, NEW d, NEW s,
           Smooth(gap, s), Broken(gap, d), Behind(gap, d, s), d # <<>> => Last(Last(d)).v = 0,
           p.t - Last(s).t > gap
    PROVE  LET e == Append(d, s \o Stub(Last(s)))
               r == Append(Stub(p), p)
           IN  /\ Broken(gap, e) /\ Smooth(gap, r) /\ Behind(gap, e, r)
               /\ e # <<>> /\ Last(Last(e)).v = 0 /\ Last(r) = p
               /\ ToSet(r) \in {{p}, {p, Under(p)}}
               /\ DrawnOf(e) \in {DrawnOf(d) \cup ToSet(s), DrawnOf(d) \cup ToSet(s) \cup {Under(Last(s))}}
<1> DEFINE x == s \o Stub(Last(s))
           e == Append(d, x)
           r == Append(Stub(p), p)
<1>1. /\ Smooth(gap, x) /\ Head(x) = Head(s) /\ Last(x).t = Last(s).t /\ Last(x).v = 0
      /\ ToSet(x) \in {ToSet(s), ToSet(s) \cup {Under(Last(s))}}
  BY SmoothStub
<1>2. /\ Smooth(gap, r) /\ Head(r).t = p.t /\ Head(r).v = 0 /\ Last(r) = p
      /\ ToSet(r) \in {{p}, {p, Under(p)}}
  BY SmoothStart
<1> HIDE DEF x, r
<1>3. Behind(gap, d, x)
  BY <1>1 DEF Behind
<1>4. /\ Broken(gap, e) /\ e # <<>> /\ Last(e) = x
      /\ ToSet(e) = ToSet(d) \cup {x}
  BY <1>1, <1>3, BrokenAppend
<1> HIDE DEF e
<1>5. DrawnOf(e) = DrawnOf(d) \cup ToSet(x)
  BY <1>4 DEF DrawnOf
<1>6. Behind(gap, e, r)
  BY <1>1, <1>2, <1>4 DEF Behind
<1>7. DrawnOf(e) \in {DrawnOf(d) \cup ToSet(s), DrawnOf(d) \cup ToSet(s) \cup {Under(Last(s))}}
  BY <1>1, <1>5
<1> QED BY <1>1, <1>2, <1>4, <1>6, <1>7 DEF e, r, x

\* One more point.
LEMMA DrawingStep ==
    ASSUME NEW gap \in Nat, NEW pts \in Seq(Reals), PointLoop!SortedBy(TimeKey, pts),
           NEW k \in 1 .. Len(pts), NEW l, Drawing(pts, gap, k - 1, l)
    PROVE  Drawing(pts, gap, k, Taken(l, pts[k], gap))
<1> DEFINE p == pts[k]
           Q == {pts[i] : i \in 1 .. k}
           R == {pts[i] : i \in 1 .. (k - 1)}
           d == l.done
           s == l.seg
           n == Taken(l, p, gap)
<1>0. k \in Nat \ {0} /\ p \in Reals /\ p \in Drawings /\ d \in Seq(Seq(Drawings)) /\ s \in Seq(Drawings)
      /\ k - 1 \in Nat
  BY DEF Drawing, Lines, Reals
<1>1. Q = R \cup {p}
  BY <1>0, PointLoop!PrefixGrows
<1>2. Covers(R, DrawnOf(d) \cup ToSet(s))
  BY DEF Drawing
<1>3. CASE k = 1
  <2>1. s = <<>> /\ d = <<>>
    BY <1>3 DEF Drawing
  <2>2. ~Hole(s, p.t, gap)
    BY <2>1 DEF Hole
  <2>3. n = [done |-> d, seg |-> Append(s, p)]
    BY <2>2 DEF Taken, Drawing, Lines
  <2>4. n.done = <<>> /\ n.seg = <<p>>
    BY <2>1, <2>3
  <2>5. <<p>> \in Seq(Drawings) /\ Len(<<p>>) = 1 /\ <<p>>[1] = p /\ DOMAIN <<p>> = {1} /\ <<p>> # <<>>
    BY <1>0
  <2>6. Smooth(gap, <<p>>)
    BY <2>5 DEF Smooth
  <2>7. Last(<<p>>) = p /\ ToSet(<<p>>) = {p}
    BY <2>5 DEF Last, ToSet
  <2>8. n \in Lines
    BY <2>3, <2>4, <2>5, <1>0 DEF Lines
  <2>9. Covers(Q, DrawnOf(n.done) \cup ToSet(n.seg))
    <3>1. R = {}
      BY <1>3
    <3>2. DrawnOf(n.done) \cup ToSet(n.seg) = {p}
      BY <2>4, <2>7, NoneDrawn
    <3>3. Q = {p}
      BY <1>1, <3>1
    <3> HIDE DEF Q, n
    <3> QED BY <3>2, <3>3 DEF Covers
  <2>10. Broken(gap, n.done) /\ Behind(gap, n.done, n.seg)
    BY <2>4, NoneDrawn DEF Behind
  <2> HIDE DEF n
  <2> QED BY <1>3, <2>4, <2>6, <2>7, <2>8, <2>9, <2>10 DEF Drawing, n
<1>4. CASE k # 1
  <2>1. /\ Smooth(gap, s) /\ Last(s) = pts[k - 1] /\ Broken(gap, d) /\ Behind(gap, d, s)
        /\ d # <<>> => Last(Last(d)).v = 0
    BY <1>0, <1>4 DEF Drawing
  <2>2. p.t - Last(s).t >= 0 /\ p.t - Last(s).t \in Int /\ Last(s) \in R
    <3>1. k - 1 \in 1 .. Len(pts) /\ k - 1 < k /\ k - 1 \in 1 .. (k - 1)
      BY <1>0, <1>4
    <3>2. TimeKey[pts[k - 1]] <= TimeKey[p]
      BY <3>1 DEF PointLoop!SortedBy
    <3>3. pts[k - 1] \in Reals
      BY <3>1
    <3>4. \A q \in Reals : TimeKey[q] = q.t /\ q.t \in Int
      BY DEF TimeKey, Reals, Drawings
    <3>5. TimeKey[pts[k - 1]] = Last(s).t /\ Last(s).t \in Int /\ TimeKey[p] = p.t /\ p.t \in Int
      BY <1>0, <2>1, <3>3, <3>4
    <3> HIDE DEF p
    <3> QED BY <2>1, <3>1, <3>2, <3>5
  <2>3. s # <<>>
    BY <2>1 DEF Smooth
  <2>4. CASE ~Hole(s, p.t, gap)
    <3>1. n = [done |-> d, seg |-> Append(s, p)]
      BY <2>4 DEF Taken, Drawing, Lines
    <3>2. p.t - Last(s).t \in 0 .. gap
      BY <2>2, <2>3, <2>4 DEF Hole
    <3>3. /\ Smooth(gap, Append(s, p)) /\ Head(Append(s, p)) = Head(s) /\ Last(Append(s, p)) = p
          /\ ToSet(Append(s, p)) = ToSet(s) \cup {p}
      <4> HIDE DEF p, s
      <4> QED BY <1>0, <2>1, <3>2, SmoothAppend
    <3>4. n.done = d /\ n.seg = Append(s, p)
      BY <3>1
    <3>5. n \in Lines
      <4>1. Append(s, p) \in Seq(Drawings)
        BY <3>3 DEF Smooth
      <4> QED BY <1>0, <3>1, <4>1 DEF Lines
    <3> HIDE DEF n
    <3>6. Behind(gap, n.done, n.seg)
      BY <2>1, <3>3, <3>4 DEF Behind
    <3>7. Covers(Q, DrawnOf(n.done) \cup ToSet(n.seg))
      <4>1. DrawnOf(n.done) \cup ToSet(n.seg) = DrawnOf(d) \cup ToSet(s) \cup {p}
        BY <3>3, <3>4
      <4> HIDE DEF Q, R
      <4> QED BY <1>1, <1>2, <4>1 DEF Covers
    <3> QED BY <1>0, <2>1, <3>3, <3>4, <3>5, <3>6, <3>7 DEF Drawing, n
  <2>5. CASE Hole(s, p.t, gap)
    <3> DEFINE e == Append(d, s \o Stub(Last(s)))
               r == Append(Stub(p), p)
    <3>1. n = [done |-> e, seg |-> r]
      BY <2>5 DEF Taken
    <3>2. p.t - Last(s).t > gap
      BY <2>5 DEF Hole
    <3>3. /\ Broken(gap, e) /\ Smooth(gap, r) /\ Behind(gap, e, r)
          /\ e # <<>> /\ Last(Last(e)).v = 0 /\ Last(r) = p
          /\ ToSet(r) \in {{p}, {p, Under(p)}}
          /\ DrawnOf(e) \in {DrawnOf(d) \cup ToSet(s), DrawnOf(d) \cup ToSet(s) \cup {Under(Last(s))}}
      <4> HIDE DEF p, s, d
      <4> QED BY <1>0, <2>1, <3>2, HoleStep
    <3> HIDE DEF e, r
    <3>4. n.done = e /\ n.seg = r
      BY <3>1
    <3>5. n \in Lines
      BY <3>1, <3>3 DEF Lines, Broken, Smooth
    <3> HIDE DEF n
    <3>6. Covers(Q, DrawnOf(n.done) \cup ToSet(n.seg))
      <4> HIDE DEF Q, R, p, s, d
      <4>1. Under(Last(s)) \in {Under(q) : q \in Q} /\ Under(p) \in {Under(q) : q \in Q}
        BY <1>1, <2>2
      <4>2. {Under(q) : q \in R} \subseteq {Under(q) : q \in Q}
        BY <1>1
      <4> QED BY <1>1, <1>2, <3>3, <3>4, <4>1, <4>2 DEF Covers
    <3> QED BY <1>0, <3>3, <3>4, <3>5, <3>6 DEF Drawing, n
  <2> QED BY <2>4, <2>5
<1> QED BY <1>3, <1>4

\* A turn of the loop leaves lines.
LEMMA TakenLines ==
    ASSUME NEW gap, NEW l \in Lines, NEW p \in Drawings
    PROVE  Taken(l, p, gap) \in Lines
<1>1. l.done \in Seq(Seq(Drawings)) /\ l.seg \in Seq(Drawings)
  BY DEF Lines
<1>2. CASE Hole(l.seg, p.t, gap)
  <2>1. l.seg # <<>>
    BY <1>2 DEF Hole
  <2>2. Last(l.seg) \in Drawings
    BY <1>1, <2>1, Ends
  <2>3. \A q \in Drawings : Stub(q) \in Seq(Drawings)
    <3> SUFFICES ASSUME NEW q \in Drawings PROVE Stub(q) \in Seq(Drawings)
      OBVIOUS
    <3>1. Under(q) \in Drawings
      BY DEF Under, Drawings
    <3>2. <<>> \in Seq(Drawings) /\ <<Under(q)>> \in Seq(Drawings)
      BY <3>1
    <3> QED BY <3>2, Zenon DEF Stub, Under
  <2>4. l.seg \o Stub(Last(l.seg)) \in Seq(Drawings) /\ Append(Stub(p), p) \in Seq(Drawings)
    BY <1>1, <2>2, <2>3
  <2>5. Append(l.done, l.seg \o Stub(Last(l.seg))) \in Seq(Seq(Drawings))
    BY <1>1, <2>4, Appended
  <2> QED BY <1>2, <2>4, <2>5 DEF Taken, Lines
<1>3. CASE ~Hole(l.seg, p.t, gap)
  <2>1. Taken(l, p, gap) = [done |-> l.done, seg |-> Append(l.seg, p)]
    BY <1>3 DEF Taken, Lines
  <2>2. Append(l.seg, p) \in Seq(Drawings)
    BY <1>1
  <2> QED BY <1>1, <2>1, <2>2 DEF Lines
<1> QED BY <1>2, <1>3

\* The lines after the last point.
LEMMA AllDrawn ==
    ASSUME NEW gap \in Nat, NEW pts \in Seq(Reals), PointLoop!SortedBy(TimeKey, pts)
    PROVE  Drawing(pts, gap, Len(pts), LineLoop!Fold(gap, [done |-> <<>>, seg |-> <<>>], pts))
<1> DEFINE none == [done |-> <<>>, seg |-> <<>>]
           J == {w \in Nat \X Lines : Drawing(pts, gap, w[1], w[2])}
<1>0. none \in Lines /\ none.done = <<>> /\ none.seg = <<>>
  BY DEF Lines
<1> HIDE DEF none
<1>1. LineLoop!Closed(gap, Lines, Len(pts), pts)
  <2> SUFFICES ASSUME NEW l \in Lines, NEW k \in 1 .. Len(pts)
               PROVE  Taken(l, pts[k], gap) \in Lines
    BY Zenon DEF LineLoop!Closed, TakenIn
  <2>1. pts[k] \in Drawings
    BY DEF Reals
  <2> QED BY <2>1, TakenLines
<1>2. LineLoop!Inductive(gap, Lines, none, pts, J)
  <2>1. <<0, none>> \in J
    <3>1. {pts[i] : i \in 1 .. 0} = {}
      OBVIOUS
    <3>2. Drawing(pts, gap, 0, none)
      BY <1>0, <3>1, NoneDrawn DEF Drawing, Covers
    <3> QED BY <1>0, <3>2
  <2>2. ASSUME NEW k \in 1 .. Len(pts), NEW l \in Lines, <<k - 1, l>> \in J
        PROVE  <<k, Taken(l, pts[k], gap)>> \in J
    <3>1. Drawing(pts, gap, k - 1, l)
      BY <2>2
    <3>2. Drawing(pts, gap, k, Taken(l, pts[k], gap))
      <4> HIDE DEF J
      <4> QED BY <3>1, DrawingStep
    <3>3. k \in Nat /\ Taken(l, pts[k], gap) \in Lines
      BY <3>2 DEF Drawing
    <3> QED BY <3>2, <3>3
  <2> HIDE DEF J
  <2> QED BY <2>1, <2>2, Zenon DEF LineLoop!Inductive, TakenIn
<1>3. <<Len(pts), LineLoop!Fold(gap, none, pts)>> \in J
  <2> HIDE DEF J
  <2> QED BY <1>0, <1>1, <1>2, LineLoop!FoldInduction
<1>4. Drawing(pts, gap, Len(pts), LineLoop!Fold(gap, none, pts))
  BY <1>3
<1> QED BY <1>4 DEF none

\* What chartSegments returns: broken at the holes, at zero there and before an outage,
\* and with the finite samples on it.
LEMMA SegmentsFacts ==
    ASSUME NEW raw \in Seq(Samples), NEW gap \in Nat, NEW tMax \in Int
    PROVE  LET a == Segments(raw, gap, tMax)
           IN  /\ Broken(gap, a)
               /\ a # <<>> /\ tMax - Last(Last(a)).t > gap => Last(Last(a)).v = 0
               /\ Covers({p \in ToSet(raw) : p.v # NotFinite}, DrawnOf(a))
<1> DEFINE pts == Pts(raw)
           l == LineLoop!Fold(gap, [done |-> <<>>, seg |-> <<>>], pts)
           a == Segments(raw, gap, tMax)
           Q == {p \in ToSet(raw) : p.v # NotFinite}
           d == l.done
           s == l.seg
<1>1. pts \in Seq(Reals) /\ PointLoop!SortedBy(TimeKey, pts) /\ ToSet(pts) = Q
  <2>1. Timed(raw, Len(raw), pts)
    BY PtsTimed
  <2>2. ToSet(raw) = {raw[i] : i \in 1 .. Len(raw)}
    BY DEF ToSet
  <2> QED BY <2>1, <2>2 DEF Timed
<1>2. a = Closed(l, gap, tMax)
  BY SegmentsFolds
<1> HIDE DEF pts, a
<1>3. Drawing(pts, gap, Len(pts), l)
  BY <1>1, AllDrawn
<1> HIDE DEF l
<1>4. Covers(Q, DrawnOf(d) \cup ToSet(s))
  <2>1. ToSet(pts) = {pts[i] : i \in 1 .. Len(pts)}
    BY <1>1 DEF ToSet
  <2> QED BY <1>1, <1>3, <2>1 DEF Drawing
<1> HIDE DEF Q
<1>5. CASE Len(pts) = 0
  <2>1. d = <<>> /\ s = <<>>
    BY <1>3, <1>5 DEF Drawing
  <2>2. a = <<>>
    BY <1>2, <2>1 DEF Closed
  <2> QED BY <1>4, <2>1, <2>2, NoneDrawn DEF Q, a
<1>6. CASE Len(pts) # 0
  <2>1. /\ Smooth(gap, s) /\ Broken(gap, d) /\ Behind(gap, d, s)
        /\ d # <<>> => Last(Last(d)).v = 0
    BY <1>3, <1>6 DEF Drawing
  <2> HIDE DEF d, s
  <2> DEFINE x == s \o (IF Hole(s, tMax, gap) THEN Stub(Last(s)) ELSE <<>>)
  <2>2. s # <<>> /\ s \in Seq(Drawings)
    BY <2>1 DEF Smooth
  <2>3. a = Append(d, x)
    BY <1>2, <2>2 DEF Closed, d, s
  <2>4. Last(s) \in Q
    <3>1. Len(pts) \in 1 .. Len(pts) /\ Last(s) = pts[Len(pts)]
      BY <1>1, <1>3, <1>6 DEF Drawing, s
    <3> QED BY <1>1, <3>1 DEF ToSet
  <2>5. /\ Smooth(gap, x) /\ Head(x) = Head(s) /\ Last(x).t = Last(s).t
        /\ Hole(s, tMax, gap) => Last(x).v = 0
        /\ ToSet(x) \in {ToSet(s), ToSet(s) \cup {Under(Last(s))}}
    <3>1. CASE Hole(s, tMax, gap)
      BY <2>1, <3>1, SmoothStub
    <3>2. CASE ~Hole(s, tMax, gap)
      <4>1. x = s
        BY <2>2, <3>2
      <4> QED BY <2>1, <3>2, <4>1
    <3> QED BY <3>1, <3>2
  <2> HIDE DEF x
  <2>6. Behind(gap, d, x)
    BY <2>1, <2>5 DEF Behind
  <2>7. /\ Broken(gap, a) /\ a # <<>> /\ Last(a) = x
        /\ ToSet(a) = ToSet(d) \cup {x}
    BY <2>1, <2>3, <2>5, <2>6, BrokenAppend
  <2>8. DrawnOf(a) = DrawnOf(d) \cup ToSet(x)
    BY <2>7 DEF DrawnOf
  <2>9. Covers(Q, DrawnOf(a))
    BY <1>4, <2>4, <2>5, <2>8 DEF Covers, d, s
  <2>10. tMax - Last(Last(a)).t > gap => Last(Last(a)).v = 0
    BY <2>2, <2>5, <2>7 DEF Hole
  <2> QED BY <2>7, <2>9, <2>10 DEF a, Q
<1> QED BY <1>5, <1>6

\* The samples of a series the chart may get.
LEMMA GivenSeries ==
    ASSUME Given, input.part = "series"
    PROVE  input.raw \in Seq(Samples) /\ input.gap \in Nat /\ input.since \in Int /\ input.tMax \in Int
BY InputKinds, PureAssumption DEF Samples

\* No line runs across a hole, none is broken elsewhere, and lines are at zero on both
\* sides of a hole and before an outage: for all samples in any order, every threshold
\* and every window (chartSegments).
THEOREM ChartBreaks == PureSpec => []BreaksAtHoles
<1>1. Given => BreaksAtHoles
  <2> SUFFICES ASSUME Given, input.part = "series"
               PROVE  /\ BrokenAtHoles(input.raw, input.gap, input.tMax)
                      /\ ZeroAtHoles(input.raw, input.gap, input.tMax)
    BY DEF BreaksAtHoles
  <2> DEFINE a == Segments(input.raw, input.gap, input.tMax)
  <2>1. /\ Broken(input.gap, a)
        /\ a # <<>> /\ input.tMax - Last(Last(a)).t > input.gap => Last(Last(a)).v = 0
    BY GivenSeries, SegmentsFacts
  <2> HIDE DEF a
  <2>2. a \in Seq(Seq(Drawings)) /\ DOMAIN a = 1 .. Len(a) /\ Len(a) \in Nat
    BY <2>1 DEF Broken
  <2>3. BrokenAtHoles(input.raw, input.gap, input.tMax)
    <3>1. ASSUME NEW s \in ToSet(a) PROVE Smooth(input.gap, s)
      <4>1. PICK i \in 1 .. Len(a) : s = a[i]
        BY <2>2 DEF ToSet
      <4> QED BY <2>1, <4>1 DEF Broken
    <3> QED BY <2>1, <3>1 DEF Broken, Smooth, BrokenAtHoles, a
  <2>4. ZeroAtHoles(input.raw, input.gap, input.tMax)
    <3>1. ASSUME NEW n \in 1 .. Len(a), n < Len(a) \/ input.tMax - Last(a[n]).t > input.gap
          PROVE  Last(a[n]).v = 0
      <4>1. CASE n < Len(a)
        <5>1. n \in 1 .. Len(a) - 1
          BY <2>2, <4>1
        <5> QED BY <2>1, <5>1 DEF Broken
      <4>2. CASE ~(n < Len(a))
        <5>1. n = Len(a) /\ a # <<>>
          <6>1. \A m \in Nat : \A i \in 1 .. m : ~(i < m) => i = m /\ m # 0
            OBVIOUS
          <6>2. n = Len(a) /\ Len(a) # 0
            BY <2>2, <4>2, <6>1, Zenon
          <6> QED BY <6>2
        <5>2. Last(a) = a[n]
          BY <2>2, <5>1, Ends
        <5> QED BY <2>1, <3>1, <4>2, <5>1, <5>2
      <4> QED BY <4>1, <4>2
    <3>2. \A n \in 1 .. Len(a) : n > 1 => Head(a[n]).v = 0
      BY <2>1 DEF Broken
    <3> QED BY <2>2, <3>1, <3>2 DEF ZeroAtHoles, a
  <2> QED BY <2>3, <2>4
<1> QED BY <1>1, GivenInvariant, PTL

\* Every finite sample is drawn, and nothing else but a zero at the time of one
\* (chartSegments).
THEOREM ChartSamples == PureSpec => []SamplesDrawn
<1>1. Given => SamplesDrawn
  <2> SUFFICES ASSUME Given, input.part = "series"
               PROVE  DrawsSamples(input.raw, input.gap, input.tMax)
    BY DEF SamplesDrawn
  <2> DEFINE a == Segments(input.raw, input.gap, input.tMax)
             Q == {p \in ToSet(input.raw) : p.v # NotFinite}
  <2>1. Covers(Q, DrawnOf(a))
    BY GivenSeries, SegmentsFacts
  <2>2. \A q : Under(q).v = 0 /\ Under(q).t = q.t
    BY DEF Under
  <2> HIDE DEF a, Q
  <2>3. Q \subseteq DrawnOf(a) /\ \A p \in DrawnOf(a) \ Q : p.v = 0 /\ \E q \in Q : q.t = p.t
    <3>1. ASSUME NEW p \in DrawnOf(a) \ Q PROVE p.v = 0 /\ \E q \in Q : q.t = p.t
      <4>1. PICK q \in Q : p = Under(q)
        BY <2>1 DEF Covers
      <4> QED BY <2>2, <4>1
    <3> QED BY <2>1, <3>1 DEF Covers
  <2> QED BY <2>3 DEF DrawsSamples, DrawnOf, a, Q
<1> QED BY <1>1, GivenInvariant, PTL

\* Min and Max of the chart are those of the lemmas.
LEMMA FiniteEnds ==
    ASSUME NEW S \in SUBSET Int, IsFiniteSet(S), S # {}
    PROVE  /\ Min(S) \in S /\ \A y \in S : Min(S) <= y
           /\ Max(S) \in S /\ \A y \in S : Max(S) >= y
<1>1. Min(S) = PointLoop!Min(S) /\ Max(S) = PointLoop!Max(S)
  BY Zenon DEF Min, Max, PointLoop!Min, PointLoop!Max
<1>2. PointLoop!IsFiniteSet(S)
  BY Zenon DEF IsFiniteSet, PointLoop!IsFiniteSet
<1>3. PointLoop!Min(S) \in S /\ \A y \in S : PointLoop!Min(S) <= y
  BY <1>2, PointLoop!FiniteMin
<1>4. PointLoop!Max(S) \in S /\ \A y \in S : PointLoop!Max(S) >= y
  BY <1>2, PointLoop!FiniteMax
<1> QED BY <1>1, <1>3, <1>4

\* A function has finitely many values on a finite set.
LEMMA ImageFinite ==
    ASSUME NEW S, IsFiniteSet(S), NEW f, DOMAIN f = S, f = [x \in S |-> f[x]]
    PROVE  IsFiniteSet({f[x] : x \in S})
<1>1. f \in Surjection(S, {f[x] : x \in S})
  BY DEF Surjection
<1> QED BY <1>1, FS_Surjection

\* A sequence has finitely many elements.
LEMMA ToSetFinite == ASSUME NEW S, NEW s \in Seq(S) PROVE IsFiniteSet(ToSet(s)) /\ ToSet(s) \subseteq S
<1>1. DOMAIN s = 1 .. Len(s) /\ Len(s) \in Nat /\ \A i \in DOMAIN s : s[i] \in S
  OBVIOUS
<1>2. IsFiniteSet(1 .. Len(s))
  BY <1>1, FS_Interval
<1>3. ToSet(s) = {s[i] : i \in 1 .. Len(s)}
  BY <1>1 DEF ToSet
<1>4. s \in Surjection(1 .. Len(s), ToSet(s))
  BY <1>1, <1>3 DEF Surjection
<1>5. IsFiniteSet(ToSet(s))
  BY <1>2, <1>4, FS_Surjection
<1>6. ToSet(s) \subseteq S
  BY <1>1, <1>3
<1> QED BY <1>5, <1>6

\* Segments draw finitely many points, and at least one each.
LEMMA DrawnFinite ==
    ASSUME NEW gap, NEW a, Broken(gap, a), a # <<>>
    PROVE  IsFiniteSet(DrawnOf(a)) /\ DrawnOf(a) \subseteq Drawings /\ DrawnOf(a) # {}
<1>1. a \in Seq(Seq(Drawings)) /\ Len(a) \in Nat /\ DOMAIN a = 1 .. Len(a)
  BY DEF Broken
<1>2. ASSUME NEW s \in ToSet(a)
      PROVE  IsFiniteSet(ToSet(s)) /\ ToSet(s) \subseteq Drawings /\ ToSet(s) # {}
  <2>1. PICK i \in 1 .. Len(a) : s = a[i]
    BY <1>1 DEF ToSet
  <2>2. s \in Seq(Drawings) /\ s # <<>>
    BY <2>1 DEF Broken, Smooth
  <2>3. 1 \in DOMAIN s
    BY <2>2, Ends
  <2>4. ToSet(s) # {}
    BY <2>3 DEF ToSet
  <2> QED BY <2>2, <2>4, ToSetFinite
<1>3. IsFiniteSet(ToSet(a))
  BY <1>1, ToSetFinite
<1> DEFINE U == {ToSet(s) : s \in ToSet(a)}
<1>4. IsFiniteSet(U)
  <2> DEFINE f == [s \in ToSet(a) |-> ToSet(s)]
  <2>1. U = {f[s] : s \in ToSet(a)}
    OBVIOUS
  <2>2. DOMAIN f = ToSet(a) /\ f = [x \in ToSet(a) |-> f[x]]
    OBVIOUS
  <2> HIDE DEF f, U
  <2> QED BY <1>3, <2>1, <2>2, ImageFinite
<1>5. IsFiniteSet(DrawnOf(a))
  <2>1. \A x \in U : IsFiniteSet(x)
    BY <1>2
  <2> QED BY <1>4, <2>1, FS_UNION DEF DrawnOf
<1>6. DrawnOf(a) \subseteq Drawings
  BY <1>2 DEF DrawnOf
<1>7. DrawnOf(a) # {}
  <2>1. 1 \in DOMAIN a
    BY <1>1, Ends
  <2>2. a[1] \in ToSet(a)
    BY <2>1 DEF ToSet
  <2>3. ToSet(a[1]) # {}
    BY <1>2, <2>2
  <2> QED BY <2>2, <2>3 DEF DrawnOf
<1> QED BY <1>5, <1>6, <1>7

\* The axes around segments.
LEMMA ScaleFacts ==
    ASSUME NEW gap, NEW a, Broken(gap, a), a # <<>>, NEW since \in Int, NEW until \in Int
    PROVE  LET scale == Scale(a, since, until)
           IN  /\ scale.tMin < scale.tMax
               /\ \A p \in DrawnOf(a) :
                    /\ scale.tMin <= p.t /\ p.t <= scale.tMax
                    /\ scale.vMin < 25 * p.v /\ 25 * p.v < scale.vMax
<1> DEFINE P == DrawnOf(a)
           T == {p.t : p \in P}
           V == {p.v : p \in P}
           outage(s) == Len(s) > 1 /\ Last(s).v = 0 /\ s[Len(s) - 1].v # 0
           gaps == Len(a) > 1 \/ \E s \in ToSet(a) : outage(s)
           tMin == Min({since} \cup T)
           tMax == Max({until} \cup T)
           lowest == IF gaps /\ Min(V) > 0 THEN 0 ELSE Min(V)
           low == IF lowest = Max(V) THEN lowest - 1 ELSE lowest
           high == IF lowest = Max(V) THEN lowest + 1 ELSE Max(V)
           scale == [tMin |-> tMin, tMax |-> IF tMin = tMax THEN tMin + 1 ELSE tMax,
                     vMin |-> 25 * low - 2 * (high - low), vMax |-> 25 * high + 2 * (high - low)]
<1>1. Scale(a, since, until) = scale
  BY Zenon DEF Scale, DrawnOf
<1>2. IsFiniteSet(P) /\ P \subseteq Drawings /\ P # {}
  BY DrawnFinite
<1> HIDE DEF P, gaps
<1>3. \A p \in P : p.t \in Int /\ p.v \in Int
  BY <1>2 DEF Drawings
<1>4. /\ {since} \cup T \in SUBSET Int /\ IsFiniteSet({since} \cup T)
      /\ {until} \cup T \in SUBSET Int /\ IsFiniteSet({until} \cup T)
  <2>1. IsFiniteSet(T)
    <3> DEFINE f == [p \in P |-> p.t]
    <3>1. T = {f[p] : p \in P}
      OBVIOUS
    <3>2. DOMAIN f = P /\ f = [x \in P |-> f[x]]
      OBVIOUS
    <3> HIDE DEF f
    <3> QED BY <1>2, <3>1, <3>2, ImageFinite
  <2>2. IsFiniteSet({since} \cup T) /\ IsFiniteSet({until} \cup T)
    BY <2>1, FS_Singleton, FS_Union
  <2> QED BY <1>3, <2>2
<1>5. V \in SUBSET Int /\ IsFiniteSet(V) /\ V # {}
  <2>1. IsFiniteSet(V)
    <3> DEFINE f == [p \in P |-> p.v]
    <3>1. V = {f[p] : p \in P}
      OBVIOUS
    <3>2. DOMAIN f = P /\ f = [x \in P |-> f[x]]
      OBVIOUS
    <3> HIDE DEF f
    <3> QED BY <1>2, <3>1, <3>2, ImageFinite
  <2> QED BY <1>2, <1>3, <2>1
<1>6. /\ tMin \in Int /\ tMin <= since /\ \A p \in P : tMin <= p.t
      /\ tMax \in Int /\ until <= tMax /\ \A p \in P : p.t <= tMax
  <2> DEFINE A == {since} \cup T
             B == {until} \cup T
  <2>1. since \in A /\ until \in B /\ \A p \in P : p.t \in A /\ p.t \in B
    OBVIOUS
  <2>2. A \in SUBSET Int /\ IsFiniteSet(A) /\ B \in SUBSET Int /\ IsFiniteSet(B)
    BY <1>4
  <2> HIDE DEF A, B
  <2>3. Min(A) \in A /\ \A y \in A : Min(A) <= y
    BY <2>1, <2>2, FiniteEnds
  <2>4. Max(B) \in B /\ \A y \in B : Max(B) >= y
    BY <2>1, <2>2, FiniteEnds
  <2>5. \A x \in A : x \in Int
    BY <2>2
  <2>6. \A x \in B : x \in Int
    BY <2>2
  <2>7. Min(A) \in Int /\ Min(A) <= since /\ \A p \in P : Min(A) <= p.t
    BY <2>1, <2>3, <2>5
  <2>8. Max(B) \in Int /\ until <= Max(B) /\ \A p \in P : p.t <= Max(B)
    BY <2>1, <2>4, <2>6
  <2> QED BY <2>7, <2>8 DEF A, B
<1>7. /\ Min(V) \in Int /\ \A p \in P : Min(V) <= p.v
      /\ Max(V) \in Int /\ \A p \in P : p.v <= Max(V)
      /\ Min(V) <= Max(V)
  <2>1. \A p \in P : p.v \in V
    OBVIOUS
  <2> HIDE DEF V
  <2>2. Min(V) \in V /\ (\A y \in V : Min(V) <= y) /\ Max(V) \in V /\ (\A y \in V : Max(V) >= y)
    BY <1>5, FiniteEnds
  <2>3. \A x \in V : x \in Int
    BY <1>5
  <2> QED BY <2>1, <2>2, <2>3
<1> HIDE DEF T, V
<1>8. tMin < scale.tMax /\ tMax <= scale.tMax /\ scale.tMax \in Int
  <2>1. tMin <= tMax
    <3>1. PICK p \in P : TRUE
      BY <1>2
    <3> HIDE DEF tMin, tMax
    <3> QED BY <1>3, <1>6
  <2> HIDE DEF tMin, tMax
  <2> QED BY <1>6, <2>1
<1>9. lowest \in Int /\ lowest <= Min(V)
  BY <1>7
<1> HIDE DEF lowest
<1>10. low \in Int /\ high \in Int /\ low < high /\ low <= Min(V) /\ Max(V) <= high
  BY <1>7, <1>9
<1> HIDE DEF low, high, tMin, tMax
<1>11. ASSUME NEW p \in P
       PROVE  scale.vMin < 25 * p.v /\ 25 * p.v < scale.vMax
  <2>1. low <= p.v /\ p.v <= high /\ p.v \in Int
    BY <1>3, <1>7, <1>10
  <2> QED BY <1>10, <2>1
<1>12. ASSUME NEW p \in P
       PROVE  scale.tMin <= p.t /\ p.t <= scale.tMax
  BY <1>3, <1>6, <1>8
<1>13. scale.tMin < scale.tMax
  BY <1>8
<1> QED BY <1>1, <1>11, <1>12, <1>13 DEF P

\* The axes run forwards and hold every point, wherever the samples and the window are
\* and whichever of them is empty or flat (drawChart).
THEOREM ChartCanvas == PureSpec => []DrawnInside
<1>1. Given => DrawnInside
  <2> SUFFICES ASSUME Given, input.part = "series", Segments(input.raw, input.gap, input.tMax) # <<>>
               PROVE  LET scale == Scale(Segments(input.raw, input.gap, input.tMax), input.since, input.tMax)
                      IN  /\ scale.tMin < scale.tMax
                          /\ \A p \in DrawnOf(Segments(input.raw, input.gap, input.tMax)) :
                               /\ scale.tMin <= p.t /\ p.t <= scale.tMax
                               /\ scale.vMin < 25 * p.v /\ 25 * p.v < scale.vMax
    BY DEF DrawnInside, OnCanvas, DrawnOf
  <2>1. Broken(input.gap, Segments(input.raw, input.gap, input.tMax))
    BY GivenSeries, SegmentsFacts
  <2> QED BY <2>1, GivenSeries, ScaleFacts
<1> QED BY <1>1, GivenInvariant, PTL

\* Samples that come in order of time stay as they come.
LEMMA PtsInOrder ==
    ASSUME NEW raw \in Seq(Reals), PointLoop!SortedBy(TimeKey, raw)
    PROVE  Pts(raw) = raw
<1> DEFINE V == Seq(Reals)
           Prefix(k, s) == Len(s) = k /\ \A i \in 1 .. k : s[i] = raw[i]
           J == {w \in Nat \X V : Prefix(w[1], w[2])}
<1>0. \A k \in 1 .. Len(raw) : raw[k] \in Reals /\ raw[k] \in Samples /\ raw[k].v # NotFinite
  BY DEF Reals, Samples, Drawings
<1>1. PointLoop!Closed(0, V, Len(raw), raw)
  <2> SUFFICES ASSUME NEW s \in V, NEW k \in 1 .. Len(raw)
               PROVE  ByTime(s, raw[k]) \in V
    BY Zenon DEF PointLoop!Closed, ByTimeIn
  <2>1. \E n \in 0 .. Len(s) : PointLoop!Inserted(Reals, s, n, raw[k], ByTime(s, raw[k]))
    BY <1>0, ByTimeFacts
  <2> QED BY <2>1 DEF PointLoop!Inserted
<1>2. PointLoop!Inductive(0, V, <<>>, raw, J)
  <2>1. <<0, <<>>>> \in J
    <3>1. <<>> \in V /\ Prefix(0, <<>>)
      OBVIOUS
    <3>2. \A e \in V : Prefix(0, e) => <<0, e>> \in J
      OBVIOUS
    <3> HIDE DEF V, J, Prefix
    <3> QED BY <3>1, <3>2, Zenon
  <2>2. ASSUME NEW k \in 1 .. Len(raw), NEW s \in V, <<k - 1, s>> \in J
        PROVE  <<k, ByTime(s, raw[k])>> \in J
    <3> DEFINE p == raw[k]
               r == ByTime(s, p)
    <3>1. Prefix(k - 1, s)
      BY <2>2
    <3>2. k \in Nat \ {0} /\ Len(s) = k - 1 /\ \A i \in 1 .. k - 1 : s[i] = raw[i]
      BY <3>1
    <3>3. PICK n \in 0 .. Len(s) :
             /\ PointLoop!Inserted(Reals, s, n, p, r)
             /\ \A i \in 1 .. Len(s) : i > n => TimeKey[p] <= TimeKey[s[i]]
             /\ \A i \in 1 .. Len(s) : i > n => TimeKey[p] # TimeKey[s[i]]
      BY <1>0, ByTimeFacts
    <3>4. n = k - 1
      <4> SUFFICES ASSUME n # k - 1 PROVE FALSE
        OBVIOUS
      <4>1. k - 1 \in 1 .. Len(s) /\ k - 1 > n /\ k - 1 < k /\ k - 1 \in 1 .. Len(raw)
        BY <3>2
      <4>2. TimeKey[raw[k - 1]] <= TimeKey[p]
        BY <4>1 DEF PointLoop!SortedBy
      <4>3. TimeKey[p] <= TimeKey[raw[k - 1]] /\ TimeKey[p] # TimeKey[raw[k - 1]]
        BY <3>2, <3>3, <4>1
      <4>4. TimeKey[p] \in Int /\ TimeKey[raw[k - 1]] \in Int
        <5>1. \A q \in Reals : TimeKey[q] \in Int
          BY DEF TimeKey, Reals, Drawings
        <5> QED BY <1>0, <4>1, <5>1
      <4> HIDE DEF p
      <4> QED BY <4>2, <4>3, <4>4
    <3> HIDE DEF r
    <3>5. r \in V /\ Len(r) = k
      BY <3>2, <3>3 DEF PointLoop!Inserted
    <3>6. \A i \in 1 .. k : r[i] = IF i <= k - 1 THEN s[i] ELSE p
      <4>1. \A i \in 1 .. Len(s) + 1 : r[i] = IF i <= n THEN s[i] ELSE IF i = n + 1 THEN p ELSE s[i - 1]
        BY <3>3 DEF PointLoop!Inserted
      <4> HIDE DEF p
      <4> QED BY <3>2, <3>4, <4>1
    <3>7. \A i \in 1 .. k : r[i] = raw[i]
      <4> SUFFICES ASSUME NEW i \in 1 .. k PROVE r[i] = raw[i]
        OBVIOUS
      <4>1. CASE i <= k - 1
        BY <3>2, <3>6, <4>1
      <4>2. CASE i = k
        BY <3>2, <3>6, <4>2
      <4> QED BY <3>2, <4>1, <4>2
    <3>8. Prefix(k, r) /\ k \in Nat
      BY <3>2, <3>5, <3>7
    <3> HIDE DEF Prefix, V
    <3> QED BY <3>5, <3>8 DEF r
  <2> HIDE DEF J, V
  <2> QED BY <2>1, <2>2, Zenon DEF PointLoop!Inductive, ByTimeIn
<1>3. <<Len(raw), PointLoop!Fold(0, <<>>, raw)>> \in J /\ PointLoop!Fold(0, <<>>, raw) \in V
  <2>1. <<>> \in V
    OBVIOUS
  <2> HIDE DEF J, V
  <2> QED BY <2>1, <1>1, <1>2, PointLoop!FoldInduction
<1> DEFINE f == PointLoop!Fold(0, <<>>, raw)
<1>4. f \in Seq(Reals) /\ Len(f) = Len(raw) /\ \A i \in 1 .. Len(raw) : f[i] = raw[i]
  BY <1>3
<1> HIDE DEF f
<1>5. f = raw
  BY <1>4, SeqEqual
<1> QED BY <1>5, PtsFolds DEF f

\* Points without a hole are one segment.
LEMMA SmoothDrawn ==
    ASSUME NEW gap \in Nat, NEW pts \in Seq(Drawings), Smooth(gap, pts)
    PROVE  LineLoop!Fold(gap, [done |-> <<>>, seg |-> <<>>], pts) = [done |-> <<>>, seg |-> pts]
<1> DEFINE none == [done |-> <<>>, seg |-> <<>>]
           Prefix(k, l) == l.done = <<>> /\ Len(l.seg) = k /\ \A i \in 1 .. k : l.seg[i] = pts[i]
           J == {w \in Nat \X Lines : Prefix(w[1], w[2])}
<1>0. none \in Lines /\ none.done = <<>> /\ none.seg = <<>>
  BY DEF Lines
<1> HIDE DEF none
<1>1. LineLoop!Closed(gap, Lines, Len(pts), pts)
  <2> SUFFICES ASSUME NEW l \in Lines, NEW k \in 1 .. Len(pts)
               PROVE  Taken(l, pts[k], gap) \in Lines
    BY Zenon DEF LineLoop!Closed, TakenIn
  <2>1. pts[k] \in Drawings
    OBVIOUS
  <2> QED BY <2>1, TakenLines
<1>2. LineLoop!Inductive(gap, Lines, none, pts, J)
  <2>1. <<0, none>> \in J
    BY <1>0
  <2>2. ASSUME NEW k \in 1 .. Len(pts), NEW l \in Lines, <<k - 1, l>> \in J
        PROVE  <<k, Taken(l, pts[k], gap)>> \in J
    <3> DEFINE p == pts[k]
               s == l.seg
               n == Taken(l, p, gap)
    <3>1. Prefix(k - 1, l)
      BY <2>2
    <3>2. k \in Nat \ {0} /\ l.done = <<>> /\ s \in Seq(Drawings) /\ Len(s) = k - 1
          /\ (\A i \in 1 .. k - 1 : s[i] = pts[i]) /\ p \in Drawings
      BY <3>1 DEF Lines
    <3>3. ~Hole(s, p.t, gap)
      <4> SUFFICES ASSUME s # <<>> PROVE ~(p.t - Last(s).t > gap)
        BY DEF Hole
      <4>1. Last(s) = s[k - 1] /\ k - 1 # 0
        BY <3>2, Ends
      <4>2. k - 1 \in 1 .. Len(pts) - 1 /\ k - 1 \in 1 .. k - 1 /\ (k - 1) + 1 = k
        BY <3>2, <4>1
      <4>3. p.t - pts[k - 1].t \in 0 .. gap
        BY <4>2 DEF Smooth
      <4>4. Last(s) = pts[k - 1]
        BY <3>2, <4>1, <4>2
      <4> HIDE DEF p, s
      <4> QED BY <4>3, <4>4
    <3>4. n = [done |-> l.done, seg |-> Append(s, p)]
      BY <3>3 DEF Taken, Lines
    <3>5. n.done = <<>> /\ n.seg = Append(s, p)
      BY <3>2, <3>4
    <3>6. n \in Lines
      BY <3>2, TakenLines
    <3> HIDE DEF n, s
    <3>7. Len(n.seg) = k /\ \A i \in 1 .. k : n.seg[i] = pts[i]
      <4>1. /\ Len(Append(s, p)) = Len(s) + 1
            /\ \A i \in 1 .. Len(s) : Append(s, p)[i] = s[i]
            /\ Append(s, p)[Len(s) + 1] = p
        BY <3>2, Appended
      <4> QED BY <3>2, <3>5, <4>1
    <3>8. Prefix(k, n)
      BY <3>5, <3>7
    <3> HIDE DEF Prefix
    <3> QED BY <3>2, <3>6, <3>8 DEF n
  <2> HIDE DEF J
  <2> QED BY <2>1, <2>2, Zenon DEF LineLoop!Inductive, TakenIn
<1> DEFINE l == LineLoop!Fold(gap, none, pts)
<1>3. <<Len(pts), l>> \in J /\ l \in Lines
  <2> HIDE DEF J
  <2> QED BY <1>0, <1>1, <1>2, LineLoop!FoldInduction
<1> HIDE DEF l
<1>4. l.done = <<>> /\ Len(l.seg) = Len(pts) /\ (\A i \in 1 .. Len(pts) : l.seg[i] = pts[i])
      /\ l.seg \in Seq(Drawings)
  BY <1>3 DEF Lines
<1>5. l.seg = pts
  BY <1>4, SeqEqual
<1>6. l = [done |-> <<>>, seg |-> pts]
  BY <1>3, <1>4, <1>5 DEF Lines
<1> QED BY <1>6 DEF l, none

\* A bucket is at least one poll wide if polls fill the buckets.
LEMMA BucketWidth ==
    ASSUME NEW span \in Nat, NEW poll \in Nat \ {0}
    PROVE  /\ TypeAggBucket(span, poll) \in Nat \ {0}
           /\ PollsFill(span, poll) => TypeAggBucket(span, poll) >= poll
<1>1. 24 * Hour = 172800 /\ 72 * Hour = 518400 /\ 4 * Hour = 28800
  BY DEF Hour, Seconds
<1>2. \A m, n \in Nat : AtLeast(m, n) \in Nat /\ AtLeast(m, n) >= m /\ AtLeast(m, n) >= n
  BY DEF AtLeast
<1>3. Seconds(15) = 30 /\ Seconds(30) = 60 /\ Seconds(60) = 120 /\ Seconds(300) = 600 /\ Seconds(900) = 1800
  BY DEF Seconds
<1> DEFINE a == AtLeast(30, poll)
<1>4. a \in Nat /\ a >= poll
  BY DEF AtLeast
<1> HIDE DEF a
<1>5. AtLeast(a, 60) \in Nat /\ AtLeast(a, 60) >= a /\ AtLeast(a, 120) \in Nat /\ AtLeast(a, 120) >= a
  BY <1>2, <1>4
<1>6. TypeAggBucket(span, poll) = IF span <= 28800 THEN AtLeast(a, 60)
                                  ELSE IF span <= 172800 THEN AtLeast(a, 120)
                                  ELSE IF span <= 518400 THEN 600 ELSE 1800
  BY <1>1, <1>3 DEF TypeAggBucket, a
<1>7. PollsFill(span, poll) <=> span <= 172800 \/ poll <= IF span <= 518400 THEN 600 ELSE 1800
  BY <1>1, <1>3 DEF PollsFill
<1> QED BY <1>4, <1>5, <1>6, <1>7

\* The start of a bucket: at most one width before, and in order.
LEMMA BucketStart ==
    ASSUME NEW w \in Nat \ {0}, NEW t \in Nat, NEW u \in Nat, t <= u
    PROVE  /\ t - (t % w) \in Nat /\ t - (t % w) <= t /\ t < t - (t % w) + w
           /\ t - (t % w) <= u - (u % w)
<1>1. t % w \in 0 .. w - 1 /\ t = w * (t \div w) + (t % w) /\ t \div w \in Nat
  BY SMTT(30)
<1>2. u % w \in 0 .. w - 1 /\ u = w * (u \div w) + (u % w) /\ u \div w \in Nat
  BY SMTT(30)
<1> DEFINE a == t \div w
           b == u \div w
           c == t % w
           d == u % w
<1> HIDE DEF a, b, c, d
<1>3. /\ a \in Nat /\ b \in Nat /\ c \in 0 .. w - 1 /\ d \in 0 .. w - 1
      /\ t = w * a + c /\ u = w * b + d
  BY <1>1, <1>2 DEF a, b, c, d
<1>4. a <= b
  <2> SUFFICES ASSUME b + 1 <= a PROVE FALSE
    BY <1>3
  <2>1. w * a >= w * (b + 1)
    BY <1>3
  <2>2. w * (b + 1) = w * b + w
    BY <1>3
  <2> QED BY <1>3, <2>1, <2>2
<1>5. w * a <= w * b /\ w * a \in Nat /\ w * b \in Nat
  BY <1>3, <1>4
<1>6. t - c \in Nat /\ t - c <= t /\ t < t - c + w /\ t - c <= u - d
  BY <1>3, <1>5
<1> QED BY <1>6 DEF c, d

\* Where two answers to successive polls are drawn is not a hole apart.
LEMMA NoHole ==
    ASSUME NEW view \in {"miner", "type"}, NEW span \in Nat, NEW poll \in Nat \ {0},
           view = "type" => PollsFill(span, poll),
           NEW t \in Nat, NEW u \in Nat, t <= u, 2 * (u - t) <= 3 * poll
    PROVE  /\ GapThreshold(view, span, poll) \in Nat
           /\ DrawnAt(view, span, poll, t) \in Nat
           /\ DrawnAt(view, span, poll, u) - DrawnAt(view, span, poll, t)
                \in 0 .. GapThreshold(view, span, poll)
           /\ u - DrawnAt(view, span, poll, t) <= GapThreshold(view, span, poll)
<1>1. CASE view = "type"
  <2> DEFINE w == TypeAggBucket(span, poll)
  <2>1. w \in Nat \ {0} /\ w >= poll
    BY <1>1, BucketWidth
  <2>2. GapThreshold(view, span, poll) = (5 * w) \div 2
    BY <1>1 DEF GapThreshold
  <2>3. /\ DrawnAt(view, span, poll, t) = t - (t % w)
        /\ DrawnAt(view, span, poll, u) = u - (u % w)
    BY <1>1 DEF DrawnAt
  <2> HIDE DEF w
  <2> DEFINE a == t - (t % w)
             b == u - (u % w)
  <2>4. a \in Nat /\ a <= t /\ t < a + w /\ a <= b /\ b \in Nat /\ b <= u
    BY <2>1, BucketStart
  <2> HIDE DEF a, b
  <2>5. (5 * w) \div 2 \in Nat /\ b - a \in 0 .. (5 * w) \div 2 /\ u - a <= (5 * w) \div 2
    BY <2>1, <2>4
  <2> QED BY <2>2, <2>3, <2>4, <2>5 DEF a, b
<1>2. CASE view = "miner"
  <2>1. GapThreshold(view, span, poll) = AtLeast((5 * poll) \div 2, 180)
    BY <1>2 DEF GapThreshold, Seconds
  <2>2. (5 * poll) \div 2 \in Nat /\ u - t <= (5 * poll) \div 2
    OBVIOUS
  <2>3. AtLeast((5 * poll) \div 2, 180) \in Nat /\ AtLeast((5 * poll) \div 2, 180) >= (5 * poll) \div 2
    BY <2>2 DEF AtLeast
  <2>4. DrawnAt(view, span, poll, t) = t /\ DrawnAt(view, span, poll, u) = u
    BY <1>2 DEF DrawnAt
  <2> QED BY <2>1, <2>2, <2>3, <2>4
<1> QED BY <1>1, <1>2

\* A miner that answers every poll has one line, not at zero before its next answer: for
\* every window and poll interval in the view by miner, for those in which polls fill the
\* buckets in the view by type; late answers and answers soon after a late one included
\* (chartGapThresholdMs, typeAggBucketMs).
THEOREM ChartUnbroken == PureSpec => []UnbrokenWhileSampled
<1>1. Given => UnbrokenWhileSampled
  <2> DEFINE x == input
             raw == Drawn(x.view, x.span, x.poll, x.times)
             gap == GapThreshold(x.view, x.span, x.poll)
             at(t) == DrawnAt(x.view, x.span, x.poll, t)
             n == Len(x.times)
  <2> SUFFICES ASSUME Given, x.part = "steady", x.view = "type" => PollsFill(x.span, x.poll)
               PROVE  Unbroken(x.view, x.span, x.poll, x.times, x.now)
    BY DEF UnbrokenWhileSampled
  <2>1. /\ x.view \in {"miner", "type"} /\ x.span \in Nat
        /\ x.poll \in Nat \ {0}
        /\ x.times \in Seq(Nat) \ {<<>>} /\ x.now \in Nat /\ OnTime(x)
    BY InputKinds, PureAssumption
  <2>2. n \in Nat \ {0} /\ DOMAIN x.times = 1 .. n /\ \A i \in 1 .. n : x.times[i] \in Nat
    <3>1. x.times \in Seq(Nat) /\ x.times # <<>>
      BY <2>1
    <3> HIDE DEF x
    <3> QED BY <3>1, Ends
  <2>3. ASSUME NEW i \in 1 .. n - 1
        PROVE  x.times[i] <= x.times[i + 1] /\ 2 * (x.times[i + 1] - x.times[i]) <= 3 * x.poll
    <3>1. i \in 1 .. n /\ i < n
      BY <2>2
    <3> QED BY <2>1, <2>2, <3>1 DEF OnTime
  <2>4. x.times[n] <= x.now /\ 2 * (x.now - x.times[n]) <= 3 * x.poll
    <3>1. n \in 1 .. n /\ ~(n < n)
      BY <2>2
    <3> QED BY <2>1, <2>2, <3>1 DEF OnTime
  <2>24. ASSUME NEW t \in Nat, NEW u \in Nat, t <= u, 2 * (u - t) <= 3 * x.poll
         PROVE  /\ gap \in Nat /\ at(t) \in Nat
                /\ at(u) - at(t) \in 0 .. gap /\ u - at(t) <= gap
    <3>1. /\ x.view \in {"miner", "type"} /\ x.span \in Nat /\ x.poll \in Nat \ {0}
          /\ x.view = "type" => PollsFill(x.span, x.poll)
      BY <2>1
    <3> HIDE DEF x
    <3> QED BY <2>24, <3>1, NoHole
  <2>5. gap \in Nat /\ \A i \in 1 .. n : at(x.times[i]) \in Nat
    <3>1. ASSUME NEW i \in 1 .. n
          PROVE  at(x.times[i]) \in Nat /\ gap \in Nat
      <4> DEFINE t == x.times[i]
      <4>1. t \in Nat /\ x.poll \in Nat
        BY <2>1, <2>2
      <4> HIDE DEF t
      <4>2. t <= t /\ 2 * (t - t) <= 3 * x.poll
        BY <4>1
      <4> HIDE DEF x
      <4>3. at(t) \in Nat /\ gap \in Nat
        BY <2>24, <4>1, <4>2
      <4> QED BY <4>3 DEF t
    <3>2. 1 \in 1 .. n
      BY <2>2
    <3> QED BY <3>1, <3>2
  <2>6. \A i \in 1 .. n - 1 : at(x.times[i + 1]) - at(x.times[i]) \in 0 .. gap
    <3> SUFFICES ASSUME NEW i \in 1 .. n - 1
                 PROVE  at(x.times[i + 1]) - at(x.times[i]) \in 0 .. gap
      OBVIOUS
    <3>1. i \in 1 .. n /\ i + 1 \in 1 .. n
      BY <2>2
    <3>2. x.times[i] \in Nat /\ x.times[i + 1] \in Nat
      BY <2>2, <3>1
    <3>3. x.times[i] <= x.times[i + 1] /\ 2 * (x.times[i + 1] - x.times[i]) <= 3 * x.poll
      BY <2>3
    <3> QED BY <2>24, <3>2, <3>3
  <2>7. x.now - at(x.times[n]) <= gap
    <3>1. x.times[n] \in Nat
      BY <2>2
    <3>2. x.now \in Nat
      BY <2>1
    <3> QED BY <2>4, <2>24, <3>1, <3>2
  <2> HIDE DEF x, gap, n
  <2>8. raw = [i \in 1 .. n |-> [t |-> at(x.times[i]), v |-> 1]]
    BY <2>2 DEF Drawn
  <2> HIDE DEF raw, at
  <2>9. /\ raw \in Seq(Reals) /\ Len(raw) = n
        /\ \A i \in 1 .. n : raw[i].t = at(x.times[i]) /\ raw[i].v = 1 /\ raw[i] \in Reals
    <3>1. NotFinite # 1
      BY ChartAssumption
    <3>2. \A i \in 1 .. n : [t |-> at(x.times[i]), v |-> 1] \in Reals
      BY <2>5, <3>1 DEF Reals, Drawings
    <3>3. raw \in [1 .. n -> Reals]
      BY <2>8, <3>2
    <3>4. n \in Nat
      BY <2>2
    <3>5. raw \in Seq(Reals) /\ Len(raw) = n
      BY <3>3, <3>4, SeqDef, LenProperties
    <3>6. \A i \in 1 .. n : raw[i].t = at(x.times[i]) /\ raw[i].v = 1 /\ raw[i] \in Reals
      BY <2>8, <3>2
    <3> QED BY <3>5, <3>6
  <2>10. Smooth(gap, raw)
    <3>1. raw \in Seq(Drawings) /\ raw # <<>>
      BY <2>2, <2>9 DEF Reals
    <3>2. \A i \in 1 .. n - 1 : raw[i + 1].t - raw[i].t \in 0 .. gap
      <4> SUFFICES ASSUME NEW i \in 1 .. n - 1 PROVE raw[i + 1].t - raw[i].t \in 0 .. gap
        OBVIOUS
      <4>1. i \in 1 .. n /\ i + 1 \in 1 .. n
        BY <2>2
      <4>2. raw[i].t = at(x.times[i]) /\ raw[i + 1].t = at(x.times[i + 1])
        BY <2>9, <4>1
      <4> QED BY <2>6, <4>2
    <3> QED BY <2>9, <3>1, <3>2 DEF Smooth
  <2>11. PointLoop!SortedBy(TimeKey, raw)
    <3> DEFINE T == {k \in 0 .. n : \A i, j \in 1 .. k : i < j => TimeKey[raw[i]] <= TimeKey[raw[j]]}
    <3>1. 0 \in T
      BY <2>2
    <3>2. \A i \in 1 .. n : TimeKey[raw[i]] = raw[i].t /\ raw[i].t \in Int
      BY <2>9 DEF TimeKey, Reals, Drawings
    <3>3. ASSUME NEW k \in 1 .. n, k - 1 \in T PROVE k \in T
      <4> SUFFICES ASSUME NEW i \in 1 .. k, NEW j \in 1 .. k, i < j
                   PROVE  TimeKey[raw[i]] <= TimeKey[raw[j]]
        OBVIOUS
      <4>1. CASE j < k
        BY <3>3, <4>1
      <4>2. CASE j = k
        <5>1. k - 1 \in 1 .. n - 1 /\ (k - 1) + 1 = k /\ k - 1 \in 1 .. n /\ k \in 1 .. n
          BY <2>2, <4>2
        <5>2. raw[k].t - raw[k - 1].t \in 0 .. gap
          BY <2>9, <2>10, <5>1 DEF Smooth
        <5>3. TimeKey[raw[k - 1]] <= TimeKey[raw[k]] /\ TimeKey[raw[k]] \in Int /\ TimeKey[raw[k - 1]] \in Int
          <6>1. raw[k].t \in Int /\ raw[k - 1].t \in Int
            BY <3>2, <5>1
          <6>2. raw[k - 1].t <= raw[k].t
            BY <2>5, <5>2, <6>1
          <6> QED BY <3>2, <5>1, <6>1, <6>2
        <5>4. CASE i = k - 1
          BY <4>2, <5>3, <5>4
        <5>5. CASE i < k - 1
          <6>1. i \in 1 .. k - 1 /\ k - 1 \in 1 .. k - 1 /\ i \in 1 .. n
            BY <2>2, <5>1, <5>5
          <6>2. TimeKey[raw[i]] <= TimeKey[raw[k - 1]] /\ TimeKey[raw[i]] \in Int
            BY <3>2, <3>3, <5>5, <6>1
          <6> QED BY <4>2, <5>3, <6>2
        <5> QED BY <4>2, <5>1, <5>4, <5>5
      <4> QED BY <4>1, <4>2
    <3>4. n \in T
      <4> HIDE DEF T
      <4>1. \A k \in 0 .. n : k \in T
        BY <2>2, <3>1, <3>3, PointLoop!Induction
      <4> QED BY <2>2, <4>1
    <3> QED BY <2>9, <3>4 DEF PointLoop!SortedBy
  <2> DEFINE a == Segments(raw, gap, x.now)
  <2>12. a = <<raw>>
    <3>1. Pts(raw) = raw
      BY <2>9, <2>11, PtsInOrder
    <3>2. raw \in Seq(Drawings)
      BY <2>10 DEF Smooth
    <3>3. a = Closed([done |-> <<>>, seg |-> raw], gap, x.now)
      BY <2>5, <2>10, <3>1, <3>2, SegmentsFolds, SmoothDrawn
    <3>4. ~Hole(raw, x.now, gap)
      <4>1. raw # <<>> /\ Last(raw) = raw[n] /\ n \in 1 .. n
        BY <2>2, <2>9, <2>10, Ends DEF Smooth
      <4>2. Last(raw).t = at(x.times[n])
        BY <2>9, <4>1
      <4>3. ~(x.now - at(x.times[n]) > gap)
        BY <2>1, <2>5, <2>7, <4>1
      <4> QED BY <4>2, <4>3 DEF Hole
    <3> HIDE DEF a
    <3>5. a = Append(<<>>, raw \o <<>>)
      BY <2>10, <3>3, <3>4 DEF Closed, Smooth
    <3> QED BY <2>9, <3>5
  <2> HIDE DEF a
  <2>13. Len(a) = 1 /\ \A p \in ToSet(a[1]) : p.v = 1
    <3>1. Len(a) = 1 /\ a[1] = raw
      BY <2>12
    <3>2. \A p \in ToSet(raw) : p.v = 1
      BY <2>9 DEF ToSet
    <3> QED BY <3>1, <3>2
  <2> QED BY <2>13 DEF Unbroken, a, raw, gap
<1> QED BY <1>1, GivenInvariant, PTL

-----------------------------------------------------------------------------
(* The temperatures of a report *)

\* The readings of a board that are there are numbers.
ReadableBoard(x) == Readable(x.board) /\ Readable(x.chips) /\ Readable(x.inlet) /\ Readable(x.outlet)

\* The least and the greatest of readings are readings.
LEMMA EndsAreReadings ==
    ASSUME NEW S, Readable(S)
    PROVE  MinOf(S) \subseteq S /\ MaxOf(S) \subseteq S
<1>1. S \in SUBSET Int /\ IsFiniteSet(S)
  BY DEF Readable
<1>2. CASE S = {}
  BY <1>2 DEF MinOf, MaxOf
<1>3. CASE S # {}
  BY <1>1, <1>3, FiniteEnds DEF MinOf, MaxOf
<1> QED BY <1>2, <1>3

\* A board's row has readings of the board.
LEMMA BoardFacts ==
    ASSUME NEW x, ReadableBoard(x)
    PROVE  /\ Readable(AsicOf(x))
           /\ RowOf(x).in \subseteq AsicOf(x) /\ RowOf(x).out \subseteq AsicOf(x) /\ RowOf(x).vr = x.board
<1>1. /\ Chain(x, x.inlet) \in {{}, x.inlet} /\ Chain(x, x.outlet) \in {{}, x.outlet}
  BY DEF Chain
<1>2. IsFiniteSet({}) /\ {} \subseteq Int
  BY FS_EmptySet
<1>3. Readable(Chain(x, x.inlet)) /\ Readable(Chain(x, x.outlet)) /\ Readable(x.chips)
  BY <1>1, <1>2 DEF Readable, ReadableBoard
<1>4. Readable(AsicOf(x))
  <2>1. IsFiniteSet(x.chips \cup Chain(x, x.inlet))
    BY <1>3, FS_Union DEF Readable
  <2>2. IsFiniteSet(AsicOf(x))
    BY <1>3, <2>1, FS_Union DEF Readable, AsicOf
  <2> QED BY <1>3, <2>2 DEF Readable, AsicOf
<1>5. MinOf(AsicOf(x)) \subseteq AsicOf(x) /\ MaxOf(AsicOf(x)) \subseteq AsicOf(x)
  BY <1>4, EndsAreReadings
<1>6. RowOf(x).in \subseteq AsicOf(x)
  BY <1>1, <1>5 DEF RowOf, AsicOf
<1>7. RowOf(x).out \subseteq AsicOf(x)
  BY <1>1, <1>5 DEF RowOf, AsicOf
<1> QED BY <1>4, <1>6, <1>7 DEF RowOf

\* Rows whose readings the snapshot reports.
Reported(snap) ==
    /\ Readable(snap.asic) /\ Readable(snap.vr)
    /\ \A i \in DOMAIN snap.rows : /\ snap.rows[i].in \subseteq snap.asic
                                   /\ snap.rows[i].out \subseteq snap.asic
                                   /\ snap.rows[i].vr \subseteq snap.vr

\* Sets of readings of finitely many boards.
LEMMA UnionReadable ==
    ASSUME NEW n \in Nat, NEW f, f = [i \in 1 .. n |-> f[i]], \A i \in 1 .. n : Readable(f[i])
    PROVE  Readable(UNION {f[i] : i \in 1 .. n})
<1>1. IsFiniteSet({f[i] : i \in 1 .. n})
  <2>1. IsFiniteSet(1 .. n)
    <3>1. 1 \in Int /\ n \in Int
      OBVIOUS
    <3> QED BY <3>1, FS_Interval
  <2>2. DOMAIN f = 1 .. n
    OBVIOUS
  <2> QED BY <2>1, <2>2, ImageFinite
<1>2. \A T \in {f[i] : i \in 1 .. n} : IsFiniteSet(T) /\ T \subseteq Int
  BY DEF Readable
<1>3. IsFiniteSet(UNION {f[i] : i \in 1 .. n})
  BY <1>1, <1>2, FS_UNION
<1> QED BY <1>2, <1>3 DEF Readable

\* The loop over the boards reports what it puts into the rows.
LEMMA BoardsReported ==
    ASSUME NEW boards, Len(boards) \in Nat, DOMAIN boards = 1 .. Len(boards),
           \A i \in DOMAIN boards : ReadableBoard(boards[i])
    PROVE  Reported(FromBoards(boards)) /\ DOMAIN FromBoards(boards).rows = DOMAIN boards
<1> DEFINE n == Len(boards)
           snap == FromBoards(boards)
           f == [i \in 1 .. n |-> AsicOf(boards[i])]
           g == [i \in 1 .. n |-> boards[i].board]
<1>1. /\ snap.asic = UNION {AsicOf(boards[i]) : i \in 1 .. n}
      /\ snap.vr = UNION {boards[i].board : i \in 1 .. n}
      /\ snap.rows = [i \in 1 .. n |-> RowOf(boards[i])]
  BY DEF FromBoards
<1>2. \A i \in 1 .. n : /\ Readable(AsicOf(boards[i])) /\ Readable(boards[i].board)
                        /\ RowOf(boards[i]).in \subseteq AsicOf(boards[i])
                        /\ RowOf(boards[i]).out \subseteq AsicOf(boards[i])
                        /\ RowOf(boards[i]).vr = boards[i].board
  BY BoardFacts DEF ReadableBoard
<1>3. Readable(snap.asic)
  <2>1. {AsicOf(boards[i]) : i \in 1 .. n} = {f[i] : i \in 1 .. n}
    OBVIOUS
  <2>2. f = [i \in 1 .. n |-> f[i]] /\ \A i \in 1 .. n : Readable(f[i])
    BY <1>2
  <2> HIDE DEF f
  <2>3. Readable(UNION {f[i] : i \in 1 .. n})
    BY <2>2, UnionReadable
  <2> QED BY <1>1, <2>1, <2>3
<1>4. Readable(snap.vr)
  <2>1. {boards[i].board : i \in 1 .. n} = {g[i] : i \in 1 .. n}
    OBVIOUS
  <2>2. g = [i \in 1 .. n |-> g[i]] /\ \A i \in 1 .. n : Readable(g[i])
    BY <1>2
  <2> HIDE DEF g
  <2>3. Readable(UNION {g[i] : i \in 1 .. n})
    BY <2>2, UnionReadable
  <2> QED BY <1>1, <2>1, <2>3
<1> HIDE DEF snap
<1>5. ASSUME NEW i \in DOMAIN snap.rows
      PROVE  /\ snap.rows[i].in \subseteq snap.asic
             /\ snap.rows[i].out \subseteq snap.asic
             /\ snap.rows[i].vr \subseteq snap.vr
  <2>1. i \in 1 .. n /\ snap.rows[i] = RowOf(boards[i])
    BY <1>1
  <2>2. AsicOf(boards[i]) \subseteq snap.asic /\ boards[i].board \subseteq snap.vr
    BY <1>1, <2>1
  <2> QED BY <1>2, <2>1, <2>2
<1>6. DOMAIN snap.rows = DOMAIN boards
  BY <1>1
<1> QED BY <1>3, <1>4, <1>5, <1>6 DEF Reported, snap

\* What the miner tells when asked fills in both the snapshot and the first row.
LEMMA FilledReported ==
    ASSUME NEW snap, Reported(snap), NEW f, Readable(f.chip), Readable(f.vr)
    PROVE  Reported(Filled(snap, f))
<1> DEFINE out == Filled(snap, f)
<1>1. /\ out.asic = IF snap.asic = {} THEN f.chip ELSE snap.asic
      /\ out.vr = IF snap.vr = {} THEN f.vr ELSE snap.vr
      /\ out.rows = IF snap.rows = <<>> THEN <<>> ELSE [snap.rows EXCEPT ![1] = FirstRow(snap, f)]
  BY DEF Filled
<1>2. Readable(out.asic) /\ Readable(out.vr)
  BY <1>1 DEF Reported
<1> HIDE DEF out
<1>3. ASSUME NEW i \in DOMAIN out.rows
      PROVE  /\ out.rows[i].in \subseteq out.asic
             /\ out.rows[i].out \subseteq out.asic
             /\ out.rows[i].vr \subseteq out.vr
  <2>1. /\ snap.rows # <<>> /\ i \in DOMAIN snap.rows
        /\ out.rows[i] = IF i = 1 THEN FirstRow(snap, f) ELSE snap.rows[i]
    <3>1. CASE snap.rows = <<>>
      <4>1. DOMAIN out.rows = {}
        BY <1>1, <3>1
      <4> QED BY <4>1
    <3>2. CASE snap.rows # <<>>
      BY <1>1, <3>2
    <3> QED BY <3>1, <3>2
  <2>2. /\ snap.rows[i].in \subseteq snap.asic
        /\ snap.rows[i].out \subseteq snap.asic
        /\ snap.rows[i].vr \subseteq snap.vr
    BY <2>1 DEF Reported
  <2>3. CASE i = 1
    <3> DEFINE r == FirstRow(snap, f)
    <3>1. /\ r.vr = IF snap.vr = {} /\ f.vr # {} THEN f.vr ELSE snap.rows[1].vr
          /\ r.in = IF snap.asic = {} THEN f.chip ELSE snap.rows[1].in
          /\ r.out = IF snap.asic = {} THEN f.chip ELSE snap.rows[1].out
      BY DEF FirstRow
    <3> HIDE DEF r
    <3>2. r.in \subseteq out.asic /\ r.out \subseteq out.asic
      BY <1>1, <2>2, <2>3, <3>1
    <3>3. r.vr \subseteq out.vr
      BY <1>1, <2>2, <2>3, <3>1
    <3> QED BY <2>1, <2>3, <3>2, <3>3 DEF r
  <2>4. CASE i # 1
    BY <1>1, <2>1, <2>2, <2>4
  <2> QED BY <2>3, <2>4
<1> QED BY <1>2, <1>3 DEF Reported, out

\* Readings that are reported are in the range of those reported.
LEMMA ReportedInRange == ASSUME NEW snap, Reported(snap) PROVE InRange(snap)
<1> SUFFICES ASSUME NEW r \in ToSet(snap.rows)
             PROVE  /\ \A t \in r.in \cup r.out :
                         snap.asic # {} /\ Min(snap.asic) <= t /\ t <= Max(snap.asic)
                    /\ \A t \in r.vr : snap.vr # {} /\ Min(snap.vr) <= t /\ t <= Max(snap.vr)
  BY DEF InRange
<1>1. PICK i \in DOMAIN snap.rows : r = snap.rows[i]
  BY DEF ToSet
<1>2. r.in \subseteq snap.asic /\ r.out \subseteq snap.asic /\ r.vr \subseteq snap.vr
  BY <1>1 DEF Reported
<1>3. ASSUME NEW S, Readable(S), NEW t \in S PROVE S # {} /\ Min(S) <= t /\ t <= Max(S)
  <2>1. S \in SUBSET Int /\ IsFiniteSet(S) /\ S # {}
    BY <1>3 DEF Readable
  <2>2. Min(S) \in S /\ (\A y \in S : Min(S) <= y) /\ Max(S) \in S /\ (\A y \in S : Max(S) >= y)
    BY <2>1, FiniteEnds
  <2>3. t \in Int /\ Max(S) \in Int
    BY <2>1, <2>2
  <2> QED BY <2>2, <2>3
<1> QED BY <1>2, <1>3 DEF Reported

\* The detail page and the fleet table agree on every temperature: for any number of
\* boards, sensors and chips, and whatever the miner tells when asked (detailFromMinerData).
THEOREM TemperaturesAgree == PureSpec => []RowsWithinRange
<1>1. Given => RowsWithinRange
  <2> SUFFICES ASSUME Given, input.part = "miner"
               PROVE  InRange(Snapshot(input.axe, input.boards, input.answers))
    BY DEF RowsWithinRange
  <2> DEFINE snap == FromBoards(input.boards)
  <2>1. /\ Len(input.boards) \in Nat /\ DOMAIN input.boards = 1 .. Len(input.boards)
        /\ \A i \in DOMAIN input.boards, f \in {"board", "chips", "inlet", "outlet"} :
              Readable(input.boards[i][f])
        /\ \A f \in input.answers : Readable(f.chip) /\ Readable(f.vr)
    BY InputKinds, PureAssumption
  <2>2. Reported(snap)
    <3>1. \A i \in DOMAIN input.boards : ReadableBoard(input.boards[i])
      BY <2>1 DEF ReadableBoard
    <3> QED BY <2>1, <3>1, BoardsReported
  <2> HIDE DEF snap
  <2>3. Reported(Snapshot(input.axe, input.boards, input.answers))
    <3>1. CASE NeedsFallback(input.axe, snap) /\ input.answers # {}
      <4> DEFINE f == CHOOSE f \in input.answers : TRUE
      <4>1. f \in input.answers
        BY <3>1
      <4>2. Snapshot(input.axe, input.boards, input.answers) = Filled(snap, f)
        BY <3>1, Zenon DEF Snapshot, snap
      <4> HIDE DEF f
      <4> QED BY <2>1, <2>2, <4>1, <4>2, FilledReported
    <3>2. CASE ~(NeedsFallback(input.axe, snap) /\ input.answers # {})
      <4>1. Snapshot(input.axe, input.boards, input.answers) = snap
        BY <3>2, Zenon DEF Snapshot, snap
      <4> QED BY <2>2, <4>1
    <3> QED BY <3>1, <3>2
  <2> QED BY <2>3, ReportedInRange
<1> QED BY <1>1, GivenInvariant, PTL

=============================================================================
