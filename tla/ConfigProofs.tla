---------------------------- MODULE ConfigProofs ----------------------------
(***************************************************************************)
(* What Load establishes for every file, environment and default: the       *)
(* layers take precedence as documented, the ring covers the retention and  *)
(* the settings are ones the poller can run with.                           *)
(***************************************************************************)
EXTENDS Config, TLAPS

\* The body of the loop of AppendUnique.
Added(c, s, v) == IF v = "" \/ v \in ToSet(s) THEN s ELSE Append(s, v)

A == INSTANCE FoldLemmas WITH Op <- Added

\* The scalar settings are integers at every stage.
Integral == cfg \in [Fields -> Int]

ConfigInv == Integral /\ RingCoversRetention /\ Runnable

-----------------------------------------------------------------------------
\* Whatever overflow leaves of a number is a number.
LEMMA ParsedInt ==
    ASSUME NEW f \in Fields, NEW text \in Text
    PROVE  Parsed(f, text) \in Int
<1>1. text.n \in Int
  BY DEF Text
<1>2. Modulus \in Nat \ {0} /\ Second \in Nat \ {0}
  BY ConfigAssumption
<1>3. \A n \in Int : Wrapped(n) \in Int
  BY <1>2 DEF Wrapped
<1>4. text.n * Second \in Int
  BY <1>1, <1>2
<1> QED BY <1>1, <1>3, <1>4 DEF Parsed

\* Reading a layer keeps the settings integers.
LEMMA AppliedInt ==
    ASSUME NEW c \in [Fields -> Int], NEW texts \in [Fields -> Text]
    PROVE  ApplyTexts(c, texts) \in [Fields -> Int]
BY ParsedInt DEF ApplyTexts

\* A quotient, rounded down, plus one times the divisor exceeds the dividend.
LEMMA QuotientCovers ==
    ASSUME NEW r \in Nat, NEW p \in Nat \ {0}
    PROVE  /\ r \div p \in Nat
           /\ (r \div p + 1) * p > r
<1>1. r = p * (r \div p) + (r % p) /\ r % p \in 0 .. p - 1 /\ r \div p \in Nat
  OBVIOUS
<1>2. (r \div p + 1) * p = p * (r \div p) + p
  BY <1>1
<1> QED BY <1>1, <1>2

\* A factor may grow.
LEMMA ProductGrows ==
    ASSUME NEW m \in Nat, NEW n \in Nat, m <= n, NEW p \in Nat
    PROVE  m * p <= n * p
OBVIOUS

\* The facts about clamp.
LEMMA ClampedFacts ==
    ASSUME NEW c \in [Fields -> Int]
    PROVE  /\ Clamped(c) \in [Fields -> Int]
           /\ Clamped(c).points * Clamped(c).poll > Clamped(c).retention
           /\ Clamped(c).poll >= MinPoll /\ Clamped(c).retention > 0 /\ Clamped(c).ttl >= 0
           /\ Clamped(c).concurrent >= 1 /\ Clamped(c).timeout >= 1
<1> DEFINE p == AtLeast(c.poll, MinPoll)
           r == IF c.retention < p THEN Week ELSE c.retention
           k == AtLeast(c.points, Needed(r, p))
<1>1. \A f \in Fields : c[f] \in Int
  OBVIOUS
<1>2. c.poll \in Int /\ c.retention \in Int /\ c.rescan \in Int /\ c.ttl \in Int
      /\ c.points \in Int /\ c.timeout \in Int /\ c.concurrent \in Int
  BY <1>1 DEF Fields, DurationFields, CountFields
<1>3. MinPoll \in Nat \ {0} /\ Week \in Nat \ {0}
  BY ConfigAssumption
<1>4. p \in Nat \ {0} /\ p >= MinPoll
  BY <1>2, <1>3 DEF AtLeast
<1>5. r \in Nat /\ r > 0
  BY <1>2, <1>3, <1>4
<1> HIDE DEF p, r
<1>6. r \div p \in Nat /\ (r \div p + 1) * p > r
  BY <1>4, <1>5, QuotientCovers
<1>7. k \in Nat /\ r \div p + 1 <= k
  BY <1>2, <1>6 DEF AtLeast, Needed
<1> HIDE DEF k
<1>8. (r \div p + 1) * p <= k * p
  BY <1>4, <1>6, <1>7, ProductGrows
<1>9. k * p > r
  <2>1. (r \div p + 1) * p \in Int /\ k * p \in Int
    BY <1>4, <1>6, <1>7
  <2> QED BY <2>1, <1>5, <1>6, <1>8
<1>10. Clamped(c) = [poll |-> p, retention |-> r, rescan |-> c.rescan, ttl |-> AtLeast(c.ttl, 0),
                     points |-> k, timeout |-> AtLeast(c.timeout, 1),
                     concurrent |-> AtLeast(c.concurrent, 1)]
  BY DEF Clamped, p, r, k
<1>11. AtLeast(c.ttl, 0) \in Nat /\ AtLeast(c.timeout, 1) \in Nat \ {0}
       /\ AtLeast(c.concurrent, 1) \in Nat \ {0}
  BY <1>2 DEF AtLeast
<1>12. Clamped(c) \in [Fields -> Int]
  BY <1>2, <1>4, <1>5, <1>7, <1>10, <1>11 DEF Fields, DurationFields, CountFields
<1> QED BY <1>4, <1>5, <1>9, <1>10, <1>11, <1>12

\* The invariant holds at every stage of Load.
LEMMA ConfigInvariant == Spec => []ConfigInv
<1>1. Init => ConfigInv
  BY ConfigAssumption DEF Init, ConfigInv, Integral, RingCoversRetention, Runnable, Defaults,
     Fields, DurationFields, CountFields
<1>2. ConfigInv /\ file \in Files /\ env \in Environments /\ [Next]_vars => ConfigInv'
  <2> SUFFICES ASSUME ConfigInv, file \in Files, env \in Environments, [Next]_vars
               PROVE  ConfigInv'
    OBVIOUS
  <2> USE DEF ConfigInv, Integral, RingCoversRetention, Runnable
  <2>1. CASE ReadFails
    BY <2>1 DEF ReadFails
  <2>2. CASE ApplyFile
    BY <2>2, AppliedInt, ConfigAssumption DEF ApplyFile
  <2>3. CASE ApplyEnv
    BY <2>3, AppliedInt, ConfigAssumption DEF ApplyEnv
  <2>4. CASE Clamp
    BY <2>4, ClampedFacts DEF Clamp
  <2>5. CASE UNCHANGED vars
    BY <2>5 DEF vars
  <2> QED BY <2>1, <2>2, <2>3, <2>4, <2>5 DEF Next
<1>3. Init => file \in Files /\ env \in Environments
  BY DEF Init
<1>4. file \in Files /\ env \in Environments /\ [Next]_vars => (file \in Files /\ env \in Environments)'
  BY DEF Next, vars, ReadFails, ApplyFile, ApplyEnv, Clamp
<1> QED BY <1>1, <1>2, <1>3, <1>4, PTL DEF Spec

-----------------------------------------------------------------------------
\* The samples of a whole retention, one for every interval, fit in a ring, for any file, environment and
\* defaults, and whatever the arithmetic of durations overflows to.
THEOREM ConfigRing == Spec => []RingCoversRetention
<1>1. ConfigInv => RingCoversRetention
  BY DEF ConfigInv
<1> QED BY <1>1, ConfigInvariant, PTL

\* Load returns settings that the ticker, the workers and the store can run with.
THEOREM ConfigRunnable == Spec => []Runnable
<1>1. ConfigInv => Runnable
  BY DEF ConfigInv
<1> QED BY <1>1, ConfigInvariant, PTL

-----------------------------------------------------------------------------
\* AppendUnique is a fold.
LEMMA AppendUniqueFolds ==
    ASSUME NEW dst, NEW vals
    PROVE  AppendUnique(dst, vals) = A!Fold(0, dst, vals)
BY Zenon DEF AppendUnique, Added, FoldLeft, MapThenFoldSet, Max,
             A!Fold, A!FoldLeft, A!MapThenFoldSet, A!Max

\* What one turn of the loop does to the set of the targets.
LEMMA AddedFacts ==
    ASSUME NEW S, NEW s \in Seq(S), NEW v \in S, IsInjective(s)
    PROVE  /\ Added(0, s, v) \in Seq(S)
           /\ IsInjective(Added(0, s, v))
           /\ ToSet(Added(0, s, v)) = ToSet(s) \cup ({v} \ {""})
<1> DEFINE a == Append(s, v)
<1>1. /\ a \in Seq(S)
      /\ ToSet(a) = ToSet(s) \cup {v}
      /\ v \notin ToSet(s) => IsInjective(a)
  <2>1. /\ a \in Seq(S)
        /\ A!ToSet(a) = A!ToSet(s) \cup {v}
        /\ A!IsInjective(s) /\ v \notin A!ToSet(s) => A!IsInjective(a)
    BY A!AppendFacts
  <2>2. ToSet(a) = A!ToSet(a) /\ ToSet(s) = A!ToSet(s)
    BY Zenon DEF ToSet, A!ToSet
  <2>3. (IsInjective(a) <=> A!IsInjective(a)) /\ (IsInjective(s) <=> A!IsInjective(s))
    BY Zenon DEF IsInjective, A!IsInjective
  <2> HIDE DEF a
  <2> QED BY <2>1, <2>2, <2>3
<1> HIDE DEF a
<1>2. CASE v = "" \/ v \in ToSet(s)
  BY <1>2 DEF Added
<1>3. CASE v # "" /\ v \notin ToSet(s)
  <2>1. Added(0, s, v) = a
    BY <1>3 DEF Added, a
  <2> QED BY <1>1, <1>3, <2>1
<1> QED BY <1>2, <1>3

\* AppendUnique adds the targets that are no blanks, and each of them once.
LEMMA AppendUniqueFacts ==
    ASSUME NEW S, NEW dst \in Seq(S), NEW vals \in Seq(S), IsInjective(dst)
    PROVE  /\ AppendUnique(dst, vals) \in Seq(S)
           /\ IsInjective(AppendUnique(dst, vals))
           /\ ToSet(AppendUnique(dst, vals)) = ToSet(dst) \cup (ToSet(vals) \ {""})
<1> DEFINE V == {s \in Seq(S) : IsInjective(s)}
           Seen(k) == {vals[i] : i \in 1 .. k}
           J == {p \in (0 .. Len(vals)) \X V : ToSet(p[2]) = ToSet(dst) \cup (Seen(p[1]) \ {""})}
<1>1. \A k \in 1 .. Len(vals) : vals[k] \in S
  OBVIOUS
<1>2. A!Closed(0, V, Len(vals), vals)
  BY <1>1, AddedFacts DEF A!Closed
<1>3. A!Inductive(0, V, dst, vals, J)
  <2>1. <<0, dst>> \in J
    <3>1. Seen(0) = {} /\ 0 \in 0 .. Len(vals)
      OBVIOUS
    <3> QED BY <3>1
  <2>2. ASSUME NEW k \in 1 .. Len(vals), NEW v \in V, <<k - 1, v>> \in J
        PROVE  <<k, Added(0, v, vals[k])>> \in J
    <3>1. Seen(k) = Seen(k - 1) \cup {vals[k]}
      BY A!PrefixGrows
    <3>2. ToSet(v) = ToSet(dst) \cup (Seen(k - 1) \ {""})
      BY <2>2
    <3>3. Added(0, v, vals[k]) \in V
      BY <1>1, AddedFacts
    <3>4. ToSet(Added(0, v, vals[k])) = ToSet(v) \cup ({vals[k]} \ {""})
      BY <1>1, AddedFacts, ZenonT(60)
    <3> HIDE DEF Seen
    <3>5. ToSet(Added(0, v, vals[k])) = ToSet(dst) \cup (Seen(k) \ {""})
      BY <3>1, <3>2, <3>4
    <3>6. k \in 0 .. Len(vals)
      OBVIOUS
    <3> HIDE DEF V
    <3> QED BY <3>3, <3>5, <3>6
  <2> QED BY <2>1, <2>2 DEF A!Inductive
<1>4. Seen(Len(vals)) = ToSet(vals)
  BY DEF ToSet
<1>5. dst \in V
  OBVIOUS
<1> HIDE DEF V, Seen
<1>6. A!Fold(0, dst, vals) \in V /\ <<Len(vals), A!Fold(0, dst, vals)>> \in J
  <2> HIDE DEF J
  <2> QED BY <1>2, <1>3, <1>5, A!FoldInduction
<1> QED BY <1>4, <1>6, AppendUniqueFolds DEF V

-----------------------------------------------------------------------------
\* What a layer leaves of a setting.
FromFile(f) == IF file.present /\ Valid(f, file.texts[f]) THEN Parsed(f, file.texts[f]) ELSE Defaults[f]
FileTargets == IF file.present THEN ToSet(file.targets) \ {""} ELSE {}

\* What Load has put together before each layer: the layers below it, in their order.
LayersInv ==
    /\ file \in Files /\ env \in Environments
    /\ targets \in Seq(STRING) /\ IsInjective(targets)
    /\ stage = "file" => file.present /\ cfg = Defaults /\ targets = <<>>
    /\ stage = "env" => (\A f \in Fields : cfg[f] = FromFile(f)) /\ ToSet(targets) = FileTargets
    /\ Precedence

\* The layers are read one after the other, each over what those below it left.
LEMMA LayersInvariant == Spec => []LayersInv
<1>1. Init => LayersInv
  <2>1. <<>> \in Seq(STRING) /\ IsInjective(<<>>) /\ ToSet(<<>>) = {}
    BY DEF IsInjective, ToSet
  <2> QED BY <2>1 DEF Init, LayersInv, Precedence, FromFile, FileTargets
<1>2. LayersInv /\ [Next]_vars => LayersInv'
  <2> SUFFICES ASSUME LayersInv, [Next]_vars PROVE LayersInv'
    OBVIOUS
  <2>1. file.targets \in Seq(STRING) /\ env.targets \in Seq(STRING)
    BY ConfigAssumption DEF LayersInv
  <2>2. CASE ReadFails
    BY <2>2 DEF ReadFails, LayersInv, Precedence
  <2>3. CASE ApplyFile
    <3>1. cfg = Defaults /\ targets = <<>> /\ file.present
      BY <2>3 DEF ApplyFile, LayersInv
    <3>2. /\ targets' \in Seq(STRING) /\ IsInjective(targets')
          /\ ToSet(targets') = ToSet(targets) \cup (ToSet(file.targets) \ {""})
      <4>1. targets' = AppendUnique(targets, file.targets)
        BY <2>3 DEF ApplyFile
      <4>2. targets \in Seq(STRING) /\ IsInjective(targets)
        BY DEF LayersInv
      <4> QED BY <2>1, <4>1, <4>2, AppendUniqueFacts, ZenonT(60)
    <3>3. ToSet(targets) = {}
      BY <3>1 DEF ToSet
    <3>4. \A f \in Fields : cfg'[f] = FromFile(f)
      BY <2>3, <3>1 DEF ApplyFile, ApplyTexts, FromFile
    <3> QED BY <2>3, <3>1, <3>2, <3>3, <3>4
            DEF ApplyFile, LayersInv, Precedence, FromFile, FileTargets
  <2>4. CASE ApplyEnv
    <3>1. /\ \A f \in Fields : cfg[f] = FromFile(f)
          /\ ToSet(targets) = FileTargets
      BY <2>4 DEF ApplyEnv, LayersInv
    <3>2. /\ targets' \in Seq(STRING) /\ IsInjective(targets')
          /\ ToSet(targets') = ToSet(targets) \cup (ToSet(env.targets) \ {""})
      <4>1. targets' = AppendUnique(targets, env.targets)
        BY <2>4 DEF ApplyEnv
      <4>2. targets \in Seq(STRING) /\ IsInjective(targets)
        BY DEF LayersInv
      <4> QED BY <2>1, <4>1, <4>2, AppendUniqueFacts, ZenonT(60)
    <3>3. \A f \in Fields :
            cfg'[f] = IF Valid(f, env.texts[f]) THEN Parsed(f, env.texts[f]) ELSE FromFile(f)
      BY <2>4, <3>1 DEF ApplyEnv, ApplyTexts
    <3>4. Precedence'
      BY <2>4, <3>1, <3>2, <3>3 DEF ApplyEnv, Precedence, FromFile, FileTargets
    <3> QED BY <2>4, <3>2, <3>4 DEF ApplyEnv, LayersInv
  <2>5. CASE Clamp
    BY <2>5 DEF Clamp, LayersInv, Precedence
  <2>6. CASE UNCHANGED vars
    BY <2>6 DEF vars, LayersInv, Precedence, FromFile, FileTargets
  <2> QED BY <2>2, <2>3, <2>4, <2>5, <2>6 DEF Next
<1> QED BY <1>1, <1>2, PTL DEF Spec

\* README: "defaults -> config file -> environment (env wins)": for every file and
\* environment, Load hands clamp each setting from the highest layer that gives it as a
\* readable text, and every target of both layers once.
THEOREM ConfigPrecedence == Spec => []Precedence
<1>1. LayersInv => Precedence
  BY DEF LayersInv
<1> QED BY <1>1, LayersInvariant, PTL
=============================================================================
