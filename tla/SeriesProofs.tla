---------------------------- MODULE SeriesProofs ----------------------------
(***************************************************************************)
(* The series of the dashboard: two series that share an id or a name are   *)
(* one line (IdsCollapse), each finite sample is on one line and counted    *)
(* once in the line of its type (LinesKeepSamples), and the legend names    *)
(* every line of a known model (LegendNames).                               *)
(*                                                                          *)
(* The page's loops are folds.  Each has its invariant, an operator of how  *)
(* far the loop is and what it has built: Mixed (the points of two lists    *)
(* put together), Gathered (the lines of the series seen so far) and Exact  *)
(* (the buckets of the samples seen so far).  FoldLemmas takes the          *)
(* invariant from the steps to the loop.                                    *)
(***************************************************************************)
EXTENDS PureProofs

-----------------------------------------------------------------------------
(* Matching with the fleet *)

\* What SelectLastInSeq and SelectInSeq return, as a position of a set.
LEMMA LastOf ==
    ASSUME NEW n \in Nat, NEW I \in SUBSET (1 .. n), NEW m, m = IF I # {} THEN Max(I) ELSE 0
    PROVE  m \in 0 .. n /\ (m # 0 => m \in I) /\ (m = 0 => I = {})
<1>1. m = IF I # {} THEN PointLoop!Max(I) ELSE 0
  BY Zenon DEF Max, PointLoop!Max
<1>2. m \in 0 .. n /\ (m # 0 => m \in I) /\ \A i \in I : i <= m
  BY <1>1, PointLoop!LastPosition
<1> QED BY <1>2

\* The same for the first position.
LEMMA FirstOf ==
    ASSUME NEW n \in Nat, NEW I \in SUBSET (1 .. n), NEW m, m = IF I # {} THEN Min(I) ELSE 0
    PROVE  m \in 0 .. n /\ (m # 0 => m \in I) /\ (m = 0 => I = {})
<1>1. I \in SUBSET Int /\ IsFiniteSet(I)
  <2>1. I \in SUBSET Int
    OBVIOUS
  <2>2. IsFiniteSet(1 .. n)
    BY FS_Interval
  <2> QED BY <2>1, <2>2, FS_Subset
<1>2. I # {} => Min(I) \in I
  BY <1>1, FiniteEnds
<1>3. CASE I = {}
  BY <1>3
<1>4. CASE I # {}
  <2>1. m \in I /\ I \subseteq 1 .. n
    BY <1>2, <1>4
  <2> QED BY <2>1, <1>4
<1> QED BY <1>3, <1>4

\* The page's maps have the row under the id, or the fleet a row of the name.
HostId(m) == Lower(Key("host", m.host))
ByAnId(s, m) ==
    \/ s.id = StableIDOf(m)
    \/ m.host # None /\ s.id = HostId(m)
    \/ m.mac # None /\ s.id = Key("mac", m.mac)
    \/ s.id = Key("ip", m.ip)
ByName(s, m) == m.host # None /\ Lower(Clean(Or(s.label, s.id))) = Clean(HostId(m))

\* The row of a series has it by one of its ids, or no row has and its name is that of
\* the label.
LEMMA LiveRowFacts ==
    ASSUME NEW S, NEW rows \in Seq(S), NEW s, NEW n, n = LiveRow(s, rows)
    PROVE  /\ n \in 0 .. Len(rows)
           /\ n # 0 => ByAnId(s, rows[n]) \/ ByName(s, rows[n])
           /\ n = 0 \/ ~ByAnId(s, rows[n]) => \A i \in 1 .. Len(rows) : ~ByAnId(s, rows[i])
           /\ n = 0 => \A i \in 1 .. Len(rows) : ~ByName(s, rows[i])
<1> DEFINE name == Lower(Clean(Or(s.label, s.id)))
           A == {i \in 1 .. Len(rows) : \/ s.id = StableIDOf(rows[i])
                                        \/ rows[i].host # None /\ s.id = HostId(rows[i])}
           B == {i \in 1 .. Len(rows) : rows[i].mac # None /\ s.id = Key("mac", rows[i].mac)}
           C == {i \in 1 .. Len(rows) : s.id = Key("ip", rows[i].ip)}
           D == {i \in 1 .. Len(rows) : rows[i].host # None /\ name = Clean(HostId(rows[i]))}
           a == IF A # {} THEN Max(A) ELSE 0
           b == IF B # {} THEN Max(B) ELSE 0
           c == IF C # {} THEN Max(C) ELSE 0
           d == IF D # {} THEN Max(D) ELSE 0
<1>1. n = IF a # 0 THEN a ELSE IF b # 0 THEN b ELSE IF c # 0 THEN c ELSE d
  BY Zenon DEF LiveRow, SelectLastInSeq, HostId
<1>2. /\ a \in 0 .. Len(rows) /\ (a # 0 => a \in A) /\ (a = 0 => A = {})
      /\ b \in 0 .. Len(rows) /\ (b # 0 => b \in B) /\ (b = 0 => B = {})
      /\ c \in 0 .. Len(rows) /\ (c # 0 => c \in C) /\ (c = 0 => C = {})
      /\ d \in 0 .. Len(rows) /\ (d # 0 => d \in D) /\ (d = 0 => D = {})
  <2>1. Len(rows) \in Nat
    OBVIOUS
  <2>2. A \in SUBSET (1 .. Len(rows)) /\ B \in SUBSET (1 .. Len(rows))
        /\ C \in SUBSET (1 .. Len(rows)) /\ D \in SUBSET (1 .. Len(rows))
    OBVIOUS
  <2> HIDE DEF A, B, C, D
  <2> QED BY <2>1, <2>2, LastOf
<1> HIDE DEF a, b, c, d
<1>3. \A i \in 1 .. Len(rows) : /\ ByAnId(s, rows[i]) <=> i \in A \/ i \in B \/ i \in C
                                /\ ByName(s, rows[i]) <=> i \in D
  <2> SUFFICES ASSUME NEW i \in 1 .. Len(rows)
               PROVE  /\ ByAnId(s, rows[i]) <=> i \in A \/ i \in B \/ i \in C
                      /\ ByName(s, rows[i]) <=> i \in D
    OBVIOUS
  <2>1. ByAnId(s, rows[i]) <=> i \in A \/ i \in B \/ i \in C
    <3>1. i \in A <=> (s.id = StableIDOf(rows[i]) \/ (rows[i].host # None /\ s.id = HostId(rows[i])))
      BY Zenon
    <3>2. i \in B <=> rows[i].mac # None /\ s.id = Key("mac", rows[i].mac)
      BY Zenon
    <3>3. i \in C <=> s.id = Key("ip", rows[i].ip)
      BY Zenon
    <3> HIDE DEF A, B, C
    <3> QED BY <3>1, <3>2, <3>3, Zenon DEF ByAnId
  <2>2. ByName(s, rows[i]) <=> i \in D
    BY Zenon DEF ByName
  <2> QED BY <2>1, <2>2
<1>4. A \subseteq 1 .. Len(rows) /\ B \subseteq 1 .. Len(rows) /\ C \subseteq 1 .. Len(rows) /\ D \subseteq 1 .. Len(rows)
  OBVIOUS
<1> HIDE DEF A, B, C, D
<1>5. n \in 0 .. Len(rows)
  BY <1>1, <1>2
<1>6. n # 0 => n \in A \/ n \in B \/ n \in C \/ (n \in D /\ A = {} /\ B = {} /\ C = {})
  BY <1>1, <1>2
<1>7. n = 0 => A = {} /\ B = {} /\ C = {} /\ D = {}
  BY <1>1, <1>2
<1> QED BY <1>3, <1>4, <1>5, <1>6, <1>7

\* What the parts of an identity are.
LEMMA RowParts ==
    ASSUME NEW m \in FleetRow
    PROVE  /\ m.ip \in Addresses /\ m.host \in Hostnames \cup {None} /\ m.model \in Models \cup {None}
           /\ m.serial \in Serials \cup {None}
           /\ NormalizeMAC(m.mac) # None => m.mac = NormalizeMAC(m.mac)
           /\ m.host # None => HostId(m) = Key("host", LowerHost[m.host])
           /\ m.host # None => LowerHost[m.host] \in Hostnames
           /\ m.host # None => LowerHost[LowerHost[m.host]] = LowerHost[m.host]
<1>1. m.ip \in Addresses /\ m.host \in Hostnames \cup {None} /\ m.model \in Models \cup {None}
      /\ m.serial \in Serials \cup {None}
  BY DEF FleetRow
<1>2. ASSUME NormalizeMAC(m.mac) # None PROVE m.mac = NormalizeMAC(m.mac)
  <2>1. m = [m EXCEPT !.mac = NormalizeMAC(m.mac)]
    BY <1>2 DEF FleetRow, WithPlainMac
  <2>2. [m EXCEPT !.mac = NormalizeMAC(m.mac)].mac = NormalizeMAC(m.mac)
    BY DEF FleetRow
  <2> QED BY <2>1, <2>2
<1>3. m.host # None => m.host \in Hostnames
  BY <1>1
<1>4. m.host # None => HostId(m) = Key("host", LowerHost[m.host])
  BY <1>3 DEF HostId, Lower, Key
<1>5. m.host # None => /\ LowerHost[m.host] \in Hostnames
                       /\ LowerHost[LowerHost[m.host]] = LowerHost[m.host]
  BY <1>3, IdentityAssumption, SeriesAssumption
<1> QED BY <1>1, <1>2, <1>4, <1>5

\* The ids of a row, by kind.
LEMMA IdsByKind ==
    ASSUME NEW m \in FleetRow, NEW id \in IdsOf(m)
    PROVE  /\ id = Key(id.kind, id.name)
           /\ \/ id.kind = "ip" /\ id.name = m.ip
              \/ /\ id.kind \in {"host", "bare"} /\ DistinctiveHostname(m.host) # None
                 /\ id.name = DistinctiveHostname(m.host)
              \/ /\ id.kind = "mac" /\ NormalizeMAC(m.mac) # None
                 /\ id.name = NormalizeMAC(m.mac)
              \/ id.kind = "sn"
<1>1. \/ id = Key("ip", m.ip)
      \/ DistinctiveHostname(m.host) # None /\ id = Key("host", DistinctiveHostname(m.host))
      \/ DistinctiveHostname(m.host) # None /\ id = Key("bare", DistinctiveHostname(m.host))
      \/ NormalizeMAC(m.mac) # None /\ id = Key("mac", NormalizeMAC(m.mac))
      \/ id = Key("sn", NormalizeSerial(m.serial))
  BY DEF IdsOf, IdentityAliases, StableIDOf, StableID
<1>2. \A kind, name : Key(kind, name).kind = kind /\ Key(kind, name).name = name
  BY DEF Key
<1> HIDE DEF Key
<1> QED BY <1>1, <1>2

\* A row with a hostname of its own.
LEMMA NamedRow ==
    ASSUME NEW m \in FleetRow, DistinctiveHostname(m.host) # None
    PROVE  /\ m.host # None /\ DistinctiveHostname(m.host) = LowerHost[m.host]
           /\ StableIDOf(m) = HostId(m)
           /\ Clean(HostId(m)) = Bare(LowerHost[m.host])
<1>1. m.host # None /\ DistinctiveHostname(m.host) = LowerHost[m.host]
  BY DEF DistinctiveHostname
<1>2. HostId(m) = Key("host", LowerHost[m.host])
  BY <1>1, RowParts
<1>3. StableIDOf(m) = Key("host", LowerHost[m.host])
  BY <1>1 DEF StableIDOf, StableID
<1>4. Clean(Key("host", LowerHost[m.host])) = Bare(LowerHost[m.host])
  BY DEF Clean, Key
<1> QED BY <1>1, <1>2, <1>3, <1>4

\* An id of the history that the page has a row for, other than a bare hostname.
LEMMA FoundById ==
    ASSUME NEW m \in FleetRow, DistinctiveHostname(m.host) # None, NEW s, s.id \in HistoryIds
    PROVE  ByAnId(s, m) <=> s.id \in PageIds(m) /\ s.id.kind # "bare"
<1>1. PICK o \in FleetRow : s.id \in IdsOf(o)
  BY DEF HistoryIds
<1> DEFINE k == s.id
<1>2. k = Key(k.kind, k.name)
  BY <1>1, IdsByKind
<1>3. k.kind = "mac" => NormalizeMAC(k.name) = k.name /\ k.name # None
  <2> SUFFICES ASSUME k.kind = "mac" PROVE NormalizeMAC(k.name) = k.name /\ k.name # None
    OBVIOUS
  <2>1. NormalizeMAC(o.mac) # None /\ k.name = NormalizeMAC(o.mac)
    BY <1>1, IdsByKind
  <2> QED BY <1>1, <2>1, RowParts
<1>4. /\ m.host # None /\ DistinctiveHostname(m.host) = LowerHost[m.host]
      /\ StableIDOf(m) = HostId(m) /\ HostId(m) = Key("host", LowerHost[m.host])
  BY NamedRow, RowParts
<1>5. \A kind, name : Key(kind, name).kind = kind /\ Key(kind, name).name = name
  BY DEF Key
<1>6. ASSUME ByAnId(s, m) PROVE k \in PageIds(m) /\ k.kind # "bare"
  <2>1. CASE k = HostId(m)
    BY <2>1, <1>4, <1>5 DEF PageIds, IdsOf
  <2>2. CASE k = Key("ip", m.ip)
    BY <2>2, <1>4, <1>5 DEF PageIds, IdsOf, IdentityAliases
  <2>3. CASE m.mac # None /\ k = Key("mac", m.mac)
    <3>1. k.kind = "mac" /\ k.name = m.mac
      BY <2>3, <1>5
    <3>2. NormalizeMAC(m.mac) = m.mac /\ m.mac # None
      BY <3>1, <1>3
    <3>3. k # StableIDOf(m)
      BY <2>3, <1>4, <1>5
    <3>4. k \in IdentityAliases(m)
      BY <2>3, <3>2, <3>3 DEF IdentityAliases
    <3> QED BY <3>1, <3>4 DEF PageIds, IdsOf
  <2> QED BY <1>4, <1>6, <2>1, <2>2, <2>3 DEF ByAnId
<1>7. ASSUME k \in PageIds(m), k.kind # "bare" PROVE ByAnId(s, m)
  <2>1. k \in IdsOf(m) /\ k.kind # "sn"
    BY <1>7 DEF PageIds
  <2>2. CASE k.kind = "ip" /\ k.name = m.ip
    BY <1>2, <2>2 DEF ByAnId
  <2>3. CASE k.kind = "host" /\ k.name = DistinctiveHostname(m.host)
    BY <1>2, <1>4, <2>3 DEF ByAnId
  <2>4. CASE k.kind = "mac" /\ NormalizeMAC(m.mac) # None /\ k.name = NormalizeMAC(m.mac)
    <3>1. m.mac = NormalizeMAC(m.mac)
      BY <2>4, RowParts
    <3> QED BY <1>2, <2>4, <3>1 DEF ByAnId
  <2> QED BY <1>7, <2>1, <2>2, <2>3, <2>4, IdsByKind
<1> QED BY <1>6, <1>7

\* Under a bare hostname it finds the row of that name.
LEMMA FoundByName ==
    ASSUME NEW m \in FleetRow, DistinctiveHostname(m.host) # None,
           NEW s, FromHistory(s), s.id.kind = "bare"
    PROVE  ByName(s, m) <=> s.id \in PageIds(m)
<1>1. PICK o \in FleetRow : s.id \in IdsOf(o)
  BY DEF FromHistory, HistoryIds
<1> DEFINE d == DistinctiveHostname(o.host)
<1>2. d # None /\ s.id = Bare(d)
  BY <1>1, IdsByKind DEF Bare
<1>3. d = LowerHost[o.host] /\ d \in Hostnames /\ LowerHost[d] = d
  <2>1. o.host # None /\ d = LowerHost[o.host]
    BY <1>2, NamedRow
  <2> QED BY <2>1, RowParts
<1> HIDE DEF d
<1>4. s.label = s.id
  <2>1. \A x \in FleetRow : StableIDOf(x).kind # "bare"
    BY DEF StableIDOf, StableID, Key
  <2> QED BY <2>1 DEF FromHistory
<1>5. Lower(Clean(Or(s.label, s.id))) = Bare(d)
  <2>1. Or(s.label, s.id) = Bare(d)
    BY <1>2, <1>4 DEF Or
  <2> QED BY <1>3, <2>1 DEF Clean, Lower, Bare, Key
<1>6. /\ m.host # None /\ DistinctiveHostname(m.host) = LowerHost[m.host]
      /\ StableIDOf(m) = HostId(m) /\ HostId(m) = Key("host", LowerHost[m.host])
      /\ Clean(HostId(m)) = Bare(LowerHost[m.host])
  BY NamedRow, RowParts
<1>7. ByName(s, m) <=> d = LowerHost[m.host]
  BY <1>5, <1>6 DEF ByName, Bare, Key
<1>8. s.id \in PageIds(m) <=> d = LowerHost[m.host]
  <2>1. ASSUME s.id \in PageIds(m) PROVE d = LowerHost[m.host]
    <3>1. s.id \in IdsOf(m) /\ s.id.kind = "bare" /\ s.id.name = d
      BY <2>1, <1>2 DEF PageIds, Bare, Key
    <3> QED BY <3>1, <1>6, IdsByKind
  <2>2. ASSUME d = LowerHost[m.host] PROVE s.id \in PageIds(m)
    <3>1. s.id = Key("bare", DistinctiveHostname(m.host)) /\ s.id # StableIDOf(m)
      BY <2>2, <1>2, <1>6 DEF Bare, Key
    <3>2. s.id \in IdentityAliases(m)
      BY <3>1 DEF IdentityAliases
    <3> QED BY <3>2 DEF PageIds, IdsOf
  <2> QED BY <2>1, <2>2
<1> QED BY <1>7, <1>8

\* The row of a series under an id of a row is that row.
LEMMA RowFound ==
    ASSUME NEW rows \in Seq(FleetRow), OwnIds(rows), NEW m \in ToSet(rows),
           NEW s, FromHistory(s), s.id \in PageIds(m)
    PROVE  LiveRow(s, rows) \in 1 .. Len(rows) /\ rows[LiveRow(s, rows)] = m
<1> DEFINE n == LiveRow(s, rows)
<1>1. /\ n \in 0 .. Len(rows)
      /\ n # 0 => ByAnId(s, rows[n]) \/ ByName(s, rows[n])
      /\ n = 0 \/ ~ByAnId(s, rows[n]) => \A i \in 1 .. Len(rows) : ~ByAnId(s, rows[i])
      /\ n = 0 => \A i \in 1 .. Len(rows) : ~ByName(s, rows[i])
  BY LiveRowFacts
<1> HIDE DEF n
<1>2. /\ \A i \in 1 .. Len(rows) : rows[i] \in FleetRow /\ rows[i] \in ToSet(rows)
      /\ \E i \in 1 .. Len(rows) : rows[i] = m
  BY DEF ToSet
<1>3. \A o \in ToSet(rows) : DistinctiveHostname(o.host) # None /\ (s.id \in PageIds(o) => o = m)
  BY DEF OwnIds
<1>4. s.id \in HistoryIds
  BY DEF FromHistory
<1>5. \A i \in 1 .. Len(rows) : /\ ByAnId(s, rows[i]) <=> s.id \in PageIds(rows[i]) /\ s.id.kind # "bare"
                                /\ s.id.kind = "bare" => (ByName(s, rows[i]) <=> s.id \in PageIds(rows[i]))
  BY <1>2, <1>3, <1>4, FoundById, FoundByName
<1>6. n # 0
  BY <1>1, <1>2, <1>5
<1>7. n \in 1 .. Len(rows)
  BY <1>1, <1>6
<1>8. s.id \in PageIds(rows[n])
  <2>1. CASE s.id.kind = "bare"
    BY <1>1, <1>5, <1>6, <1>7, <2>1
  <2>2. CASE s.id.kind # "bare"
    <3>1. \E i \in 1 .. Len(rows) : ByAnId(s, rows[i])
      BY <1>2, <1>5, <2>2
    <3> QED BY <1>1, <1>5, <1>7, <3>1
  <2> QED BY <2>1, <2>2
<1> QED BY <1>2, <1>3, <1>7, <1>8 DEF n

\* The line of a series of a row that has a hostname.
LEMMA LineOfRow ==
    ASSUME NEW rows \in Seq(FleetRow), NEW s, LiveRow(s, rows) \in 1 .. Len(rows),
           NEW m, m = rows[LiveRow(s, rows)], DistinctiveHostname(m.host) # None
    PROVE  LineKey(Enriched(s, rows)) =
             IF DistinctiveHostname(m.host) \in BadLabels THEN Key("host", DistinctiveHostname(m.host))
             ELSE Key("h", DistinctiveHostname(m.host))
<1> DEFINE e == Enriched(s, rows)
           d == DistinctiveHostname(m.host)
<1>1. m \in FleetRow
  OBVIOUS
<1>2. /\ m.host # None /\ m.host \in Hostnames /\ d = LowerHost[m.host] /\ d \in Hostnames /\ LowerHost[d] = d
      /\ StableIDOf(m) = Key("host", d)
  BY <1>1, NamedRow, RowParts
<1>3. e.hostname = Bare(m.host) /\ e.canonicalId = Key("host", d)
  <2>1. Bare(m.host) # Empty
    BY <1>2 DEF Empty, Bare, Key
  <2>2. Or(Bare(m.host), s.label) = Bare(m.host) /\ Clean(Bare(m.host)) = Bare(m.host)
    BY <2>1 DEF Or, Clean, Bare, Key
  <2>3. LiveRow(s, rows) # 0
    OBVIOUS
  <2> QED BY <1>2, <2>2, <2>3, Zenon DEF Enriched
<1> HIDE DEF e, d
<1>4. HostOf(e) = Bare(d)
  <2>1. Bare(m.host) # Empty
    BY <1>2 DEF Empty, Bare, Key
  <2>2. Or(e.hostname, Or(e.label, Or(e.canonicalId, e.id))) = Bare(m.host)
    BY <1>3, <2>1 DEF Or
  <2>3. Clean(Bare(m.host)) = Bare(m.host)
    BY DEF Clean, Bare, Key
  <2>4. Lower(Bare(m.host)) = Bare(d)
    BY <1>2 DEF Lower, Bare, Key
  <2> QED BY <2>2, <2>3, <2>4 DEF HostOf
<1>5. BadHostLabel(Bare(d)) <=> d \in BadLabels
  <2>1. d # None
    BY <1>2, IdentityAssumption
  <2> QED BY <1>2, <2>1 DEF BadHostLabel, Lower, Empty, Bare, Key
<1>6. Or(e.canonicalId, e.id) = Key("host", d)
  BY <1>3 DEF Or, Empty, Bare, Key
<1> QED BY <1>4, <1>5, <1>6 DEF LineKey, Bare, Key, e, d

\* The series of the page, by their position.
LEMMA GivenLines ==
    ASSUME Given, input.part = "lines"
    PROVE  /\ input.rows \in Seq(FleetRow)
           /\ Len(input.series) \in Nat /\ DOMAIN input.series = 1 .. Len(input.series)
           /\ \A n \in DOMAIN input.series : FromHistory(input.series[n])
<1>1. input \in LineInputs
  BY InputKinds
<1> QED BY <1>1, PureAssumption

\* Where the rows have hostnames and ids of their own, two series are on one line of the
\* chart if and only if their ids are of one row: for fleets and histories of any size, and
\* whatever names isBadHostLabel refuses (enrichSeriesFromLive, mergeSeriesByMiner).
THEOREM SeriesCollapse == PureSpec => []IdsCollapse
<1>1. Given => IdsCollapse
  <2> SUFFICES ASSUME Given, input.part = "lines", OwnIds(input.rows),
                      NEW m \in ToSet(input.rows), NEW o \in ToSet(input.rows),
                      NEW s \in ToSet(input.series), NEW u \in ToSet(input.series),
                      s.id \in PageIds(m), u.id \in PageIds(o)
               PROVE  LineKey(Enriched(s, input.rows)) = LineKey(Enriched(u, input.rows)) <=> m = o
    BY DEF IdsCollapse, OneLineEach
  <2> DEFINE rows == input.rows
             d(x) == DistinctiveHostname(x.host)
  <2>1. rows \in Seq(FleetRow) /\ FromHistory(s) /\ FromHistory(u) /\ m \in FleetRow /\ o \in FleetRow
    BY GivenLines DEF ToSet
  <2>2. /\ LiveRow(s, rows) \in 1 .. Len(rows) /\ rows[LiveRow(s, rows)] = m
        /\ LiveRow(u, rows) \in 1 .. Len(rows) /\ rows[LiveRow(u, rows)] = o
    BY <2>1, RowFound
  <2>3. d(m) # None /\ d(o) # None
    BY DEF OwnIds
  <2>4. /\ LineKey(Enriched(s, rows)) = IF d(m) \in BadLabels THEN Key("host", d(m)) ELSE Key("h", d(m))
        /\ LineKey(Enriched(u, rows)) = IF d(o) \in BadLabels THEN Key("host", d(o)) ELSE Key("h", d(o))
    BY <2>1, <2>2, <2>3, LineOfRow
  <2>5. d(m) = d(o) => m = o
    <3>1. StableIDOf(m) = Key("host", d(m)) /\ StableIDOf(o) = Key("host", d(o))
      BY <2>3 DEF StableIDOf, StableID
    <3>2. StableIDOf(m) \in PageIds(m) /\ StableIDOf(o) \in PageIds(o)
      BY <3>1 DEF PageIds, IdsOf, Key
    <3> QED BY <3>1, <3>2 DEF OwnIds
  <2> HIDE DEF d, rows
  <2>6. LineKey(Enriched(s, rows)) = LineKey(Enriched(u, rows)) <=> d(m) = d(o)
    <3>1. \A x, y : /\ Key("host", x) = Key("host", y) => x = y
                    /\ Key("h", x) = Key("h", y) => x = y
                    /\ Key("host", x) # Key("h", y)
      BY DEF Key
    <3> QED BY <2>4, <3>1
  <2>7. m = o => d(m) = d(o)
    OBVIOUS
  <2> QED BY <2>5, <2>6, <2>7 DEF rows
<1> QED BY <1>1, GivenInvariant, PTL

-----------------------------------------------------------------------------
(* Merging samples *)

\* The loop of mergePoints.
LatestIn(c, s, p) == Latest(s, p)

LatestLoop == INSTANCE FoldLemmas WITH Op <- LatestIn

\* MergePoints is this fold.
LEMMA MergePointsFolds ==
    ASSUME NEW a, NEW b
    PROVE  MergePoints(a, b) = LatestLoop!Fold(0, <<>>, a \o b)
BY Zenon DEF MergePoints, LatestIn, FoldLeft, MapThenFoldSet, Max,
   LatestLoop!Fold, LatestLoop!FoldLeft, LatestLoop!MapThenFoldSet, LatestLoop!Max

\* Inserting between the samples before and those behind keeps strict order.
LEMMA InsertOrdered ==
    ASSUME NEW s \in Seq(Reals), NEW p \in Reals, NEW k \in 0 .. Len(s), NEW r,
           PointLoop!Inserted(Reals, s, k, p, r), Ordered(s),
           \A i \in 1 .. Len(s) : IF i <= k THEN s[i].t < p.t ELSE p.t < s[i].t
    PROVE  Ordered(r)
<1> DEFINE n == Len(s)
<1>1. /\ k \in Nat /\ n \in Nat /\ k <= n /\ DOMAIN s = 1 .. n
      /\ r \in Seq(Reals) /\ DOMAIN r = 1 .. n + 1
      /\ \A i \in 1 .. n + 1 : r[i] = IF i <= k THEN s[i] ELSE IF i = k + 1 THEN p ELSE s[i - 1]
  <2>1. r \in Seq(Reals) /\ Len(r) = n + 1 /\ n \in Nat
    BY DEF PointLoop!Inserted
  <2> QED BY <2>1 DEF PointLoop!Inserted
<1>2. p.t \in Int /\ \A i \in 1 .. n : s[i].t \in Int
  <2>1. \A q \in Reals : q.t \in Int
    BY DEF Reals, Drawings
  <2>2. \A i \in 1 .. n : s[i] \in Reals
    OBVIOUS
  <2> QED BY <2>1, <2>2
<1>3. \A i, j \in 1 .. n : i < j => s[i].t < s[j].t
  BY <1>1 DEF Ordered
<1>4. \A i \in 1 .. n : IF i <= k THEN s[i].t < p.t ELSE p.t < s[i].t
  OBVIOUS
<1> HIDE DEF n
<1> SUFFICES ASSUME NEW i \in 1 .. n + 1, NEW j \in 1 .. n + 1, i < j PROVE r[i].t < r[j].t
  BY <1>1 DEF Ordered
<1>5. CASE j <= k
  <2>1. r[i] = s[i] /\ r[j] = s[j] /\ i \in 1 .. n /\ j \in 1 .. n
    BY <1>1, <1>5
  <2> QED BY <1>3, <2>1
<1>6. CASE j = k + 1
  <2>1. r[i] = s[i] /\ r[j] = p /\ i \in 1 .. n /\ i <= k
    BY <1>1, <1>6
  <2> QED BY <1>4, <2>1
<1>7. CASE j > k + 1
  <2>1. r[j] = s[j - 1] /\ j - 1 \in 1 .. n /\ ~(j - 1 <= k)
    BY <1>1, <1>7
  <2>2. CASE i <= k
    <3>1. r[i] = s[i] /\ i \in 1 .. n /\ i < j - 1
      BY <1>1, <1>7, <2>2
    <3> QED BY <1>3, <2>1, <3>1
  <2>3. CASE i = k + 1
    <3>1. r[i] = p
      BY <1>1, <2>3
    <3> QED BY <1>4, <2>1, <3>1
  <2>4. CASE i > k + 1
    <3>1. r[i] = s[i - 1] /\ i - 1 \in 1 .. n /\ i - 1 < j - 1
      BY <1>1, <2>4
    <3> QED BY <1>3, <2>1, <3>1
  <2> QED BY <1>1, <2>2, <2>3, <2>4
<1> QED BY <1>1, <1>5, <1>6, <1>7

\* The finite ones of the first k samples, one of each time, in order.
Mixed(raw, k, s) ==
    /\ s \in Seq(Reals) /\ Ordered(s)
    /\ ToSet(s) \subseteq {p \in {raw[i] : i \in 1 .. k} : p.v # NotFinite}
    /\ \A i \in 1 .. k : raw[i].v # NotFinite => \E q \in ToSet(s) : q.t = raw[i].t

\* One more sample keeps them so.
LEMMA MixedStep ==
    ASSUME NEW raw \in Seq(Samples), NEW k \in 1 .. Len(raw), NEW s, Mixed(raw, k - 1, s)
    PROVE  Mixed(raw, k, Latest(s, raw[k]))
<1> DEFINE p == raw[k]
           r == Latest(s, p)
           first(n) == {q \in {raw[i] : i \in 1 .. n} : q.v # NotFinite}
<1>0. k \in Nat \ {0} /\ p \in Samples /\ s \in Seq(Reals) /\ Ordered(s)
  BY DEF Mixed
<1>1. \A i \in 1 .. k : i = k \/ i \in 1 .. (k - 1)
  BY <1>0
<1>2. /\ ToSet(s) \subseteq first(k - 1)
      /\ \A i \in 1 .. (k - 1) : raw[i].v # NotFinite => \E q \in ToSet(s) : q.t = raw[i].t
  BY DEF Mixed
<1>3. first(k - 1) \subseteq first(k) /\ (p.v # NotFinite => p \in first(k))
  <2>1. {raw[i] : i \in 1 .. k} = {raw[i] : i \in 1 .. (k - 1)} \cup {p}
    BY <1>0, PointLoop!PrefixGrows
  <2> QED BY <2>1
<1>4. DOMAIN s = 1 .. Len(s) /\ Len(s) \in Nat /\ \A i \in 1 .. Len(s) : s[i] \in Reals /\ s[i].t \in Int
  <2>1. \A q \in Reals : q.t \in Int
    BY DEF Reals, Drawings
  <2> QED BY <1>0, <2>1
<1> HIDE DEF first
<1>5. CASE p.v = NotFinite
  <2>1. r = s
    BY <1>0, <1>5, ByTimeFacts DEF Latest
  <2>2. \A i \in 1 .. k : raw[i].v # NotFinite => \E q \in ToSet(s) : q.t = raw[i].t
    BY <1>1, <1>2, <1>5
  <2>3. ToSet(s) \subseteq first(k)
    BY <1>2, <1>3
  <2> HIDE DEF p, r
  <2> QED BY <1>0, <2>1, <2>2, <2>3 DEF Mixed, first, p, r
<1>6. CASE p.v # NotFinite /\ \E o \in ToSet(s) : o.t = p.t
  <2>1. r = [i \in DOMAIN s |-> IF s[i].t = p.t THEN p ELSE s[i]]
    BY <1>6 DEF Latest
  <2>2. p \in Reals
    BY <1>0, <1>6, ByTimeFacts
  <2> HIDE DEF p, r
  <2>3. DOMAIN r = 1 .. Len(s) /\ \A i \in 1 .. Len(s) : r[i] = (IF s[i].t = p.t THEN p ELSE s[i]) /\ r[i] \in Reals /\ r[i].t = s[i].t
    BY <1>4, <2>1, <2>2
  <2>4. r \in Seq(Reals)
    <3>1. r \in [1 .. Len(s) -> Reals]
      BY <2>1, <2>2, <1>4
    <3> QED BY <3>1, <1>4, SeqDef
  <2>5. Ordered(r)
    BY <1>0, <1>4, <2>3 DEF Ordered
  <2>6. ToSet(r) \subseteq first(k)
    <3>1. \A i \in 1 .. Len(s) : s[i] \in ToSet(s)
      BY <1>4 DEF ToSet
    <3> QED BY <1>2, <1>3, <1>6, <2>3, <3>1 DEF ToSet
  <2>7. \A q \in ToSet(s) : \E x \in ToSet(r) : x.t = q.t
    BY <1>4, <2>3 DEF ToSet
  <2>8. \A i \in 1 .. k : raw[i].v # NotFinite => \E q \in ToSet(r) : q.t = raw[i].t
    <3>1. \A i \in 1 .. k : raw[i].v # NotFinite => \E q \in ToSet(s) : q.t = raw[i].t
      BY <1>1, <1>2, <1>6 DEF p
    <3> QED BY <3>1, <2>7
  <2> QED BY <2>4, <2>5, <2>6, <2>8 DEF Mixed, first, p, r
<1>7. CASE p.v # NotFinite /\ ~ \E o \in ToSet(s) : o.t = p.t
  <2>1. r = ByTime(s, p)
    BY <1>7 DEF Latest
  <2>2. p \in Reals /\ p.t \in Int
    BY <1>0, <1>7, ByTimeFacts DEF Samples
  <2>3. PICK n \in 0 .. Len(s) :
          /\ PointLoop!Inserted(Reals, s, n, p, r)
          /\ n # 0 => TimeKey[s[n]] <= TimeKey[p]
          /\ \A i \in 1 .. Len(s) : i > n => TimeKey[p] <= TimeKey[s[i]]
    BY <1>0, <1>7, <2>1, ByTimeFacts
  <2> HIDE DEF p, r
  <2>4. TimeKey[p] = p.t /\ \A i \in 1 .. Len(s) : TimeKey[s[i]] = s[i].t /\ s[i].t # p.t
    BY <1>4, <1>7, <2>2 DEF TimeKey, ToSet
  <2>5. \A i \in 1 .. Len(s) : IF i <= n THEN s[i].t < p.t ELSE p.t < s[i].t
    <3> SUFFICES ASSUME NEW i \in 1 .. Len(s)
                 PROVE  IF i <= n THEN s[i].t < p.t ELSE p.t < s[i].t
      OBVIOUS
    <3>1. CASE i <= n
      <4>1. n \in 1 .. Len(s) /\ s[n].t <= p.t /\ s[n].t # p.t
        BY <1>4, <2>3, <2>4, <3>1
      <4>2. i < n => s[i].t < s[n].t
        BY <1>0, <1>4, <4>1 DEF Ordered
      <4> QED BY <1>4, <2>2, <3>1, <4>1, <4>2
    <3>2. CASE ~(i <= n)
      <4>1. p.t <= s[i].t /\ p.t # s[i].t
        BY <1>4, <2>3, <2>4, <3>2
      <4> QED BY <1>4, <2>2, <3>2, <4>1
    <3> QED BY <3>1, <3>2
  <2>6. Ordered(r)
    BY <1>0, <2>2, <2>3, <2>5, InsertOrdered
  <2>7. r \in Seq(Reals)
    BY <2>3 DEF PointLoop!Inserted
  <2>8. ToSet(r) = ToSet(s) \cup {p}
    <3>1. PointLoop!ToSet(r) = PointLoop!ToSet(s) \cup {p}
      BY <1>0, <2>2, <2>3, PointLoop!InsertSet
    <3> QED BY <3>1, Zenon DEF ToSet, PointLoop!ToSet
  <2>9. \A i \in 1 .. k : raw[i].v # NotFinite => \E q \in ToSet(r) : q.t = raw[i].t
    BY <1>1, <1>2, <2>8 DEF p
  <2> QED BY <1>2, <1>3, <1>7, <2>6, <2>7, <2>8, <2>9 DEF Mixed, first, p, r
<1> QED BY <1>5, <1>6, <1>7

\* What the merge of the samples of two series is.
LEMMA MergePointsFacts ==
    ASSUME NEW a \in Seq(Samples), NEW b \in Seq(Samples)
    PROVE  LET r == MergePoints(a, b)
           IN  /\ r \in Seq(Samples) /\ Ordered(r)
               /\ Finite(r) \subseteq Finite(a) \cup Finite(b)
               /\ \A p \in Finite(a) \cup Finite(b) : \E q \in Finite(r) : q.t = p.t
<1> DEFINE raw == a \o b
           V == Seq(Reals)
           J == {w \in Nat \X V : Mixed(raw, w[1], w[2])}
           r == MergePoints(a, b)
<1>1. raw \in Seq(Samples) /\ Len(raw) = Len(a) + Len(b) /\ Len(raw) \in Nat
  OBVIOUS
<1>2. /\ \A i \in 1 .. Len(a) : i \in 1 .. Len(raw) /\ raw[i] = a[i]
      /\ \A i \in 1 .. Len(b) : Len(a) + i \in 1 .. Len(raw) /\ raw[Len(a) + i] = b[i]
      /\ \A i \in 1 .. Len(raw) : i \in 1 .. Len(a) \/ (i - Len(a) \in 1 .. Len(b) /\ raw[i] = b[i - Len(a)])
  <2>1. \A i \in 1 .. Len(raw) : raw[i] = IF i <= Len(a) THEN a[i] ELSE b[i - Len(a)]
    OBVIOUS
  <2>2. Len(a) \in Nat /\ Len(b) \in Nat
    OBVIOUS
  <2>3. Len(raw) = Len(a) + Len(b)
    OBVIOUS
  <2> HIDE DEF raw
  <2>4. ASSUME NEW i \in 1 .. Len(a) PROVE i \in 1 .. Len(raw) /\ raw[i] = a[i]
    <3>1. i \in 1 .. Len(raw)
      BY <2>2, <2>3
    <3> QED BY <2>1, <2>2, <3>1
  <2>5. ASSUME NEW i \in 1 .. Len(b)
        PROVE  Len(a) + i \in 1 .. Len(raw) /\ raw[Len(a) + i] = b[i]
    <3>1. Len(a) + i \in 1 .. Len(raw) /\ ~(Len(a) + i <= Len(a)) /\ (Len(a) + i) - Len(a) = i
      BY <2>2, <2>3
    <3> QED BY <2>1, <3>1
  <2>6. ASSUME NEW i \in 1 .. Len(raw), i \notin 1 .. Len(a)
        PROVE  i - Len(a) \in 1 .. Len(b) /\ raw[i] = b[i - Len(a)]
    <3>1. i - Len(a) \in 1 .. Len(b) /\ ~(i <= Len(a))
      BY <2>2, <2>3, <2>6
    <3> QED BY <2>1, <3>1
  <2> QED BY <2>4, <2>5, <2>6
<1> HIDE DEF raw
<1>3. LatestLoop!Closed(0, V, Len(raw), raw)
  <2> SUFFICES ASSUME NEW s \in V, NEW k \in 1 .. Len(raw)
               PROVE  Latest(s, raw[k]) \in V
    BY Zenon DEF LatestLoop!Closed, LatestIn
  <2>1. raw[k] \in Samples
    BY <1>1
  <2>2. \/ ByTime(s, raw[k]) = s
        \/ \E n \in 0 .. Len(s) : PointLoop!Inserted(Reals, s, n, raw[k], ByTime(s, raw[k]))
    BY <2>1, ByTimeFacts
  <2>3. ByTime(s, raw[k]) \in V
    BY <2>2 DEF PointLoop!Inserted
  <2>4. CASE raw[k].v # NotFinite /\ \E o \in ToSet(s) : o.t = raw[k].t
    <3>1. raw[k] \in Reals
      BY <2>1, <2>4, ByTimeFacts
    <3>2. Latest(s, raw[k]) = [i \in DOMAIN s |-> IF s[i].t = raw[k].t THEN raw[k] ELSE s[i]]
      BY <2>4 DEF Latest
    <3>3. Len(s) \in Nat /\ DOMAIN s = 1 .. Len(s) /\ \A i \in 1 .. Len(s) : s[i] \in Reals
      OBVIOUS
    <3>4. Latest(s, raw[k]) \in [1 .. Len(s) -> Reals]
      BY <3>1, <3>2, <3>3
    <3> QED BY <3>3, <3>4, SeqDef
  <2> QED BY <2>3, <2>4 DEF Latest
<1>4. LatestLoop!Inductive(0, V, <<>>, raw, J)
  <2>1. <<0, <<>>>> \in J
    <3>1. ToSet(<<>>) = {} /\ {raw[i] : i \in 1 .. 0} = {} /\ 1 .. 0 = {}
      BY DEF ToSet
    <3>2. <<>> \in V /\ Len(<<>>) = 0 /\ DOMAIN <<>> = {}
      OBVIOUS
    <3>3. Mixed(raw, 0, <<>>)
      BY <3>1, <3>2 DEF Mixed, Ordered
    <3>4. \A e \in V : Mixed(raw, 0, e) => <<0, e>> \in J
      OBVIOUS
    <3> HIDE DEF V, J
    <3> QED BY <3>2, <3>3, <3>4, Zenon
  <2>2. ASSUME NEW k \in 1 .. Len(raw), NEW s \in V, <<k - 1, s>> \in J
        PROVE  <<k, Latest(s, raw[k])>> \in J
    <3>1. Mixed(raw, k - 1, s)
      BY <2>2
    <3>2. Mixed(raw, k, Latest(s, raw[k]))
      <4> HIDE DEF J, V
      <4> QED BY <1>1, <3>1, MixedStep
    <3>3. k \in Nat /\ Latest(s, raw[k]) \in V
      BY <1>1, <3>2 DEF Mixed
    <3> QED BY <3>2, <3>3
  <2> HIDE DEF J, V
  <2> QED BY <2>1, <2>2, Zenon DEF LatestLoop!Inductive, LatestIn
<1>5. Mixed(raw, Len(raw), r)
  <2>1. <<>> \in V
    OBVIOUS
  <2>2. <<Len(raw), LatestLoop!Fold(0, <<>>, raw)>> \in J
    <3> HIDE DEF J, V
    <3> QED BY <1>1, <2>1, <1>3, <1>4, LatestLoop!FoldInduction
  <2>3. r = LatestLoop!Fold(0, <<>>, raw)
    BY MergePointsFolds DEF raw
  <2> HIDE DEF r
  <2> QED BY <2>2, <2>3
<1> HIDE DEF r
<1>6. r \in Seq(Reals) /\ Ordered(r)
  BY <1>5 DEF Mixed
<1>7. /\ ToSet(r) \subseteq {p \in {raw[i] : i \in 1 .. Len(raw)} : p.v # NotFinite}
      /\ \A i \in 1 .. Len(raw) : raw[i].v # NotFinite => \E q \in ToSet(r) : q.t = raw[i].t
  BY <1>5 DEF Mixed
<1>8. Finite(r) = ToSet(r)
  BY <1>7 DEF Finite
<1>9. r \in Seq(Samples)
  <2>1. Reals \subseteq Samples
    BY DEF Reals, Drawings, Samples
  <2> QED BY <1>6, <2>1, SeqMonotonic
<1>10. \A q : q \in ToSet(a) \cup ToSet(b) <=> \E i \in 1 .. Len(raw) : raw[i] = q
  <2>1. \A q : (q \in ToSet(a) <=> \E i \in 1 .. Len(a) : a[i] = q) /\ (q \in ToSet(b) <=> \E i \in 1 .. Len(b) : b[i] = q)
    <3>1. DOMAIN a = 1 .. Len(a) /\ DOMAIN b = 1 .. Len(b)
      OBVIOUS
    <3> QED BY <3>1 DEF ToSet
  <2>2. \A i \in 1 .. Len(raw) : raw[i] \in ToSet(a) \/ raw[i] \in ToSet(b)
    BY <1>2, <2>1
  <2>3. \A q : q \in ToSet(a) \/ q \in ToSet(b) => \E i \in 1 .. Len(raw) : raw[i] = q
    <3> SUFFICES ASSUME NEW q, q \in ToSet(a) \/ q \in ToSet(b) PROVE \E i \in 1 .. Len(raw) : raw[i] = q
      OBVIOUS
    <3>1. CASE q \in ToSet(a)
      <4>1. PICK i \in 1 .. Len(a) : a[i] = q
        BY <2>1, <3>1
      <4>2. i \in 1 .. Len(raw) /\ raw[i] = q
        BY <1>2, <4>1
      <4> QED BY <4>2
    <3>2. CASE q \in ToSet(b)
      <4>1. PICK i \in 1 .. Len(b) : b[i] = q
        BY <2>1, <3>2
      <4>2. Len(a) + i \in 1 .. Len(raw) /\ raw[Len(a) + i] = q
        BY <1>2, <4>1
      <4> QED BY <4>2
    <3> QED BY <3>1, <3>2
  <2> QED BY <2>2, <2>3
<1>11. Finite(r) \subseteq Finite(a) \cup Finite(b)
  BY <1>7, <1>8, <1>10 DEF Finite
<1>12. \A p \in Finite(a) \cup Finite(b) : \E q \in Finite(r) : q.t = p.t
  <2> SUFFICES ASSUME NEW p \in Finite(a) \cup Finite(b) PROVE \E q \in ToSet(r) : q.t = p.t
    BY <1>8
  <2>1. p \in ToSet(a) \cup ToSet(b) /\ p.v # NotFinite
    BY DEF Finite
  <2> QED BY <1>7, <1>10, <2>1
<1> QED BY <1>6, <1>9, <1>11, <1>12 DEF r

-----------------------------------------------------------------------------
(* The series of the chart *)

\* Names as the page handles them.
Texts == [kind : {"host", "mac", "sn", "ip", "bare"}, name : Names \cup Models \cup {None}]
Types == Models \cup {None}
LineKeys == Texts \cup [kind : {"h"}, name : Names \cup Models \cup {None}]

\* A series matched with the fleet: if it goes by an id that is a hostname, that name is
\* one isBadHostLabel refuses.
Chartable == {e \in [id : Texts, model : Types, hostname : Texts, canonicalId : Texts,
                     label : Texts, points : Seq(Samples)] :
                /\ e.label.kind = "bare"
                /\ BadHostLabel(HostOf(e)) =>
                     \A d : Or(e.canonicalId, e.id) = Key("host", d) => d \in BadLabels}

\* The operators on names stay among them.
LEMMA TextFacts ==
    ASSUME NEW x \in Texts
    PROVE  /\ Clean(x) \in Texts /\ Clean(x).kind # "host" /\ Clean(x).name = x.name
           /\ Lower(x) \in Texts /\ Lower(x).kind = x.kind /\ Lower(Lower(x)) = Lower(x)
           /\ \A y \in Texts : Or(x, y) \in Texts
           /\ Empty \in Texts /\ \A n \in Names \cup Types : Bare(n) \in Texts
<1>1. \A h \in Hostnames : LowerHost[h] \in Hostnames /\ LowerHost[LowerHost[h]] = LowerHost[h]
  BY IdentityAssumption, SeriesAssumption
<1>2. Empty \in Texts /\ \A n \in Names \cup Types : Bare(n) \in Texts
  BY DEF Empty, Bare, Key, Texts, Types
<1>3. Clean(x) \in Texts /\ Clean(x).kind # "host" /\ Clean(x).name = x.name
  BY DEF Clean, Bare, Key, Texts
<1>4. Lower(x) \in Texts /\ Lower(x).kind = x.kind
  BY <1>1 DEF Lower, Texts, Names
<1>5. Lower(Lower(x)) = Lower(x)
  <2>1. CASE x.name \in Hostnames
    <3>1. Lower(x) = [x EXCEPT !.name = LowerHost[x.name]] /\ LowerHost[x.name] \in Hostnames
      BY <1>1, <2>1 DEF Lower
    <3>2. Lower(x).name = LowerHost[x.name]
      BY <3>1 DEF Texts
    <3>3. Lower(Lower(x)) = [Lower(x) EXCEPT !.name = LowerHost[x.name]]
      BY <1>1, <2>1, <3>1, <3>2 DEF Lower
    <3> QED BY <3>1, <3>3 DEF Texts
  <2>2. CASE x.name \notin Hostnames
    <3>1. Lower(x) = [x EXCEPT !.name = x.name]
      BY <2>2 DEF Lower
    <3>2. Lower(x) = x
      BY <3>1 DEF Texts
    <3> QED BY <3>2
  <2> QED BY <2>1, <2>2
<1>6. \A y \in Texts : Or(x, y) \in Texts
  BY DEF Or
<1> QED BY <1>2, <1>3, <1>4, <1>5, <1>6

\* What hostnameLabel returns is a name, and none only for want of a model.
LEMMA HostnameLabelFacts ==
    ASSUME NEW candidates \in Seq(Texts), NEW model \in Types
    PROVE  /\ HostnameLabel(candidates, model) \in Texts
           /\ HostnameLabel(candidates, model).kind = "bare"
           /\ model # None => HostnameLabel(candidates, model) # Empty
<1> DEFINE I == {i \in 1 .. Len(candidates) : ~BadHostLabel(Clean(candidates[i]))}
           n == IF I # {} THEN Min(I) ELSE 0
<1>1. HostnameLabel(candidates, model) = IF n # 0 THEN Clean(candidates[n]) ELSE Bare(model)
  BY Zenon DEF HostnameLabel, SelectInSeq
<1>2. n \in 0 .. Len(candidates) /\ (n # 0 => n \in I)
  <2>1. Len(candidates) \in Nat /\ I \in SUBSET (1 .. Len(candidates))
    OBVIOUS
  <2> HIDE DEF I
  <2> QED BY <2>1, FirstOf
<1> HIDE DEF n
<1>3. CASE n # 0
  <2>1. candidates[n] \in Texts /\ ~BadHostLabel(Clean(candidates[n]))
    BY <1>2, <1>3
  <2>2. Clean(candidates[n]) \in Texts /\ Clean(candidates[n]).kind # "host"
    BY <2>1, TextFacts
  <2>3. Clean(candidates[n]) # Empty /\ Clean(candidates[n]).kind \notin {"ip", "mac", "sn"}
    BY <2>1 DEF BadHostLabel
  <2> QED BY <1>1, <1>3, <2>2, <2>3 DEF Texts
<1>4. CASE n = 0
  <2>1. Bare(model) \in Texts /\ Bare(model).kind = "bare" /\ (Bare(model) = Empty => model = None)
    BY DEF Bare, Empty, Key, Texts, Types
  <2> QED BY <1>1, <1>4, <2>1
<1> QED BY <1>3, <1>4

\* The ids and names of a row.
LEMMA RowTexts ==
    ASSUME NEW m \in FleetRow
    PROVE  /\ StableIDOf(m) \in Texts /\ StableIDOf(m).kind # "bare" /\ IdsOf(m) \subseteq Texts
           /\ ServerLabel(m) \in Texts
           /\ \A d : Key("host", d) = StableIDOf(m) =>
                        /\ m.host \in Hostnames /\ d = LowerHost[m.host] /\ ServerLabel(m) = Bare(m.host)
           /\ \A d : Key("host", d) \in IdsOf(m) =>
                        /\ m.host \in Hostnames /\ d = LowerHost[m.host]
<1>1. /\ m.ip \in Addresses /\ m.host \in Hostnames \cup {None} /\ m.model \in Types
      /\ m.serial \in Serials \cup {None}
  BY RowParts DEF Types
<1>2. DistinctiveHostname(m.host) # None =>
        m.host \in Hostnames /\ DistinctiveHostname(m.host) = LowerHost[m.host] /\ LowerHost[m.host] \in Hostnames
  BY <1>1, IdentityAssumption DEF DistinctiveHostname
<1>3. NormalizeMAC(m.mac) # None => NormalizeMAC(m.mac) \in Macs
  BY IdentityAssumption DEF NormalizeMAC
<1>4. NormalizeSerial(m.serial) \in Serials \cup {None}
  BY <1>1, IdentityAssumption DEF NormalizeSerial
<1>5. \A kind, name : Key(kind, name).kind = kind /\ Key(kind, name).name = name
  BY DEF Key
<1>6. \A kind \in {"host", "mac", "sn", "ip", "bare"}, name \in Names \cup Types : Key(kind, name) \in Texts
  BY DEF Key, Texts, Types
<1>7. /\ StableIDOf(m) \in Texts /\ StableIDOf(m).kind # "bare"
      /\ \A d : Key("host", d) = StableIDOf(m) =>
                   DistinctiveHostname(m.host) # None /\ d = DistinctiveHostname(m.host)
  <2> HIDE DEF Key
  <2>1. CASE DistinctiveHostname(m.host) # None
    <3>1. StableIDOf(m) = Key("host", DistinctiveHostname(m.host)) /\ DistinctiveHostname(m.host) \in Names
      BY <1>2, <2>1 DEF StableIDOf, StableID, Names
    <3> QED BY <1>5, <1>6, <2>1, <3>1
  <2>2. CASE DistinctiveHostname(m.host) = None /\ NormalizeMAC(m.mac) # None
    <3>1. StableIDOf(m) = Key("mac", NormalizeMAC(m.mac)) /\ NormalizeMAC(m.mac) \in Names
      BY <1>3, <2>2 DEF StableIDOf, StableID, Names
    <3> QED BY <1>5, <1>6, <3>1
  <2>3. CASE DistinctiveHostname(m.host) = None /\ NormalizeMAC(m.mac) = None
    <3>1. StableIDOf(m) = Key("sn", NormalizeSerial(m.serial)) \/ StableIDOf(m) = Key("ip", m.ip)
      BY <2>3 DEF StableIDOf, StableID
    <3>2. NormalizeSerial(m.serial) \in Names \cup Types /\ m.ip \in Names \cup Types
      BY <1>1, <1>4 DEF Names, Types
    <3> QED BY <1>5, <1>6, <3>1, <3>2
  <2> QED BY <2>1, <2>2, <2>3
<1>8. ASSUME NEW id \in IdsOf(m) PROVE id \in Texts
  <2>1. \/ id = StableIDOf(m)
        \/ id = Key("ip", m.ip)
        \/ DistinctiveHostname(m.host) # None /\ id = Key("host", DistinctiveHostname(m.host))
        \/ DistinctiveHostname(m.host) # None /\ id = Key("bare", DistinctiveHostname(m.host))
        \/ NormalizeMAC(m.mac) # None /\ id = Key("mac", NormalizeMAC(m.mac))
        \/ id = Key("sn", NormalizeSerial(m.serial))
    BY <1>8 DEF IdsOf, IdentityAliases
  <2>2. /\ DistinctiveHostname(m.host) # None => DistinctiveHostname(m.host) \in Names \cup Types
        /\ NormalizeMAC(m.mac) # None => NormalizeMAC(m.mac) \in Names \cup Types
        /\ NormalizeSerial(m.serial) \in Names \cup Types /\ m.ip \in Names \cup Types
    BY <1>1, <1>2, <1>3, <1>4 DEF Names, Types
  <2> QED BY <1>6, <1>7, <2>1, <2>2
<1>9. ServerLabel(m) \in Texts
  <2>1. OrName(m.host, m.model) \in Names \cup Types
    BY <1>1 DEF OrName, Names, Types
  <2> QED BY <1>6, <2>1 DEF ServerLabel, Bare
<1>10. m.host \in Hostnames => ServerLabel(m) = Bare(m.host)
  BY IdentityAssumption DEF ServerLabel, OrName
<1>11. \A d : Key("host", d) \in IdsOf(m) => /\ m.host \in Hostnames /\ d = LowerHost[m.host]
  <2> SUFFICES ASSUME NEW d, Key("host", d) \in IdsOf(m)
               PROVE  m.host \in Hostnames /\ d = LowerHost[m.host]
    OBVIOUS
  <2>1. Key("host", d).kind = "host" /\ Key("host", d).name = d
    BY <1>5
  <2>2. DistinctiveHostname(m.host) # None /\ d = DistinctiveHostname(m.host)
    BY <2>1, IdsByKind
  <2> QED BY <1>2, <2>2
<1> QED BY <1>2, <1>7, <1>8, <1>9, <1>10, <1>11

\* A series of the history becomes one of the chart.
LEMMA EnrichedFacts ==
    ASSUME NEW rows \in Seq(FleetRow), NEW s, FromHistory(s)
    PROVE  Enriched(s, rows) \in Chartable
<1> DEFINE n == LiveRow(s, rows)
           m == rows[n]
           e == Enriched(s, rows)
           live == IF n = 0 THEN Empty ELSE Bare(m.host)
           model == IF n = 0 THEN s.model ELSE OrName(m.model, s.model)
           hostname == Clean(Or(live, s.label))
<1>1. n \in 0 .. Len(rows)
  BY LiveRowFacts
<1>2. n # 0 => m \in FleetRow
  BY <1>1
<1> HIDE DEF n, m
<1>3. s.id \in Texts /\ s.label \in Texts /\ s.model \in Types /\ s.points \in Seq(Samples)
  <2>1. PICK o \in FleetRow : s.id \in IdsOf(o)
    BY DEF FromHistory, HistoryIds
  <2>2. s.id \in Texts
    BY <2>1, RowTexts
  <2>3. s.label \in Texts
    BY <2>2, RowTexts DEF FromHistory
  <2> QED BY <2>2, <2>3 DEF FromHistory, Types, Samples
<1>4. live \in Texts /\ model \in Types
  <2>1. n # 0 => m.host \in Names \cup Types /\ m.model \in Types
    BY <1>2, RowParts DEF Names, Types
  <2>2. n # 0 => Bare(m.host) \in Texts
    BY <1>3, <2>1, TextFacts
  <2> QED BY <1>3, <2>1, <2>2, TextFacts DEF OrName
<1>5. hostname \in Texts
  <2> HIDE DEF live
  <2>1. Or(live, s.label) \in Texts
    BY <1>3, <1>4, TextFacts
  <2> QED BY <2>1, TextFacts
<1> DEFINE canon == IF n = 0 THEN Empty ELSE StableIDOf(m)
           candidates == <<live, hostname, s.label, s.id>>
<1>6. canon \in Texts
  BY <1>2, <1>3, RowTexts, TextFacts
<1>7. candidates \in Seq(Texts)
  BY <1>3, <1>4, <1>5
<1>8. e = [id |-> s.id, model |-> model, hostname |-> hostname, canonicalId |-> canon,
           label |-> HostnameLabel(candidates, model), points |-> s.points]
  BY Zenon DEF Enriched, n, m
<1>9. \A d : Or(canon, s.id) = Key("host", d) => HostOf(e) = Bare(d) /\ d \in Hostnames /\ LowerHost[d] = d
  <2> SUFFICES ASSUME NEW d, Or(canon, s.id) = Key("host", d)
               PROVE  HostOf(e) = Bare(d) /\ d \in Hostnames /\ LowerHost[d] = d
    OBVIOUS
  <2>1. \E h \in Hostnames : hostname = Bare(h) /\ Lower(Bare(h)) = Bare(d) /\ d = LowerHost[h]
    <3>1. CASE n # 0
      <4>1. canon # Empty
        <5>1. canon.kind # "bare"
          BY <1>2, <3>1, RowTexts
        <5> QED BY <5>1 DEF Empty, Bare, Key
      <4>2. canon = StableIDOf(m) /\ canon = Key("host", d)
        BY <3>1, <4>1 DEF Or
      <4>3. m.host \in Hostnames /\ d = LowerHost[m.host]
        BY <1>2, <3>1, <4>2, RowTexts
      <4>4. m.host # None
        BY <4>3, IdentityAssumption
      <4>5. live = Bare(m.host) /\ live # Empty
        BY <3>1, <4>4 DEF Empty, Bare, Key
      <4>6. hostname = Clean(Bare(m.host))
        BY <4>5 DEF Or
      <4>7. Clean(Bare(m.host)) = Bare(m.host) /\ Lower(Bare(m.host)) = Bare(d)
        BY <4>3 DEF Clean, Lower, Bare, Key
      <4> QED BY <4>3, <4>6, <4>7
    <3>2. CASE n = 0
      <4>1. s.id = Key("host", d)
        BY <3>2 DEF Or
      <4>2. hostname = Clean(s.label)
        BY <3>2 DEF Or
      <4>3. PICK o \in FleetRow : s.id \in IdsOf(o)
        BY DEF FromHistory, HistoryIds
      <4>4. o.host \in Hostnames /\ d = LowerHost[o.host]
        BY <4>1, <4>3, RowTexts
      <4>5. d \in Hostnames /\ LowerHost[d] = d
        BY <4>4, IdentityAssumption, SeriesAssumption
      <4>6. CASE s.label = s.id
        <5>1. hostname = Bare(d)
          BY <4>1, <4>2, <4>6 DEF Clean, Key
        <5>2. Lower(Bare(d)) = Bare(d)
          BY <4>5 DEF Lower, Bare, Key
        <5> QED BY <4>5, <5>1, <5>2
      <4>7. CASE \E x \in FleetRow : s.id = StableIDOf(x) /\ s.label = ServerLabel(x)
        <5>1. PICK x \in FleetRow : s.id = StableIDOf(x) /\ s.label = ServerLabel(x)
          BY <4>7
        <5>2. x.host \in Hostnames /\ d = LowerHost[x.host] /\ s.label = Bare(x.host)
          BY <4>1, <5>1, RowTexts
        <5>3. hostname = Bare(x.host) /\ Lower(Bare(x.host)) = Bare(d)
          BY <4>2, <5>2 DEF Clean, Lower, Bare, Key
        <5> QED BY <5>2, <5>3
      <4> QED BY <4>6, <4>7 DEF FromHistory
    <3> QED BY <3>1, <3>2
  <2>2. PICK h \in Hostnames : hostname = Bare(h) /\ Lower(Bare(h)) = Bare(d) /\ d = LowerHost[h]
    BY <2>1
  <2>3. e.hostname = Bare(h)
    BY <1>8, <2>2
  <2>4. Bare(h) # Empty
    BY IdentityAssumption DEF Empty, Bare, Key
  <2>5. Clean(Bare(h)) = Bare(h)
    BY DEF Clean, Bare, Key
  <2>6. HostOf(e) = Bare(d)
    BY <2>2, <2>3, <2>4, <2>5, Zenon DEF HostOf, Or
  <2> QED BY <2>2, <2>6, IdentityAssumption, SeriesAssumption
<1>10. HostnameLabel(candidates, model) \in Texts /\ HostnameLabel(candidates, model).kind = "bare"
  <2> HIDE DEF candidates, model
  <2> QED BY <1>4, <1>7, HostnameLabelFacts
<1> HIDE DEF candidates, hostname, live, canon, model
<1>11. /\ e \in [id : Texts, model : Types, hostname : Texts, canonicalId : Texts,
                 label : Texts, points : Seq(Samples)]
       /\ e.label.kind = "bare" /\ Or(e.canonicalId, e.id) = Or(canon, s.id)
  BY <1>3, <1>4, <1>5, <1>6, <1>8, <1>10
<1>12. ASSUME BadHostLabel(HostOf(e)), NEW d, Or(e.canonicalId, e.id) = Key("host", d)
       PROVE  d \in BadLabels
  <2>1. HostOf(e) = Bare(d) /\ d \in Hostnames /\ LowerHost[d] = d
    BY <1>9, <1>11, <1>12
  <2>2. d # None
    BY <2>1, IdentityAssumption
  <2>3. HostOf(e) # Empty /\ HostOf(e).kind = "bare" /\ Lower(HostOf(e)).name = d
    BY <2>1, <2>2 DEF Empty, Bare, Key, Lower
  <2> QED BY <1>12, <2>3 DEF BadHostLabel
<1> HIDE DEF e
<1> QED BY <1>11, <1>12 DEF Chartable, e

-----------------------------------------------------------------------------
(* The filters *)

\* The loop of the filter by the fleet and the controls.
TakeIn(c, kept, s) == IF OnChart(Enriched(s, c[1]), c[1], c[2])
                      THEN Append(kept, Enriched(s, c[1])) ELSE kept

TakeLoop == INSTANCE FoldLemmas WITH Op <- TakeIn

\* Charted is this fold.
LEMMA ChartedFolds ==
    ASSUME NEW series, NEW c
    PROVE  Charted(series, c[1], c[2]) = TakeLoop!Fold(c, <<>>, series)
BY Zenon DEF Charted, TakeIn, FoldLeft, MapThenFoldSet, Max,
   TakeLoop!Fold, TakeLoop!FoldLeft, TakeLoop!MapThenFoldSet, TakeLoop!Max

\* The chart has series of the history only.
LEMMA ChartedFacts ==
    ASSUME NEW rows \in Seq(FleetRow), NEW picked,
           NEW series, Len(series) \in Nat, DOMAIN series = 1 .. Len(series),
           \A n \in DOMAIN series : FromHistory(series[n])
    PROVE  Charted(series, rows, picked) \in Seq(Chartable)
<1> DEFINE V == Seq(Chartable)
           c == <<rows, picked>>
           S == {series[n] : n \in 1 .. Len(series)}
           J == Nat \X V
<1>1. c[1] = rows /\ c[2] = picked
  OBVIOUS
<1>2. \A n \in 1 .. Len(series) : Enriched(series[n], rows) \in Chartable
  BY EnrichedFacts
<1> HIDE DEF c
<1>3. TakeLoop!Closed(c, V, Len(series), series)
  <2> SUFFICES ASSUME NEW v \in V, NEW k \in 1 .. Len(series)
               PROVE  TakeIn(c, v, series[k]) \in V
    BY Zenon DEF TakeLoop!Closed
  <2>1. Enriched(series[k], c[1]) \in Chartable
    BY <1>1, <1>2
  <2>2. TakeIn(c, v, series[k]) = v \/ TakeIn(c, v, series[k]) = Append(v, Enriched(series[k], c[1]))
    BY DEF TakeIn
  <2> QED BY <2>1, <2>2
<1>4. PICK acc : TakeLoop!Trace(c, V, <<>>, Len(series), series, acc)
  <2>1. <<>> \in V
    OBVIOUS
  <2> HIDE DEF V
  <2> QED BY <1>3, <2>1, TakeLoop!FoldTrace
<1>5. Charted(series, rows, picked) = acc[Len(series)] /\ acc[Len(series)] \in V
  <2>1. Charted(series, rows, picked) = TakeLoop!Fold(c, <<>>, series)
    <3>1. Charted(series, c[1], c[2]) = TakeLoop!Fold(c, <<>>, series)
      BY ChartedFolds
    <3> QED BY <1>1, <3>1
  <2>2. TakeLoop!Fold(c, <<>>, series) = acc[Len(series)] /\ acc \in [0 .. Len(series) -> V]
    BY <1>4, Zenon DEF TakeLoop!Trace
  <2> QED BY <2>1, <2>2
<1> QED BY <1>5

\* A name in the legend.
NamedIn(c, kept, line) == IF line.label # Empty THEN Append(kept, line) ELSE kept

NamedLoop == INSTANCE FoldLemmas WITH Op <- NamedIn

NamedLines(lines) == FoldLeft(LAMBDA kept, line : NamedIn(0, kept, line), <<>>, lines)

\* The filter keeps the lines with a label.
LEMMA NamedFacts ==
    ASSUME NEW S, NEW lines \in Seq(S)
    PROVE  /\ NamedLines(lines) \in Seq(S)
           /\ ToSet(NamedLines(lines)) = {line \in ToSet(lines) : line.label # Empty}
<1> DEFINE V == Seq(S)
           first(k) == {line \in {lines[i] : i \in 1 .. k} : line.label # Empty}
           J == {w \in Nat \X V : ToSet(w[2]) = first(w[1])}
           r == NamedLines(lines)
<1>1. Len(lines) \in Nat /\ \A k \in 1 .. Len(lines) : lines[k] \in S
  OBVIOUS
<1>2. NamedLoop!Closed(0, V, Len(lines), lines)
  <2> SUFFICES ASSUME NEW v \in V, NEW k \in 1 .. Len(lines) PROVE NamedIn(0, v, lines[k]) \in V
    BY Zenon DEF NamedLoop!Closed
  <2>1. NamedIn(0, v, lines[k]) = v \/ NamedIn(0, v, lines[k]) = Append(v, lines[k])
    BY DEF NamedIn
  <2> QED BY <1>1, <2>1
<1>3. NamedLoop!Inductive(0, V, <<>>, lines, J)
  <2>1. <<0, <<>>>> \in J
    <3>1. ToSet(<<>>) = {} /\ first(0) = {} /\ <<>> \in V
      BY DEF ToSet
    <3> QED BY <3>1
  <2>2. ASSUME NEW k \in 1 .. Len(lines), NEW v \in V, <<k - 1, v>> \in J
        PROVE  <<k, NamedIn(0, v, lines[k])>> \in J
    <3>1. ToSet(v) = first(k - 1)
      BY <2>2
    <3>2. {lines[i] : i \in 1 .. k} = {lines[i] : i \in 1 .. (k - 1)} \cup {lines[k]}
      BY <1>1, PointLoop!PrefixGrows
    <3>3. first(k) = first(k - 1) \cup (IF lines[k].label # Empty THEN {lines[k]} ELSE {})
      BY <3>2
    <3>4. ToSet(Append(v, lines[k])) = ToSet(v) \cup {lines[k]}
      <4>1. /\ DOMAIN v = 1 .. Len(v) /\ Len(v) \in Nat
            /\ DOMAIN Append(v, lines[k]) = 1 .. (Len(v) + 1)
            /\ \A i \in 1 .. (Len(v) + 1) : Append(v, lines[k])[i] = IF i = Len(v) + 1 THEN lines[k] ELSE v[i]
        BY <1>1
      <4>2. \A i \in 1 .. (Len(v) + 1) : i \in 1 .. Len(v) \/ i = Len(v) + 1
        BY <4>1
      <4>3. Len(v) + 1 \in 1 .. (Len(v) + 1) /\ \A i \in 1 .. Len(v) : i \in 1 .. (Len(v) + 1) /\ i # Len(v) + 1
        BY <4>1
      <4> QED BY <4>1, <4>2, <4>3 DEF ToSet
    <3> HIDE DEF first
    <3>5. ToSet(NamedIn(0, v, lines[k])) = first(k)
      BY <3>1, <3>3, <3>4 DEF NamedIn
    <3>6. NamedIn(0, v, lines[k]) \in V
      BY <1>2, Zenon DEF NamedLoop!Closed
    <3>7. k \in Nat
      BY <1>1
    <3> QED BY <3>5, <3>6, <3>7
  <2> HIDE DEF J, V
  <2> QED BY <2>1, <2>2, Zenon DEF NamedLoop!Inductive
<1>4. r \in V /\ ToSet(r) = first(Len(lines))
  <2>1. <<>> \in V
    OBVIOUS
  <2>2. NamedLoop!Fold(0, <<>>, lines) \in V /\ <<Len(lines), NamedLoop!Fold(0, <<>>, lines)>> \in J
    <3> HIDE DEF J, V
    <3> QED BY <2>1, <1>2, <1>3, NamedLoop!FoldInduction
  <2>3. r = NamedLoop!Fold(0, <<>>, lines)
    BY Zenon DEF NamedLines, FoldLeft, MapThenFoldSet, Max,
       NamedLoop!Fold, NamedLoop!FoldLeft, NamedLoop!MapThenFoldSet, NamedLoop!Max
  <2> HIDE DEF r, first
  <2> QED BY <2>2, <2>3
<1>5. ToSet(lines) = {lines[i] : i \in 1 .. Len(lines)}
  BY DEF ToSet
<1> QED BY <1>4, <1>5 DEF r

-----------------------------------------------------------------------------
(* One line per miner *)

\* Two series have one id if and only if they have one key.
LEMMA KeyIsId ==
    ASSUME NEW e \in Chartable, NEW f \in Chartable
    PROVE  /\ LineKey(e) = LineKey(f) <=> LineId(e) = LineId(f)
           /\ LineKey(e) \in LineKeys /\ LineId(e) \in Texts
<1>1. ASSUME NEW x \in Chartable
      PROVE  /\ Or(x.canonicalId, x.id) \in Texts /\ HostOf(x) \in Texts
             /\ Lower(HostOf(x)) = HostOf(x)
  <2>1. x.id \in Texts /\ x.hostname \in Texts /\ x.canonicalId \in Texts /\ x.label \in Texts
    BY DEF Chartable
  <2>2. Or(x.canonicalId, x.id) \in Texts
    BY <2>1, TextFacts
  <2>3. Or(x.label, Or(x.canonicalId, x.id)) \in Texts
    BY <2>1, <2>2, TextFacts
  <2>4. Or(x.hostname, Or(x.label, Or(x.canonicalId, x.id))) \in Texts
    BY <2>1, <2>3, TextFacts
  <2>5. Clean(Or(x.hostname, Or(x.label, Or(x.canonicalId, x.id)))) \in Texts
    BY <2>4, TextFacts
  <2> QED BY <2>2, <2>5, TextFacts DEF HostOf
<1>2. ASSUME NEW x \in Chartable
      PROVE  /\ BadHostLabel(HostOf(x)) =>
                  /\ LineKey(x) = Or(x.canonicalId, x.id) /\ LineId(x) = Or(x.canonicalId, x.id)
                  /\ \A d : Or(x.canonicalId, x.id) = Key("host", d) => d \in BadLabels
             /\ ~BadHostLabel(HostOf(x)) =>
                  /\ LineKey(x) = Key("h", HostOf(x).name) /\ LineId(x) = Key("host", HostOf(x).name)
                  /\ HostOf(x).name \notin BadLabels
  <2>1. ~BadHostLabel(HostOf(x)) => HostOf(x).name \notin BadLabels
    BY <1>1 DEF BadHostLabel
  <2>2. BadHostLabel(HostOf(x)) => \A d : Or(x.canonicalId, x.id) = Key("host", d) => d \in BadLabels
    BY DEF Chartable
  <2> QED BY <2>1, <2>2 DEF LineKey, LineId
<1>3. \A n \in Names \cup Types : Key("h", n) \in LineKeys /\ Key("host", n) \in Texts
  BY DEF LineKeys, Key, Texts, Types
<1>4. \A t \in Texts : t.name \in Names \cup Types
  BY DEF Texts, Types
<1>5. LineKey(e) \in LineKeys /\ LineId(e) \in Texts
  BY <1>1, <1>2, <1>3, <1>4 DEF LineKeys
<1>6. \A t \in Texts : \A n : t # Key("h", n)
  BY DEF Texts, Key
<1>7. \A n, o : (Key("h", n) = Key("h", o) => n = o) /\ (Key("host", n) = Key("host", o) => n = o)
  BY DEF Key
<1>8. CASE BadHostLabel(HostOf(e)) <=> BadHostLabel(HostOf(f))
  <2>1. CASE BadHostLabel(HostOf(e)) /\ BadHostLabel(HostOf(f))
    BY <1>2, <1>5, <2>1
  <2>2. CASE ~BadHostLabel(HostOf(e)) /\ ~BadHostLabel(HostOf(f))
    <3>1. LineKey(e) = LineKey(f) <=> HostOf(e).name = HostOf(f).name
      BY <1>2, <1>7, <2>2
    <3>2. LineId(e) = LineId(f) <=> HostOf(e).name = HostOf(f).name
      BY <1>2, <1>7, <2>2
    <3> QED BY <1>5, <3>1, <3>2
  <2>3. CASE ~(BadHostLabel(HostOf(e)) <=> BadHostLabel(HostOf(f)))
    BY <1>8, <2>3
  <2> QED BY <1>8, <2>1, <2>2
<1>9. CASE BadHostLabel(HostOf(e)) /\ ~BadHostLabel(HostOf(f))
  <2>1. LineKey(e) # LineKey(f)
    BY <1>1, <1>2, <1>6, <1>9
  <2>2. LineId(e) # LineId(f)
    BY <1>2, <1>9
  <2> QED BY <1>5, <2>1, <2>2
<1>10. CASE ~BadHostLabel(HostOf(e)) /\ BadHostLabel(HostOf(f))
  <2>1. LineKey(e) # LineKey(f)
    BY <1>1, <1>2, <1>6, <1>10
  <2>2. LineId(e) # LineId(f)
    BY <1>2, <1>10
  <2> QED BY <1>5, <2>1, <2>2
<1> QED BY <1>5, <1>8, <1>9, <1>10

\* A line of the merge: it has a label if its model is known.
LineType == {l \in [key : LineKeys, id : Texts, model : Types, hostname : Texts,
                    canonicalId : Texts, label : Texts, points : Seq(Samples)] : l.label.kind = "bare"}
ChartLines == {l \in LineType : l.model # None => l.label # Empty}

\* A line gets its label from what it has.
LEMMA RelabeledFacts ==
    ASSUME NEW l \in LineType
    PROVE  /\ Relabeled(l) \in ChartLines
           /\ Relabeled(l).key = l.key /\ Relabeled(l).id = l.id /\ Relabeled(l).model = l.model
           /\ Relabeled(l).points = l.points
<1> DEFINE candidates == <<l.hostname, l.label, l.canonicalId, l.id>>
           new == HostnameLabel(candidates, l.model)
<1>1. l.model \in Types /\ candidates \in Seq(Texts) /\ l.label \in Texts /\ l.label.kind = "bare"
  BY DEF LineType
<1>2. Relabeled(l) = [l EXCEPT !.label = Or(new, l.label)]
  BY DEF Relabeled
<1> HIDE DEF candidates
<1>3. new \in Texts /\ new.kind = "bare" /\ (l.model # None => new # Empty)
  BY <1>1, HostnameLabelFacts
<1> HIDE DEF new
<1>4. /\ Or(new, l.label) \in Texts /\ Or(new, l.label).kind = "bare"
      /\ l.model # None => Or(new, l.label) # Empty
  BY <1>1, <1>3 DEF Or
<1>5. /\ Relabeled(l) \in [key : LineKeys, id : Texts, model : Types, hostname : Texts,
                           canonicalId : Texts, label : Texts, points : Seq(Samples)]
      /\ Relabeled(l).label = Or(new, l.label)
      /\ Relabeled(l).key = l.key /\ Relabeled(l).id = l.id /\ Relabeled(l).model = l.model
      /\ Relabeled(l).points = l.points
  BY <1>2, <1>4 DEF LineType
<1> QED BY <1>4, <1>5 DEF LineType, ChartLines

\* The first series of a line.
LEMMA NewLineFacts ==
    ASSUME NEW s \in Chartable
    PROVE  LET l == Relabeled([key |-> LineKey(s), id |-> LineId(s), model |-> s.model,
                               hostname |-> s.hostname, canonicalId |-> s.canonicalId,
                               label |-> s.label, points |-> s.points])
           IN  /\ l \in ChartLines /\ l.key = LineKey(s) /\ l.id = LineId(s)
               /\ l.model = s.model /\ l.points = s.points
<1> DEFINE l == [key |-> LineKey(s), id |-> LineId(s), model |-> s.model,
                 hostname |-> s.hostname, canonicalId |-> s.canonicalId,
                 label |-> s.label, points |-> s.points]
<1>1. LineKey(s) \in LineKeys /\ LineId(s) \in Texts
  BY KeyIsId
<1>2. l \in LineType
  BY <1>1 DEF Chartable, LineType
<1>3. l.key = LineKey(s) /\ l.id = LineId(s) /\ l.model = s.model /\ l.points = s.points
  OBVIOUS
<1> HIDE DEF l
<1> QED BY <1>2, <1>3, RelabeledFacts DEF l

\* One more series of a line.
LEMMA JoinedFacts ==
    ASSUME NEW l \in ChartLines, NEW s \in Chartable
    PROVE  /\ Joined(l, s) \in ChartLines /\ Joined(l, s).key = l.key /\ Joined(l, s).id = l.id
           /\ l.model # None \/ s.model # None => Joined(l, s).model # None
           /\ Joined(l, s).points = MergePoints(l.points, s.points)
<1> DEFINE merged == MergePoints(l.points, s.points)
           j == [l EXCEPT !.points = merged, !.canonicalId = Or(@, s.canonicalId),
                          !.hostname = Or(s.hostname, @), !.model = OrName(s.model, @)]
<1>1. /\ l \in [key : LineKeys, id : Texts, model : Types, hostname : Texts,
                canonicalId : Texts, label : Texts, points : Seq(Samples)]
      /\ l.label.kind = "bare"
      /\ s.id \in Texts /\ s.hostname \in Texts /\ s.canonicalId \in Texts /\ s.model \in Types
      /\ s.points \in Seq(Samples)
  BY DEF ChartLines, LineType, Chartable
<1>2. merged \in Seq(Samples)
  BY <1>1, MergePointsFacts
<1>3. Or(l.canonicalId, s.canonicalId) \in Texts /\ Or(s.hostname, l.hostname) \in Texts
  BY <1>1, TextFacts
<1>4. /\ OrName(s.model, l.model) \in Types
      /\ l.model # None \/ s.model # None => OrName(s.model, l.model) # None
  BY <1>1 DEF OrName
<1> HIDE DEF merged
<1>5. /\ j \in LineType /\ j.key = l.key /\ j.id = l.id /\ j.points = merged
      /\ j.model = OrName(s.model, l.model)
  BY <1>1, <1>2, <1>3, <1>4 DEF LineType
<1>6. Joined(l, s) = Relabeled(j)
  BY Zenon DEF Joined, merged
<1> HIDE DEF j
<1> QED BY <1>4, <1>5, <1>6, RelabeledFacts DEF merged

\* The first k series are on lines of their own, none of their samples lost or mixed.
Gathered(series, k, lines) ==
    /\ \A i, j \in DOMAIN lines : lines[i].key = lines[j].key => i = j
    /\ \A i \in DOMAIN lines :
         /\ \E n \in 1 .. k : lines[i].key = LineKey(series[n]) /\ lines[i].id = LineId(series[n])
         /\ \A p \in Finite(lines[i].points) :
              \E n \in 1 .. k : lines[i].key = LineKey(series[n]) /\ p \in Finite(series[n].points)
         /\ \/ Ordered(lines[i].points)
            \/ \E n \in 1 .. k : lines[i].key = LineKey(series[n]) /\ lines[i].points = series[n].points
    /\ \A n \in 1 .. k : \E i \in DOMAIN lines :
         /\ lines[i].key = LineKey(series[n])
         /\ series[n].model # None => lines[i].model # None
         /\ \A p \in Finite(series[n].points) : \E q \in Finite(lines[i].points) : q.t = p.t

\* One more series that has a line is added to it.
LEMMA JoinStep ==
    ASSUME NEW series \in Seq(Chartable), NEW k \in 1 .. Len(series),
           NEW lines \in Seq(ChartLines), Gathered(series, k - 1, lines),
           NEW m \in DOMAIN lines, lines[m].key = LineKey(series[k])
    PROVE  LET r == [lines EXCEPT ![m] = Joined(@, series[k])]
           IN  r \in Seq(ChartLines) /\ Gathered(series, k, r)
<1> DEFINE s == series[k]
           r == [lines EXCEPT ![m] = Joined(@, s)]
<1>1. s \in Chartable /\ k \in Nat \ {0} /\ s.points \in Seq(Samples)
  BY DEF Chartable
<1>2. \A n \in 1 .. k : n = k \/ n \in 1 .. (k - 1)
  BY <1>1
<1>3. \A n \in 1 .. (k - 1) : n \in 1 .. k
  BY <1>1
<1>4. lines[m] \in ChartLines /\ lines[m].points \in Seq(Samples)
  BY DEF ChartLines, LineType
<1>5. DOMAIN r = DOMAIN lines /\ \A i \in DOMAIN lines : r[i] = IF i = m THEN Joined(lines[m], s) ELSE lines[i]
  OBVIOUS
<1>6. /\ r[m] \in ChartLines /\ r[m].key = lines[m].key /\ r[m].id = lines[m].id
      /\ lines[m].model # None \/ s.model # None => r[m].model # None
      /\ r[m].points = MergePoints(lines[m].points, s.points)
  BY <1>1, <1>4, <1>5, JoinedFacts
<1>7. /\ Ordered(r[m].points)
      /\ Finite(r[m].points) \subseteq Finite(lines[m].points) \cup Finite(s.points)
      /\ \A p \in Finite(lines[m].points) \cup Finite(s.points) :
           \E q \in Finite(r[m].points) : q.t = p.t
  BY <1>1, <1>4, <1>6, MergePointsFacts
<1>8. r \in Seq(ChartLines)
  <2>1. \A i \in DOMAIN lines : r[i] \in ChartLines
    BY <1>5, <1>6
  <2>2. Len(lines) \in Nat /\ DOMAIN lines = 1 .. Len(lines)
    OBVIOUS
  <2>3. r = [i \in 1 .. Len(lines) |-> r[i]]
    BY <2>2
  <2> HIDE DEF r
  <2>4. r \in [1 .. Len(lines) -> ChartLines]
    BY <2>1, <2>2, <2>3
  <2> QED BY <2>2, <2>4, SeqDef
<1> HIDE DEF r, s
<1>9. \A i \in DOMAIN lines : i # m => r[i] = lines[i]
  BY <1>5
<1>10. \A i \in DOMAIN lines : r[i].key = lines[i].key /\ r[i].id = lines[i].id
  BY <1>6, <1>9
<1>11. \A i, j \in DOMAIN r : r[i].key = r[j].key => i = j
  BY <1>5, <1>10 DEF Gathered
<1>12. ASSUME NEW i \in DOMAIN r
       PROVE  /\ \E n \in 1 .. k : r[i].key = LineKey(series[n]) /\ r[i].id = LineId(series[n])
              /\ \A p \in Finite(r[i].points) :
                   \E n \in 1 .. k : r[i].key = LineKey(series[n]) /\ p \in Finite(series[n].points)
              /\ \/ Ordered(r[i].points)
                 \/ \E n \in 1 .. k : r[i].key = LineKey(series[n]) /\ r[i].points = series[n].points
  <2>1. i \in DOMAIN lines
    BY <1>5
  <2>2. /\ \E n \in 1 .. (k - 1) : lines[i].key = LineKey(series[n]) /\ lines[i].id = LineId(series[n])
        /\ \A p \in Finite(lines[i].points) :
             \E n \in 1 .. (k - 1) : lines[i].key = LineKey(series[n]) /\ p \in Finite(series[n].points)
        /\ \/ Ordered(lines[i].points)
           \/ \E n \in 1 .. (k - 1) : lines[i].key = LineKey(series[n]) /\ lines[i].points = series[n].points
    BY <2>1 DEF Gathered
  <2>3. \E n \in 1 .. k : r[i].key = LineKey(series[n]) /\ r[i].id = LineId(series[n])
    BY <1>3, <1>10, <2>1, <2>2
  <2>4. CASE i # m
    <3>1. r[i] = lines[i]
      BY <1>9, <2>1, <2>4
    <3> QED BY <1>3, <2>2, <2>3, <3>1
  <2>5. CASE i = m
    <3>1. \A p \in Finite(r[m].points) :
            \E n \in 1 .. k : r[m].key = LineKey(series[n]) /\ p \in Finite(series[n].points)
      <4> SUFFICES ASSUME NEW p \in Finite(r[m].points)
                   PROVE  \E n \in 1 .. k : r[m].key = LineKey(series[n]) /\ p \in Finite(series[n].points)
        OBVIOUS
      <4>1. CASE p \in Finite(lines[m].points)
        BY <1>3, <1>6, <2>2, <2>5, <4>1
      <4>2. CASE p \in Finite(s.points)
        <5>1. k \in 1 .. k
          BY <1>1
        <5> QED BY <1>6, <4>2, <5>1 DEF s
      <4> QED BY <1>7, <4>1, <4>2
    <3> QED BY <1>7, <2>3, <2>5, <3>1
  <2> QED BY <2>4, <2>5
<1>13. ASSUME NEW n \in 1 .. k
       PROVE  \E i \in DOMAIN r :
                /\ r[i].key = LineKey(series[n])
                /\ series[n].model # None => r[i].model # None
                /\ \A p \in Finite(series[n].points) : \E q \in Finite(r[i].points) : q.t = p.t
  <2>1. CASE n = k
    <3>1. r[m].key = LineKey(s) /\ m \in DOMAIN r
      BY <1>5, <1>6 DEF s
    <3> QED BY <1>6, <1>7, <2>1, <3>1 DEF s
  <2>2. CASE n # k
    <3>1. n \in 1 .. (k - 1)
      BY <1>2, <2>2
    <3>2. PICK i \in DOMAIN lines :
            /\ lines[i].key = LineKey(series[n])
            /\ series[n].model # None => lines[i].model # None
            /\ \A p \in Finite(series[n].points) : \E q \in Finite(lines[i].points) : q.t = p.t
      BY <3>1 DEF Gathered
    <3>3. CASE i # m
      BY <1>5, <1>9, <3>2, <3>3, SMTT(30)
    <3>4. CASE i = m
      <4>1. \A p \in Finite(series[n].points) : \E q \in Finite(r[m].points) : q.t = p.t
        BY <1>7, <3>2, <3>4
      <4>2. r[m].key = LineKey(series[n]) /\ (series[n].model # None => r[m].model # None) /\ m \in DOMAIN r
        BY <1>5, <1>6, <3>2, <3>4
      <4> QED BY <4>1, <4>2
    <3> QED BY <3>3, <3>4
  <2> QED BY <2>1, <2>2
<1> QED BY <1>8, <1>11, <1>12, <1>13 DEF Gathered, r, s

\* One more series that has none gets one.
LEMMA AppendStep ==
    ASSUME NEW series \in Seq(Chartable), NEW k \in 1 .. Len(series),
           NEW lines \in Seq(ChartLines), Gathered(series, k - 1, lines),
           \A i \in DOMAIN lines : lines[i].key # LineKey(series[k]),
           NEW l \in ChartLines, l.key = LineKey(series[k]), l.id = LineId(series[k]),
           l.model = series[k].model, l.points = series[k].points
    PROVE  Append(lines, l) \in Seq(ChartLines) /\ Gathered(series, k, Append(lines, l))
<1> DEFINE r == Append(lines, l)
           m == Len(lines) + 1
<1>1. k \in Nat \ {0} /\ k \in 1 .. k
  OBVIOUS
<1>2. \A n \in 1 .. k : n = k \/ n \in 1 .. (k - 1)
  BY <1>1
<1>3. \A n \in 1 .. (k - 1) : n \in 1 .. k
  BY <1>1
<1>4. r \in Seq(ChartLines) /\ m \in DOMAIN r /\ r[m] = l
  OBVIOUS
<1>5. \A i \in DOMAIN lines : i \in DOMAIN r /\ r[i] = lines[i]
  OBVIOUS
<1>6. \A i \in DOMAIN r : i = m \/ i \in DOMAIN lines
  OBVIOUS
<1> HIDE DEF r, m
<1>7. \A i, j \in DOMAIN r : r[i].key = r[j].key => i = j
  BY <1>4, <1>5, <1>6, SMTT(30) DEF Gathered
<1>8. ASSUME NEW i \in DOMAIN r
      PROVE  /\ \E n \in 1 .. k : r[i].key = LineKey(series[n]) /\ r[i].id = LineId(series[n])
             /\ \A p \in Finite(r[i].points) :
                  \E n \in 1 .. k : r[i].key = LineKey(series[n]) /\ p \in Finite(series[n].points)
             /\ \/ Ordered(r[i].points)
                \/ \E n \in 1 .. k : r[i].key = LineKey(series[n]) /\ r[i].points = series[n].points
  <2>1. CASE i = m
    BY <1>1, <1>4, <2>1
  <2>2. CASE i \in DOMAIN lines
    <3>1. r[i] = lines[i]
      BY <1>5, <2>2
    <3>2. /\ \E n \in 1 .. (k - 1) : lines[i].key = LineKey(series[n]) /\ lines[i].id = LineId(series[n])
          /\ \A p \in Finite(lines[i].points) :
               \E n \in 1 .. (k - 1) : lines[i].key = LineKey(series[n]) /\ p \in Finite(series[n].points)
          /\ \/ Ordered(lines[i].points)
             \/ \E n \in 1 .. (k - 1) : lines[i].key = LineKey(series[n]) /\ lines[i].points = series[n].points
      BY <2>2 DEF Gathered
    <3> QED BY <1>3, <3>1, <3>2
  <2> QED BY <1>6, <2>1, <2>2
<1>9. ASSUME NEW n \in 1 .. k
      PROVE  \E i \in DOMAIN r :
               /\ r[i].key = LineKey(series[n])
               /\ series[n].model # None => r[i].model # None
               /\ \A p \in Finite(series[n].points) : \E q \in Finite(r[i].points) : q.t = p.t
  <2>1. CASE n = k
    <3>1. \A p \in Finite(series[n].points) : p \in Finite(r[m].points)
      BY <1>4, <2>1
    <3> QED BY <1>4, <2>1, <3>1
  <2>2. CASE n # k
    <3>1. n \in 1 .. (k - 1)
      BY <1>2, <2>2
    <3>2. PICK i \in DOMAIN lines :
            /\ lines[i].key = LineKey(series[n])
            /\ series[n].model # None => lines[i].model # None
            /\ \A p \in Finite(series[n].points) : \E q \in Finite(lines[i].points) : q.t = p.t
      BY <3>1 DEF Gathered
    <3>3. r[i] = lines[i] /\ i \in DOMAIN r
      BY <1>5
    <3> QED BY <3>2, <3>3
  <2> QED BY <2>1, <2>2
<1> QED BY <1>4, <1>7, <1>8, <1>9 DEF Gathered, r

\* The loop of mergeDisplaySeries.
MergeIn(c, lines, s) == Merge(lines, s)

MergeLoop == INSTANCE FoldLemmas WITH Op <- MergeIn

\* One turn of the loop.
LEMMA MergeStep ==
    ASSUME NEW series \in Seq(Chartable), NEW k \in 1 .. Len(series),
           NEW lines \in Seq(ChartLines)
    PROVE  /\ Merge(lines, series[k]) \in Seq(ChartLines)
           /\ Gathered(series, k - 1, lines) => Gathered(series, k, Merge(lines, series[k]))
<1> DEFINE s == series[k]
           I == {i \in 1 .. Len(lines) : lines[i].key = LineKey(s)}
           n == IF I # {} THEN Min(I) ELSE 0
           l == Relabeled([key |-> LineKey(s), id |-> LineId(s), model |-> s.model,
                           hostname |-> s.hostname, canonicalId |-> s.canonicalId,
                           label |-> s.label, points |-> s.points])
<1>1. Merge(lines, s) = IF n = 0 THEN Append(lines, l) ELSE [lines EXCEPT ![n] = Joined(@, s)]
  BY Zenon DEF Merge, SelectInSeq
<1>2. n \in 0 .. Len(lines) /\ (n # 0 => n \in I) /\ (n = 0 => I = {})
  <2>1. Len(lines) \in Nat /\ I \in SUBSET (1 .. Len(lines))
    OBVIOUS
  <2> HIDE DEF I
  <2> QED BY <2>1, FirstOf
<1>3. s \in Chartable
  OBVIOUS
<1>4. /\ l \in ChartLines /\ l.key = LineKey(s) /\ l.id = LineId(s)
      /\ l.model = s.model /\ l.points = s.points
  BY <1>3, NewLineFacts
<1> HIDE DEF l, n
<1>5. CASE n = 0
  <2>1. Merge(lines, s) = Append(lines, l)
    BY <1>1, <1>5
  <2>2. \A i \in DOMAIN lines : lines[i].key # LineKey(s)
    BY <1>2, <1>5
  <2> HIDE DEF I
  <2>3. Append(lines, l) \in Seq(ChartLines)
    BY <1>4
  <2>4. Gathered(series, k - 1, lines) => Gathered(series, k, Append(lines, l))
    BY <1>4, <2>2, AppendStep
  <2> QED BY <2>1, <2>3, <2>4
<1>6. CASE n # 0
  <2>1. Merge(lines, s) = [lines EXCEPT ![n] = Joined(@, s)]
    BY <1>1, <1>6
  <2>2. n \in DOMAIN lines /\ lines[n].key = LineKey(s)
    BY <1>2, <1>6
  <2> HIDE DEF I
  <2>3. [lines EXCEPT ![n] = Joined(@, s)] \in Seq(ChartLines)
    <3>1. Joined(lines[n], s) \in ChartLines
      BY <1>3, <2>2, JoinedFacts
    <3> QED BY <2>2, <3>1
  <2>4. Gathered(series, k - 1, lines) => Gathered(series, k, [lines EXCEPT ![n] = Joined(@, s)])
    BY <2>2, JoinStep
  <2> QED BY <2>1, <2>3, <2>4
<1> QED BY <1>5, <1>6

\* What mergeSeriesByMiner makes of the series.
LEMMA MergeFacts ==
    ASSUME NEW series \in Seq(Chartable)
    PROVE  LET lines == FoldLeft(Merge, <<>>, series)
           IN  lines \in Seq(ChartLines) /\ Gathered(series, Len(series), lines)
<1> DEFINE V == Seq(ChartLines)
           J == {w \in Nat \X V : Gathered(series, w[1], w[2])}
           lines == FoldLeft(Merge, <<>>, series)
<1>1. MergeLoop!Closed(0, V, Len(series), series)
  <2> SUFFICES ASSUME NEW v \in V, NEW k \in 1 .. Len(series) PROVE Merge(v, series[k]) \in V
    BY Zenon DEF MergeLoop!Closed, MergeIn
  <2> QED BY MergeStep
<1>2. MergeLoop!Inductive(0, V, <<>>, series, J)
  <2>1. <<0, <<>>>> \in J
    <3>1. <<>> \in V /\ DOMAIN <<>> = {} /\ 1 .. 0 = {}
      OBVIOUS
    <3>2. Gathered(series, 0, <<>>)
      BY <3>1 DEF Gathered
    <3>3. \A e \in V : Gathered(series, 0, e) => <<0, e>> \in J
      OBVIOUS
    <3> HIDE DEF V, J
    <3> QED BY <3>1, <3>2, <3>3, Zenon
  <2>2. ASSUME NEW k \in 1 .. Len(series), NEW v \in V, <<k - 1, v>> \in J
        PROVE  <<k, Merge(v, series[k])>> \in J
    <3>1. Gathered(series, k - 1, v)
      BY <2>2
    <3>2. Merge(v, series[k]) \in V /\ Gathered(series, k, Merge(v, series[k]))
      <4> HIDE DEF J
      <4> QED BY <3>1, MergeStep
    <3>3. k \in Nat
      OBVIOUS
    <3> QED BY <3>2, <3>3
  <2> HIDE DEF J, V
  <2> QED BY <2>1, <2>2, Zenon DEF MergeLoop!Inductive, MergeIn
<1>3. <<>> \in V
  OBVIOUS
<1>4. MergeLoop!Fold(0, <<>>, series) \in V /\ <<Len(series), MergeLoop!Fold(0, <<>>, series)>> \in J
  <2> HIDE DEF J, V
  <2> QED BY <1>1, <1>2, <1>3, MergeLoop!FoldInduction
<1>5. lines = MergeLoop!Fold(0, <<>>, series)
  BY Zenon DEF MergeIn, FoldLeft, MapThenFoldSet, Max,
     MergeLoop!Fold, MergeLoop!FoldLeft, MergeLoop!MapThenFoldSet, MergeLoop!Max
<1> HIDE DEF lines
<1> QED BY <1>4, <1>5 DEF lines

\* The lines keep the samples of their series, and mix them with no others.
LEMMA MergeKeeps ==
    ASSUME NEW series \in Seq(Chartable)
    PROVE  KeepSamples(series)
<1> DEFINE lines == FoldLeft(Merge, <<>>, series)
           ofLine(id) == {s \in ToSet(series) : LineId(s) = id}
           samplesOf(id) == UNION {Finite(s.points) : s \in ofLine(id)}
<1>1. lines \in Seq(ChartLines) /\ Gathered(series, Len(series), lines)
  BY MergeFacts
<1>2. \A n \in 1 .. Len(series) : series[n] \in Chartable /\ series[n] \in ToSet(series)
  BY DEF ToSet
<1>3. \A s \in ToSet(series) : \E n \in 1 .. Len(series) : series[n] = s
  BY DEF ToSet
<1> SUFFICES /\ \A i, j \in DOMAIN lines : lines[i].id = lines[j].id => i = j
             /\ {line.id : line \in ToSet(lines)} = {LineId(s) : s \in ToSet(series)}
             /\ \A line \in ToSet(lines) :
                  /\ Finite(line.points) \subseteq samplesOf(line.id)
                  /\ \A p \in samplesOf(line.id) : \E q \in Finite(line.points) : q.t = p.t
                  /\ Ordered(line.points) \/ \E s \in ofLine(line.id) : line.points = s.points
  BY Zenon DEF KeepSamples
<1> HIDE DEF lines
<1>4. \A i \in DOMAIN lines, n \in 1 .. Len(series) :
        lines[i].key = LineKey(series[n]) <=> lines[i].id = LineId(series[n])
  <2> SUFFICES ASSUME NEW i \in DOMAIN lines, NEW n \in 1 .. Len(series)
               PROVE  lines[i].key = LineKey(series[n]) <=> lines[i].id = LineId(series[n])
    OBVIOUS
  <2>1. PICK o \in 1 .. Len(series) : lines[i].key = LineKey(series[o]) /\ lines[i].id = LineId(series[o])
    BY <1>1 DEF Gathered
  <2> QED BY <1>2, <2>1, KeyIsId
<1>5. \A i, j \in DOMAIN lines : lines[i].id = lines[j].id => i = j
  <2> SUFFICES ASSUME NEW i \in DOMAIN lines, NEW j \in DOMAIN lines, lines[i].id = lines[j].id
               PROVE  i = j
    OBVIOUS
  <2>1. PICK n \in 1 .. Len(series) : lines[i].key = LineKey(series[n]) /\ lines[i].id = LineId(series[n])
    BY <1>1 DEF Gathered
  <2>2. lines[j].key = LineKey(series[n])
    BY <1>4, <2>1
  <2> QED BY <1>1, <2>1, <2>2 DEF Gathered
<1>6. {line.id : line \in ToSet(lines)} = {LineId(s) : s \in ToSet(series)}
  <2>1. ASSUME NEW line \in ToSet(lines) PROVE \E s \in ToSet(series) : line.id = LineId(s)
    <3>1. PICK i \in DOMAIN lines : line = lines[i]
      BY DEF ToSet
    <3>2. PICK n \in 1 .. Len(series) : lines[i].id = LineId(series[n])
      BY <1>1 DEF Gathered
    <3> QED BY <1>2, <3>1, <3>2
  <2>2. ASSUME NEW s \in ToSet(series) PROVE \E line \in ToSet(lines) : line.id = LineId(s)
    <3>1. PICK n \in 1 .. Len(series) : series[n] = s
      BY <1>3
    <3>2. PICK i \in DOMAIN lines : lines[i].key = LineKey(series[n])
      BY <1>1 DEF Gathered
    <3>3. lines[i].id = LineId(s) /\ lines[i] \in ToSet(lines)
      BY <1>4, <3>1, <3>2 DEF ToSet
    <3> QED BY <3>3
  <2> QED BY <2>1, <2>2
<1>7. ASSUME NEW line \in ToSet(lines)
      PROVE  /\ Finite(line.points) \subseteq samplesOf(line.id)
             /\ \A p \in samplesOf(line.id) : \E q \in Finite(line.points) : q.t = p.t
             /\ Ordered(line.points) \/ \E s \in ofLine(line.id) : line.points = s.points
  <2>1. PICK i \in DOMAIN lines : line = lines[i]
    BY DEF ToSet
  <2>2. \A n \in 1 .. Len(series) : line.key = LineKey(series[n]) => series[n] \in ofLine(line.id)
    BY <1>2, <1>4, <2>1
  <2>3. Finite(line.points) \subseteq samplesOf(line.id)
    <3> SUFFICES ASSUME NEW p \in Finite(line.points) PROVE p \in samplesOf(line.id)
      OBVIOUS
    <3>1. PICK n \in 1 .. Len(series) : line.key = LineKey(series[n]) /\ p \in Finite(series[n].points)
      BY <1>1, <2>1 DEF Gathered
    <3> QED BY <2>2, <3>1
  <2>4. ASSUME NEW p \in samplesOf(line.id) PROVE \E q \in Finite(line.points) : q.t = p.t
    <3>1. PICK s \in ofLine(line.id) : p \in Finite(s.points)
      OBVIOUS
    <3>2. PICK n \in 1 .. Len(series) : series[n] = s /\ LineId(series[n]) = line.id
      BY <1>3, <3>1
    <3>3. line.key = LineKey(series[n])
      BY <1>4, <2>1, <3>2
    <3>4. PICK j \in DOMAIN lines :
            /\ lines[j].key = LineKey(series[n])
            /\ \A x \in Finite(series[n].points) : \E q \in Finite(lines[j].points) : q.t = x.t
      BY <1>1 DEF Gathered
    <3>5. j = i
      BY <1>1, <2>1, <3>3, <3>4 DEF Gathered
    <3> QED BY <2>1, <3>1, <3>2, <3>4, <3>5
  <2>5. Ordered(line.points) \/ \E s \in ofLine(line.id) : line.points = s.points
    <3>1. \/ Ordered(line.points)
          \/ \E n \in 1 .. Len(series) : line.key = LineKey(series[n]) /\ line.points = series[n].points
      BY <1>1, <2>1 DEF Gathered
    <3> HIDE DEF ofLine
    <3> QED BY <2>2, <3>1
  <2> QED BY <2>3, <2>4, <2>5
<1> HIDE DEF ofLine, samplesOf
<1> QED BY <1>5, <1>6, <1>7

\* What the limit on the lines leaves.
LEMMA CutFacts ==
    ASSUME NEW S, NEW lines \in Seq(S)
    PROVE  /\ Cut(lines) \in Seq(S) /\ ToSet(Cut(lines)) \subseteq ToSet(lines)
           /\ Len(Cut(lines)) < MaxLines => Cut(lines) = lines
<1>1. MaxLines \in Nat /\ Len(lines) \in Nat
  BY SeriesAssumption
<1>2. CASE Len(lines) > MaxLines
  <2> DEFINE r == SubSeq(lines, 1, MaxLines)
  <2>1. r \in Seq(S) /\ Len(r) = MaxLines /\ \A i \in 1 .. MaxLines : r[i] = lines[i] /\ i \in DOMAIN lines
    BY <1>1, <1>2
  <2>2. ToSet(r) \subseteq ToSet(lines)
    BY <2>1 DEF ToSet
  <2>3. Cut(lines) = r
    BY <1>2 DEF Cut
  <2> HIDE DEF r
  <2> QED BY <1>1, <2>1, <2>2, <2>3
<1>3. CASE ~(Len(lines) > MaxLines)
  BY <1>3 DEF Cut
<1> QED BY <1>2, <1>3

\* Whatever the filters leave of the history has names in the legend.
LEMMA MergeNames ==
    ASSUME NEW series, NEW rows, NEW picked, Charted(series, rows, picked) \in Seq(Chartable)
    PROVE  NamesLines(series, rows, picked)
<1> DEFINE chart == Charted(series, rows, picked)
           merged == FoldLeft(Merge, <<>>, chart)
           named == NamedLines(merged)
           lines == MinerLines(series, rows, picked)
<1>1. lines = Cut(named)
  BY Zenon DEF MinerLines, NamedLines, NamedIn
<1>2. merged \in Seq(ChartLines) /\ Gathered(chart, Len(chart), merged)
  BY MergeFacts
<1> SUFFICES /\ \A line \in ToSet(lines) : line.label.kind = "bare" /\ line.label # Empty
             /\ Len(lines) < MaxLines =>
                  \A s \in ToSet(chart) :
                      s.model # None => \E line \in ToSet(lines) : line.id = LineId(s)
  BY Zenon DEF NamesLines
<1> HIDE DEF merged, lines, chart
<1>3. named \in Seq(ChartLines) /\ ToSet(named) = {line \in ToSet(merged) : line.label # Empty}
  BY <1>2, NamedFacts
<1> HIDE DEF named
<1>4. /\ ToSet(lines) \subseteq ToSet(named)
      /\ Len(lines) < MaxLines => lines = named
  BY <1>1, <1>3, CutFacts
<1>5. \A line \in ToSet(merged) : line \in ChartLines
  BY <1>2 DEF ToSet
<1>6. \A line \in ToSet(lines) : line.label.kind = "bare" /\ line.label # Empty
  BY <1>3, <1>4, <1>5 DEF ChartLines, LineType
<1>7. ASSUME Len(lines) < MaxLines, NEW s \in ToSet(chart), s.model # None
      PROVE  \E line \in ToSet(lines) : line.id = LineId(s)
  <2>0. chart \in Seq(Chartable)
    BY DEF chart
  <2>1. PICK n \in 1 .. Len(chart) : s = chart[n] /\ chart[n] \in Chartable
    BY <2>0 DEF ToSet
  <2>2. PICK i \in DOMAIN merged : merged[i].key = LineKey(s) /\ merged[i].model # None
    BY <1>2, <1>7, <2>1 DEF Gathered
  <2>3. PICK o \in 1 .. Len(chart) : merged[i].key = LineKey(chart[o]) /\ merged[i].id = LineId(chart[o])
    BY <1>2 DEF Gathered
  <2>4. merged[i].id = LineId(s)
    <3>1. chart[o] \in Chartable
      BY <2>0
    <3> QED BY <2>1, <2>2, <2>3, <3>1, KeyIsId
  <2>5. merged[i] \in ToSet(merged)
    BY DEF ToSet
  <2>6. merged[i].label # Empty
    BY <1>5, <2>2, <2>5 DEF ChartLines
  <2> QED BY <1>3, <1>4, <1>7, <2>4, <2>5, <2>6
<1> QED BY <1>6, <1>7

\* The series on the chart.
LEMMA GivenChart ==
    ASSUME Given, input.part = "lines"
    PROVE  EnrichedInput \in Seq(Chartable)
BY GivenLines, ChartedFacts DEF EnrichedInput

\* The legend has a name for every line, and a line for every series whose model is known
\* (hostnameLabel, mergeSeriesByMiner): for histories and fleets of any size.
THEOREM SeriesLegend == PureSpec => []LegendNames
<1>1. Given => LegendNames
  <2> SUFFICES ASSUME Given, input.part = "lines"
               PROVE  NamesLines(input.series, input.rows, input.picked)
    BY DEF LegendNames
  <2> QED BY GivenChart, MergeNames DEF EnrichedInput
<1> QED BY <1>1, GivenInvariant, PTL

-----------------------------------------------------------------------------
(* Sums *)

\* The element of a set that a sum takes first.
Choice(s) == CHOOSE x \in s : TRUE

\* g has the sums of f over the sets of U, a set that is closed under taking elements out.
Sums(f, U, g) ==
    /\ g \in [U -> Int]
    /\ \A s \in U : g[s] = IF s = {} THEN 0 ELSE f[Choice(s)] + g[s \ {Choice(s)}]

\* Of all sets of elements of D.
AllSums(f, D, g) == Sums(f, SUBSET D, g)

\* The sets of at most m elements of D.
Upto(D, m) == {s \in SUBSET D : Cardinality(s) <= m}

\* A subset of a finite set is finite, and one smaller without its choice.
LEMMA ChoiceFacts ==
    ASSUME NEW D, IsFiniteSet(D), NEW s \in SUBSET D
    PROVE  /\ IsFiniteSet(s) /\ Cardinality(s) \in Nat /\ (Cardinality(s) = 0 <=> s = {})
           /\ s # {} => Choice(s) \in s
           /\ \A x \in s : Cardinality(s \ {x}) = Cardinality(s) - 1 /\ s \ {x} \in SUBSET D
<1>1. IsFiniteSet(s)
  BY FS_Subset
<1>2. Cardinality(s) \in Nat /\ (Cardinality(s) = 0 <=> s = {})
  BY <1>1, FS_CardinalityType, FS_EmptySet
<1>3. s # {} => Choice(s) \in s
  BY DEF Choice
<1>4. \A x \in s : Cardinality(s \ {x}) = Cardinality(s) - 1 /\ s \ {x} \in SUBSET D
  BY <1>1, FS_RemoveElement
<1> QED BY <1>1, <1>2, <1>3, <1>4

\* The sums exist.
LEMMA SumsExist ==
    ASSUME NEW D, IsFiniteSet(D), NEW f, \A x \in D : f[x] \in Int
    PROVE  \E g : Sums(f, SUBSET D, g)
<1> DEFINE n == Cardinality(D)
           T == {m \in 0 .. n : \E g : Sums(f, Upto(D, m), g)}
<1>1. n \in Nat
  BY FS_CardinalityType
<1>2. 0 \in T
  <2> DEFINE g == [s \in Upto(D, 0) |-> 0]
  <2>1. \A s \in Upto(D, 0) : s = {}
    BY ChoiceFacts DEF Upto
  <2>2. g \in [Upto(D, 0) -> Int] /\ \A s \in Upto(D, 0) : g[s] = 0
    OBVIOUS
  <2> HIDE DEF g
  <2>3. Sums(f, Upto(D, 0), g)
    BY <2>1, <2>2 DEF Sums
  <2> QED BY <1>1, <2>3
<1>3. ASSUME NEW m \in 1 .. n, m - 1 \in T
      PROVE  m \in T
  <2>1. PICK g : Sums(f, Upto(D, m - 1), g)
    BY <1>3
  <2> DEFINE h == [s \in Upto(D, m) |-> IF s \in Upto(D, m - 1) THEN g[s]
                                        ELSE f[Choice(s)] + g[s \ {Choice(s)}]]
  <2>2. ASSUME NEW s \in Upto(D, m)
        PROVE  /\ s # {} => /\ Choice(s) \in s /\ f[Choice(s)] \in Int
                            /\ s \ {Choice(s)} \in Upto(D, m - 1)
                            /\ s \ {Choice(s)} \in Upto(D, m)
               /\ s = {} => s \in Upto(D, m - 1)
    <3>0. s \in SUBSET D /\ Cardinality(s) <= m /\ m \in Nat \ {0}
      BY <1>1 DEF Upto
    <3>1. /\ Cardinality(s) \in Nat /\ (Cardinality(s) = 0 <=> s = {})
          /\ s # {} => Choice(s) \in s
          /\ \A x \in s : Cardinality(s \ {x}) = Cardinality(s) - 1 /\ s \ {x} \in SUBSET D
      BY <3>0, ChoiceFacts
    <3>2. CASE s = {}
      BY <3>0, <3>1, <3>2 DEF Upto
    <3>3. CASE s # {}
      <4>1. Choice(s) \in s /\ Choice(s) \in D
        BY <3>0, <3>1, <3>3
      <4>2. Cardinality(s \ {Choice(s)}) <= m - 1 /\ s \ {Choice(s)} \in SUBSET D
        BY <3>0, <3>1, <4>1
      <4>3. Cardinality(s \ {Choice(s)}) \in Nat
        BY <4>2, ChoiceFacts
      <4>4. s \ {Choice(s)} \in Upto(D, m - 1) /\ s \ {Choice(s)} \in Upto(D, m)
        BY <3>0, <4>2, <4>3 DEF Upto
      <4> QED BY <3>3, <4>1, <4>4
    <3> QED BY <3>2, <3>3
  <2>3. Upto(D, m - 1) \subseteq Upto(D, m)
    <3> SUFFICES ASSUME NEW s \in Upto(D, m - 1) PROVE s \in Upto(D, m)
      OBVIOUS
    <3>1. Cardinality(s) \in Nat
      BY ChoiceFacts DEF Upto
    <3> QED BY <1>1, <3>1 DEF Upto
  <2>4. h \in [Upto(D, m) -> Int]
    <3> SUFFICES ASSUME NEW s \in Upto(D, m) PROVE h[s] \in Int
      OBVIOUS
    <3>1. CASE s \in Upto(D, m - 1)
      BY <2>1, <3>1 DEF Sums
    <3>2. CASE s \notin Upto(D, m - 1)
      <4>1. f[Choice(s)] \in Int /\ s \ {Choice(s)} \in Upto(D, m - 1)
        BY <2>2, <3>2
      <4>2. g[s \ {Choice(s)}] \in Int
        BY <2>1, <4>1 DEF Sums
      <4> QED BY <3>2, <4>1, <4>2
    <3> QED BY <3>1, <3>2
  <2>5. \A s \in Upto(D, m - 1) : h[s] = g[s]
    BY <2>3
  <2>6. \A s \in Upto(D, m) : s \notin Upto(D, m - 1) => h[s] = f[Choice(s)] + g[s \ {Choice(s)}]
    OBVIOUS
  <2> HIDE DEF h
  <2>7. ASSUME NEW s \in Upto(D, m)
        PROVE  h[s] = IF s = {} THEN 0 ELSE f[Choice(s)] + h[s \ {Choice(s)}]
    <3>1. CASE s \in Upto(D, m - 1)
      <4>1. h[s] = g[s] /\ g[s] = IF s = {} THEN 0 ELSE f[Choice(s)] + g[s \ {Choice(s)}]
        BY <2>1, <2>5, <3>1 DEF Sums
      <4>2. s # {} => h[s \ {Choice(s)}] = g[s \ {Choice(s)}]
        BY <2>2, <2>5
      <4> QED BY <4>1, <4>2
    <3>2. CASE s \notin Upto(D, m - 1)
      <4>1. s # {} /\ h[s \ {Choice(s)}] = g[s \ {Choice(s)}]
        BY <2>2, <2>5, <3>2
      <4> QED BY <2>6, <3>2, <4>1
    <3> QED BY <3>1, <3>2
  <2>8. Sums(f, Upto(D, m), h)
    BY <2>4, <2>7 DEF Sums
  <2> QED BY <1>1, <2>8
<1>4. n \in T
  <2> HIDE DEF T, n
  <2>1. \A k \in 0 .. n : k \in T
    BY <1>1, <1>2, <1>3, PointLoop!Induction
  <2> QED BY <1>1, <2>1
<1>5. Upto(D, n) = SUBSET D
  <2>1. \A s \in SUBSET D : Cardinality(s) <= n
    BY FS_Subset
  <2> QED BY <2>1 DEF Upto
<1> QED BY <1>4, <1>5

\* They do not depend on the rest of the set.
LEMMA SumsAgree ==
    ASSUME NEW D, IsFiniteSet(D), NEW E \in SUBSET D,
           NEW f, NEW g, AllSums(f, D, g),
           NEW e, NEW h, AllSums(e, E, h), \A x \in E : f[x] = e[x]
    PROVE  g[E] = h[E]
<1> DEFINE n == Cardinality(E)
           T == {m \in 0 .. n : \A s \in Upto(E, m) : g[s] = h[s]}
<1>0. IsFiniteSet(E) /\ n \in Nat
  BY FS_Subset, FS_CardinalityType
<1>1. 0 \in T
  <2>1. \A s \in Upto(E, 0) : s = {}
    BY <1>0, ChoiceFacts DEF Upto
  <2>2. g[{}] = 0 /\ h[{}] = 0
    BY DEF AllSums, Sums
  <2>3. \A s \in Upto(E, 0) : g[s] = h[s]
    BY <2>1, <2>2
  <2>4. 0 \in 0 .. n
    BY <1>0
  <2> QED BY <2>3, <2>4
<1>2. ASSUME NEW m \in 1 .. n, m - 1 \in T
      PROVE  m \in T
  <2>1. ASSUME NEW s \in Upto(E, m) PROVE g[s] = h[s]
    <3>0. s \in SUBSET E /\ s \in SUBSET D /\ Cardinality(s) <= m /\ m \in Nat
      BY <1>0 DEF Upto
    <3>1. CASE s = {}
      BY <3>0, <3>1 DEF AllSums, Sums
    <3>2. CASE s # {}
      <4> DEFINE c == Choice(s)
      <4>1. c \in s /\ Cardinality(s) \in Nat /\ Cardinality(s \ {c}) = Cardinality(s) - 1 /\ s \ {c} \in SUBSET E
        BY <1>0, <3>0, <3>2, ChoiceFacts
      <4> HIDE DEF c
      <4>2. s \ {c} \in Upto(E, m - 1)
        BY <3>0, <4>1 DEF Upto
      <4>3. g[s \ {c}] = h[s \ {c}]
        BY <1>2, <4>2
      <4>4. g[s] = f[c] + g[s \ {c}] /\ h[s] = e[c] + h[s \ {c}]
        BY <3>0, <3>2 DEF AllSums, Sums, c
      <4>5. f[c] = e[c]
        BY <3>0, <4>1
      <4> QED BY <4>3, <4>4, <4>5
    <3> QED BY <3>1, <3>2
  <2> QED BY <1>0, <2>1
<1>3. n \in T
  <2> HIDE DEF T, n
  <2>1. \A k \in 0 .. n : k \in T
    BY <1>0, <1>1, <1>2, PointLoop!Induction
  <2> QED BY <1>0, <2>1
<1>4. Upto(E, n) = SUBSET E
  <2>1. \A s \in SUBSET E : Cardinality(s) <= n
    BY <1>0, FS_Subset
  <2> QED BY <2>1 DEF Upto
<1> QED BY <1>3, <1>4

\* Nor on the order in which the elements are taken.
LEMMA SumsOrder ==
    ASSUME NEW D, IsFiniteSet(D), NEW f, \A x \in D : f[x] \in Int,
           NEW g, AllSums(f, D, g), NEW a \in D, NEW E, E = D \ {a}
    PROVE  g[D] = f[a] + g[E]
<1> DEFINE n == Cardinality(D)
           T == {m \in 0 .. n : \A s \in Upto(D, m) : \A x \in s : g[s] = f[x] + g[s \ {x}]}
<1>0. n \in Nat
  BY FS_CardinalityType
<1>1. 0 \in T
  <2>1. \A s \in Upto(D, 0) : s = {}
    BY ChoiceFacts DEF Upto
  <2> QED BY <1>0, <2>1
<1>2. ASSUME NEW m \in 1 .. n, m - 1 \in T
      PROVE  m \in T
  <2>1. ASSUME NEW s \in Upto(D, m), NEW x \in s PROVE g[s] = f[x] + g[s \ {x}]
    <3> DEFINE c == Choice(s)
    <3>0. s \in SUBSET D /\ Cardinality(s) <= m /\ m \in Nat /\ s # {}
      BY <1>0 DEF Upto
    <3>1. c \in s /\ g[s] = f[c] + g[s \ {c}]
      BY <3>0, ChoiceFacts DEF AllSums, Sums
    <3>2. Cardinality(s) \in Nat /\ \A y \in s : Cardinality(s \ {y}) = Cardinality(s) - 1 /\ s \ {y} \in SUBSET D
      BY <3>0, ChoiceFacts
    <3> HIDE DEF c
    <3>3. \A y \in s : s \ {y} \in Upto(D, m - 1)
      BY <3>0, <3>2 DEF Upto
    <3>4. CASE x = c
      BY <3>1, <3>4
    <3>5. CASE x # c
      <4>1. g[s \ {c}] = f[x] + g[(s \ {c}) \ {x}]
        <5>1. s \ {c} \in Upto(D, m - 1) /\ x \in s \ {c}
          BY <3>1, <3>3, <3>5
        <5> QED BY <1>2, <5>1
      <4>2. g[s \ {x}] = f[c] + g[(s \ {x}) \ {c}]
        <5>1. s \ {x} \in Upto(D, m - 1) /\ c \in s \ {x}
          BY <3>1, <3>3, <3>5
        <5> QED BY <1>2, <5>1
      <4>3. PICK u : u = (s \ {c}) \ {x} /\ u = (s \ {x}) \ {c}
        OBVIOUS
      <4>4. f[x] \in Int /\ f[c] \in Int /\ g[u] \in Int
        <5>1. u \in SUBSET D /\ x \in D /\ c \in D
          BY <3>0, <3>1, <4>3
        <5> QED BY <5>1 DEF AllSums, Sums
      <4>5. g[s \ {c}] = f[x] + g[u] /\ g[s \ {x}] = f[c] + g[u]
        BY <4>1, <4>2, <4>3
      <4>6. g[s] = f[c] + (f[x] + g[u])
        BY <3>1, <4>5
      <4>7. f[c] + (f[x] + g[u]) = f[x] + (f[c] + g[u])
        BY <4>4
      <4> QED BY <4>5, <4>6, <4>7
    <3> QED BY <3>4, <3>5
  <2> QED BY <1>0, <2>1
<1>3. n \in T
  <2> HIDE DEF T, n
  <2>1. \A k \in 0 .. n : k \in T
    BY <1>0, <1>1, <1>2, PointLoop!Induction
  <2> QED BY <1>0, <2>1
<1>4. Upto(D, n) = SUBSET D
  <2>1. \A s \in SUBSET D : Cardinality(s) <= n
    BY FS_Subset
  <2> QED BY <2>1 DEF Upto
<1> QED BY <1>3, <1>4

\* SumFunction is one of them.
LEMMA SumIsOne ==
    ASSUME NEW D, IsFiniteSet(D), NEW f, DOMAIN f = D, \A x \in D : f[x] \in Int
    PROVE  \E g : AllSums(f, D, g) /\ SumFunction(f) = g[D]
<1> DEFINE Eq(g) == g = [s \in SUBSET D |-> IF s = {} THEN 0 ELSE f[Choice(s)] + g[s \ {Choice(s)}]]
           it == CHOOSE g : Eq(g)
<1>1. PICK g : AllSums(f, D, g)
  BY SumsExist DEF AllSums
<1>2. Eq(g)
  BY <1>1 DEF AllSums, Sums
<1>3. Eq(it)
  BY <1>2, Zenon
<1>4. SumFunction(f) = it[D]
  BY Zenon DEF SumFunction, SumFunctionOnSet, FoldFunctionOnSet, MapThenFoldSet, Choice
<1> HIDE DEF it
<1>5. ASSUME NEW s \in SUBSET D PROVE it[s] = IF s = {} THEN 0 ELSE f[Choice(s)] + it[s \ {Choice(s)}]
  BY <1>3
<1>6. it = g
  <2> DEFINE n == Cardinality(D)
             T == {m \in 0 .. n : \A s \in Upto(D, m) : it[s] = g[s]}
  <2>0. n \in Nat
    BY FS_CardinalityType
  <2>1. 0 \in T
    <3>1. \A s \in Upto(D, 0) : s = {}
      BY ChoiceFacts DEF Upto
    <3>2. it[{}] = 0 /\ g[{}] = 0
      BY <1>1, <1>5 DEF AllSums, Sums
    <3> QED BY <2>0, <3>1, <3>2
  <2>2. ASSUME NEW m \in 1 .. n, m - 1 \in T
        PROVE  m \in T
    <3>1. ASSUME NEW s \in Upto(D, m) PROVE it[s] = g[s]
      <4>0. s \in SUBSET D /\ Cardinality(s) <= m /\ m \in Nat
        BY <2>0 DEF Upto
      <4>1. CASE s = {}
        BY <1>1, <1>5, <4>0, <4>1 DEF AllSums, Sums
      <4>2. CASE s # {}
        <5> DEFINE c == Choice(s)
        <5>1. c \in s /\ Cardinality(s) \in Nat /\ Cardinality(s \ {c}) = Cardinality(s) - 1 /\ s \ {c} \in SUBSET D
          BY <4>0, <4>2, ChoiceFacts
        <5>2. it[s] = f[c] + it[s \ {c}] /\ g[s] = f[c] + g[s \ {c}]
          BY <1>1, <1>5, <4>0, <4>2 DEF AllSums, Sums
        <5> HIDE DEF c
        <5>3. s \ {c} \in Upto(D, m - 1)
          BY <4>0, <5>1 DEF Upto
        <5> QED BY <2>2, <5>2, <5>3
      <4> QED BY <4>1, <4>2
    <3> QED BY <2>0, <3>1
  <2>3. n \in T
    <3> HIDE DEF T, n
    <3>1. \A k \in 0 .. n : k \in T
      BY <2>0, <2>1, <2>2, PointLoop!Induction
    <3> QED BY <2>0, <3>1
  <2>4. Upto(D, n) = SUBSET D
    <3>1. \A s \in SUBSET D : Cardinality(s) <= n
      BY FS_Subset
    <3> QED BY <3>1 DEF Upto
  <2>5. \A s \in SUBSET D : it[s] = g[s]
    BY <2>3, <2>4
  <2>6. g = [s \in SUBSET D |-> g[s]]
    BY <1>1 DEF AllSums, Sums
  <2>7. it = [s \in SUBSET D |-> it[s]]
    BY <1>3
  <2> HIDE DEF Eq
  <2> QED BY <2>5, <2>6, <2>7
<1> QED BY <1>1, <1>4, <1>6

\* A sum is that of all elements but one, and that one.
LEMMA SumTakes ==
    ASSUME NEW D, IsFiniteSet(D), NEW f, DOMAIN f = D, \A y \in D : f[y] \in Int, NEW x \in D,
           NEW E, E = D \ {x}
    PROVE  \E g : AllSums(f, D, g) /\ SumFunction(f) = g[D] /\ g[D] = f[x] + g[E]
<1>1. PICK g : AllSums(f, D, g) /\ SumFunction(f) = g[D]
  BY SumIsOne
<1>2. AllSums(f, D, g)
  BY <1>1
<1>3. g[D] = f[x] + g[E]
  BY <1>2, SumsOrder, SMT
<1> QED BY <1>1, <1>3

\* The value of an element is added to the sum of the others.
LEMMA SumAdds ==
    ASSUME NEW D, IsFiniteSet(D), NEW x \in D,
           NEW f, DOMAIN f = D, \A y \in D : f[y] \in Int,
           NEW e, DOMAIN e = D \ {x}, \A y \in D \ {x} : e[y] = f[y]
    PROVE  SumFunction(f) = SumFunction(e) + f[x] /\ SumFunction(e) \in Int
<1> DEFINE E == D \ {x}
<1>0. E \in SUBSET D /\ D \in SUBSET D /\ E \in SUBSET E /\ \A y \in E : e[y] = f[y] /\ e[y] \in Int
  OBVIOUS
<1>1. IsFiniteSet(E) /\ DOMAIN e = E /\ E = D \ {x}
  BY FS_RemoveElement
<1> HIDE DEF E
<1>2. PICK g : AllSums(f, D, g) /\ SumFunction(f) = g[D] /\ g[D] = f[x] + g[E]
  BY <1>1, SumTakes
<1>3. PICK h : AllSums(e, E, h) /\ SumFunction(e) = h[E]
  BY <1>0, <1>1, SumIsOne
<1>4. g[D] = f[x] + g[E]
  BY <1>2
<1>5. g[E] = h[E]
  <2>1. \A y \in E : f[y] = e[y]
    BY <1>0
  <2> QED BY <1>0, <1>2, <1>3, <2>1, SumsAgree
<1>6. h[E] \in Int /\ f[x] \in Int
  BY <1>0, <1>3 DEF AllSums, Sums
<1> QED BY <1>2, <1>3, <1>4, <1>5, <1>6

\* The sum of nothing is zero.
LEMMA SumOfNone ==
    ASSUME NEW e, DOMAIN e = {}
    PROVE  SumFunction(e) = 0
<1>1. PICK h : AllSums(e, {}, h) /\ SumFunction(e) = h[{}]
  BY FS_EmptySet, SumIsOne
<1> QED BY <1>1 DEF AllSums, Sums

-----------------------------------------------------------------------------
(* One line per type *)

\* A bucket's numbers, and the buckets of a type by their start.
Cell == [n : Nat, sum : Int, min : Int, max : Int]
Buckets == UNION {[T -> Cell] : T \in SUBSET Int}

\* The numbers of a bucket are those of the values of f, a function on Q.
CellOf(b, Q, f) ==
    /\ b \in Cell /\ Q # {}
    /\ b.n = Cardinality(Q) /\ b.sum = SumFunction(f)
    /\ \E x \in Q : b.min = f[x]
    /\ \E x \in Q : b.max = f[x]
    /\ \A x \in Q : b.min <= f[x] /\ f[x] <= b.max

\* One value is its own sum and ends.
LEMMA FirstInCell ==
    ASSUME NEW x, NEW f, DOMAIN f = {x}, NEW v \in Int, f[x] = v
    PROVE  CellOf([n |-> 1, sum |-> v, min |-> v, max |-> v], {x}, f)
<1> DEFINE e == [y \in {} |-> 0]
<1>1. IsFiniteSet({x}) /\ Cardinality({x}) = 1
  BY FS_Singleton
<1>2. SumFunction(f) = SumFunction(e) + f[x]
  <2>1. DOMAIN e = {x} \ {x} /\ \A y \in {x} \ {x} : e[y] = f[y]
    OBVIOUS
  <2> HIDE DEF e
  <2> QED BY <1>1, <2>1, SumAdds
<1>3. SumFunction(e) = 0
  BY SumOfNone
<1> HIDE DEF e
<1> QED BY <1>1, <1>2, <1>3 DEF CellOf, Cell

\* One more value.
LEMMA NextInCell ==
    ASSUME NEW Q, IsFiniteSet(Q), NEW x, x \notin Q,
           NEW e, DOMAIN e = Q, \A y \in Q : e[y] \in Int,
           NEW R, R = Q \cup {x},
           NEW f, DOMAIN f = R, \A y \in Q : f[y] = e[y],
           NEW v \in Int, f[x] = v, NEW b, CellOf(b, Q, e)
    PROVE  CellOf(Counted(b, v), R, f)
<1>1. Cardinality(R) = Cardinality(Q) + 1 /\ IsFiniteSet(R)
  BY FS_AddElement
<1>2. SumFunction(f) = SumFunction(e) + v
  <2>1. x \in R /\ Q = R \ {x} /\ \A y \in R : f[y] \in Int
    OBVIOUS
  <2> QED BY <1>1, <2>1, SumAdds
<1>3. /\ b \in Cell /\ b.n = Cardinality(Q) /\ b.sum = SumFunction(e)
      /\ \E y \in Q : b.min = e[y]
      /\ \E y \in Q : b.max = e[y]
      /\ \A y \in Q : b.min <= e[y] /\ e[y] <= b.max
  BY DEF CellOf
<1> DEFINE c == Counted(b, v)
<1>4. b.n \in Nat /\ b.sum \in Int /\ b.min \in Int /\ b.max \in Int
  BY <1>3 DEF Cell
<1>5. /\ c \in Cell /\ c.n = b.n + 1 /\ c.sum = b.sum + v
      /\ c.min = IF v < b.min THEN v ELSE b.min
      /\ c.max = IF v > b.max THEN v ELSE b.max
  BY <1>4 DEF Counted, Cell
<1> HIDE DEF c
<1>6. \E y \in R : c.min = f[y]
  <2>1. CASE v < b.min
    BY <1>5, <2>1
  <2>2. CASE ~(v < b.min)
    BY <1>3, <1>5, <2>2
  <2> QED BY <2>1, <2>2
<1>7. \E y \in R : c.max = f[y]
  <2>1. CASE v > b.max
    BY <1>5, <2>1
  <2>2. CASE ~(v > b.max)
    BY <1>3, <1>5, <2>2
  <2> QED BY <2>1, <2>2
<1>8. ASSUME NEW y \in R PROVE c.min <= f[y] /\ f[y] <= c.max
  <2>1. CASE y = x
    BY <1>4, <1>5, <2>1
  <2>2. CASE y \in Q
    <3>1. f[y] \in Int /\ b.min <= f[y] /\ f[y] <= b.max
      BY <1>3, <2>2
    <3> QED BY <1>4, <1>5, <3>1
  <2> QED BY <2>1, <2>2
<1>9. c.n = Cardinality(R) /\ c.sum = SumFunction(f) /\ R # {}
  BY <1>1, <1>2, <1>3, <1>5
<1> QED BY <1>5, <1>6, <1>7, <1>8, <1>9 DEF CellOf, c

\* The sample at a place, a series and a position in it.
At(series, x) == series[x[1]].points[x[2]]

\* Those of the places P whose samples are in a bucket, and their values.
InBucket(series, P, width, t) == {x \in P : StartOf(At(series, x), width) = t}
ValuesAt(series, Q) == [x \in Q |-> At(series, x).v]

\* The samples at P are numbers.
Numeric(series, P) ==
    IsFiniteSet(P) /\ \A x \in P : At(series, x).t \in Int /\ At(series, x).v \in Int

\* The buckets have the numbers of the samples at P, each once.
Exact(series, P, width, b) ==
    /\ \A x \in P : StartOf(At(series, x), width) \in DOMAIN b
    /\ \A t \in DOMAIN b :
         CellOf(b[t], InBucket(series, P, width, t), ValuesAt(series, InBucket(series, P, width, t)))

\* One more sample.
LEMMA BucketStep ==
    ASSUME NEW series, NEW P, Numeric(series, P), NEW width \in Nat \ {0},
           NEW b \in Buckets, Exact(series, P, width, b),
           NEW x, x \notin P, NEW p, p = At(series, x), p.t \in Int, p.v \in Int, p.v # NotFinite
    PROVE  Exact(series, P \cup {x}, width, Bucketed(b, p, width))
<1> DEFINE start == StartOf(p, width)
           r == Bucketed(b, p, width)
           R == P \cup {x}
           old(t) == InBucket(series, P, width, t)
           new(t) == InBucket(series, R, width, t)
<1>1. r = [t \in DOMAIN b \cup {start} |->
             IF t # start THEN b[t] ELSE IF t \in DOMAIN b THEN Counted(b[t], p.v)
             ELSE [n |-> 1, sum |-> p.v, min |-> p.v, max |-> p.v]]
  BY DEF Bucketed
<1>2. \A t : new(t) = IF t = start THEN old(t) \cup {x} ELSE old(t)
  BY DEF InBucket
<1>3. \A t : old(t) \subseteq P /\ IsFiniteSet(old(t)) /\ x \notin old(t)
  <2>1. \A t : old(t) \in SUBSET P
    BY DEF InBucket
  <2> HIDE DEF old
  <2> QED BY <2>1, FS_Subset DEF Numeric
<1>4. /\ \A y \in P : StartOf(At(series, y), width) \in DOMAIN b
      /\ \A t \in DOMAIN b : CellOf(b[t], old(t), ValuesAt(series, old(t)))
  BY DEF Exact
<1>5. start \notin DOMAIN b => old(start) = {}
  BY <1>4 DEF InBucket
<1> HIDE DEF r, R, start, old, new
<1>6. DOMAIN r = DOMAIN b \cup {start}
  BY <1>1
<1>7. \A y \in R : StartOf(At(series, y), width) \in DOMAIN r
  BY <1>4, <1>6 DEF R, start
<1>8. ASSUME NEW t \in DOMAIN r
      PROVE  CellOf(r[t], new(t), ValuesAt(series, new(t)))
  <2>1. CASE t # start
    <3>1. t \in DOMAIN b /\ r[t] = b[t] /\ new(t) = old(t)
      BY <1>1, <1>2, <1>6, <2>1
    <3> QED BY <1>4, <3>1
  <2>2. CASE t = start /\ t \in DOMAIN b
    <3> DEFINE e == ValuesAt(series, old(t))
               f == ValuesAt(series, new(t))
    <3>1. r[t] = Counted(b[t], p.v) /\ new(t) = old(t) \cup {x}
      BY <1>1, <1>2, <2>2
    <3>2. DOMAIN e = old(t) /\ \A y \in old(t) : e[y] = At(series, y).v /\ e[y] \in Int
      BY <1>3 DEF ValuesAt, Numeric
    <3>3. DOMAIN f = new(t) /\ \A y \in new(t) : f[y] = At(series, y).v
      BY DEF ValuesAt
    <3>4. CellOf(b[t], old(t), e)
      BY <1>4, <2>2
    <3> HIDE DEF e, f
    <3>5. f[x] = p.v /\ \A y \in old(t) : f[y] = e[y]
      BY <3>1, <3>2, <3>3
    <3>6. CellOf(Counted(b[t], p.v), new(t), f)
      BY <1>3, <3>1, <3>2, <3>3, <3>4, <3>5, NextInCell
    <3> QED BY <3>1, <3>6 DEF f
  <2>3. CASE t = start /\ t \notin DOMAIN b
    <3> DEFINE f == ValuesAt(series, new(t))
    <3>1. r[t] = [n |-> 1, sum |-> p.v, min |-> p.v, max |-> p.v] /\ new(t) = {x}
      BY <1>1, <1>2, <1>5, <1>6, <2>3
    <3>2. DOMAIN f = {x} /\ f[x] = p.v
      BY <3>1 DEF ValuesAt
    <3> HIDE DEF f
    <3> QED BY <3>1, <3>2, FirstInCell DEF f
  <2> QED BY <2>1, <2>2, <2>3
<1> QED BY <1>7, <1>8 DEF Exact, r, R, new

\* The buckets have the type of buckets.
LEMMA BucketedType ==
    ASSUME NEW b \in Buckets, NEW p \in Samples, NEW width \in Nat \ {0}
    PROVE  Bucketed(b, p, width) \in Buckets
<1> DEFINE start == StartOf(p, width)
           r == Bucketed(b, p, width)
<1>0. PICK T \in SUBSET Int : b \in [T -> Cell]
  BY DEF Buckets
<1>1. CASE p.v = NotFinite
  BY <1>1 DEF Bucketed
<1>2. CASE p.v # NotFinite
  <2>1. p.v \in Int /\ p.t \in Int
    BY <1>2 DEF Samples
  <2>2. start \in Int
    BY <2>1 DEF StartOf
  <2>3. r = [t \in DOMAIN b \cup {start} |->
               IF t # start THEN b[t] ELSE IF t \in DOMAIN b THEN Counted(b[t], p.v)
               ELSE [n |-> 1, sum |-> p.v, min |-> p.v, max |-> p.v]]
    BY <1>2 DEF Bucketed
  <2> HIDE DEF start, r
  <2>4. [n |-> 1, sum |-> p.v, min |-> p.v, max |-> p.v] \in Cell
    BY <2>1 DEF Cell
  <2>5. \A c \in Cell : Counted(c, p.v) \in Cell
    BY <2>1 DEF Cell, Counted
  <2>6. r \in [T \cup {start} -> Cell]
    BY <1>0, <2>3, <2>4, <2>5
  <2>7. T \cup {start} \in SUBSET Int
    BY <2>2
  <2> QED BY <2>6, <2>7 DEF Buckets, r
<1> QED BY <1>1, <1>2

\* The places of the finite samples among the first k of a series.
PlacesIn(series, i, k) == {i} \X {n \in 1 .. k : series[i].points[n].v # NotFinite}

\* One more position.
LEMMA PlacesGrow ==
    ASSUME NEW series, NEW i, NEW k \in Nat \ {0}
    PROVE  /\ PlacesIn(series, i, k) =
                IF series[i].points[k].v # NotFinite
                THEN PlacesIn(series, i, k - 1) \cup {<<i, k>>} ELSE PlacesIn(series, i, k - 1)
           /\ <<i, k>> \notin PlacesIn(series, i, k - 1)
<1>1. 1 .. k = (1 .. (k - 1)) \cup {k} /\ k \notin 1 .. (k - 1)
  OBVIOUS
<1> QED BY <1>1 DEF PlacesIn

\* The loop over the samples of a series.
BucketIn(width, b, p) == Bucketed(b, p, width)

BucketLoop == INSTANCE FoldLemmas WITH Op <- BucketIn

\* The inner loop counts the samples of a series.
LEMMA InnerLoop ==
    ASSUME NEW series \in Seq(Chartable), NEW i \in 1 .. Len(series), NEW width \in Nat \ {0},
           NEW P, Numeric(series, P), \A x \in P : x[1] # i,
           NEW b \in Buckets, Exact(series, P, width, b)
    PROVE  LET s == series[i]
               r == FoldLeft(LAMBDA v, p : Bucketed(v, p, width), b, s.points)
               R == P \cup PlacesIn(series, i, Len(s.points))
           IN  r \in Buckets /\ Numeric(series, R) /\ Exact(series, R, width, r)
<1> DEFINE points == series[i].points
           upto(k) == P \cup PlacesIn(series, i, k)
           J == {w \in Nat \X Buckets : Numeric(series, upto(w[1])) /\ Exact(series, upto(w[1]), width, w[2])}
           r == FoldLeft(LAMBDA v, p : Bucketed(v, p, width), b, points)
<1>1. points \in Seq(Samples)
  BY DEF Chartable
<1>2. Len(points) \in Nat /\ \A k \in 1 .. Len(points) : points[k] \in Samples
  BY <1>1
<1>3. BucketLoop!Closed(width, Buckets, Len(points), points)
  <2> SUFFICES ASSUME NEW v \in Buckets, NEW k \in 1 .. Len(points)
               PROVE  Bucketed(v, points[k], width) \in Buckets
    BY Zenon DEF BucketLoop!Closed, BucketIn
  <2> QED BY <1>2, BucketedType
<1>4. BucketLoop!Inductive(width, Buckets, b, points, J)
  <2>1. <<0, b>> \in J
    <3>1. upto(0) = P
      <4>1. 1 .. 0 = {}
        OBVIOUS
      <4> QED BY <4>1 DEF PlacesIn
    <3> HIDE DEF upto
    <3> QED BY <3>1
  <2>2. ASSUME NEW k \in 1 .. Len(points), NEW v \in Buckets, <<k - 1, v>> \in J
        PROVE  <<k, Bucketed(v, points[k], width)>> \in J
    <3> DEFINE x == <<i, k>>
               p == points[k]
               Q == upto(k - 1)
    <3>0. k \in Nat \ {0} /\ p \in Samples /\ Bucketed(v, p, width) \in Buckets
      BY <1>2, BucketedType, SMTT(30)
    <3>1. Numeric(series, Q) /\ Exact(series, Q, width, v)
      BY <2>2
    <3>2. x \notin Q
      <4>1. x[1] = i
        OBVIOUS
      <4>2. x \notin PlacesIn(series, i, k - 1)
        BY <3>0, PlacesGrow
      <4> HIDE DEF x
      <4> QED BY <4>1, <4>2
    <3>3. p = At(series, x)
      BY DEF At
    <3>4. upto(k) = IF p.v # NotFinite THEN Q \cup {x} ELSE Q
      <4>1. PlacesIn(series, i, k) = IF p.v # NotFinite THEN PlacesIn(series, i, k - 1) \cup {x}
                                     ELSE PlacesIn(series, i, k - 1)
        BY <3>0, PlacesGrow
      <4> HIDE DEF x, p
      <4> QED BY <4>1
    <3> HIDE DEF Q, upto, x, p
    <3>5. CASE p.v = NotFinite
      <4>1. Bucketed(v, p, width) = v
        BY <3>5 DEF Bucketed
      <4> QED BY <3>0, <3>1, <3>4, <3>5, <4>1 DEF p
    <3>6. CASE p.v # NotFinite
      <4>1. p.t \in Int /\ p.v \in Int
        BY <3>0, <3>6 DEF Samples
      <4>2. Exact(series, Q \cup {x}, width, Bucketed(v, p, width))
        BY <3>1, <3>2, <3>3, <3>6, <4>1, BucketStep
      <4>3. Numeric(series, Q \cup {x})
        BY <3>1, <3>3, <4>1, FS_AddElement DEF Numeric
      <4> QED BY <3>0, <3>4, <3>6, <4>2, <4>3 DEF p
    <3> QED BY <3>5, <3>6
  <2> HIDE DEF J
  <2> QED BY <2>1, <2>2, Zenon DEF BucketLoop!Inductive, BucketIn
<1>5. /\ BucketLoop!Fold(width, b, points) \in Buckets
      /\ <<Len(points), BucketLoop!Fold(width, b, points)>> \in J
  <2> HIDE DEF J, points
  <2> QED BY <1>1, <1>3, <1>4, BucketLoop!FoldInduction
<1>6. r = BucketLoop!Fold(width, b, points)
  BY Zenon DEF BucketIn, FoldLeft, MapThenFoldSet, Max,
     BucketLoop!Fold, BucketLoop!FoldLeft, BucketLoop!MapThenFoldSet, BucketLoop!Max
<1> HIDE DEF r, points
<1>7. r \in Buckets /\ Numeric(series, upto(Len(points))) /\ Exact(series, upto(Len(points)), width, r)
  <2> HIDE DEF upto
  <2> QED BY <1>5, <1>6
<1> QED BY <1>7 DEF r, points

\* The places of the samples of a type among the first k series.
PlacesOf(series, model, k) ==
    UNION {PlacesIn(series, i, Len(series[i].points)) : i \in {j \in 1 .. k : series[j].model = model}}

\* The loop over the series.
SeriesIn(c, b, s) == BucketedSeries(b, s, c[1], c[2])

SeriesLoop == INSTANCE FoldLemmas WITH Op <- SeriesIn

\* The numbers of a type, by bucket.
BucketsOf(series, c) ==
    FoldLeft(LAMBDA b, s : BucketedSeries(b, s, c[1], c[2]), [t \in {} |-> 0], series)

\* The outer loop counts the samples of all series of the type.
LEMMA OuterLoop ==
    ASSUME NEW series \in Seq(Chartable), NEW c, NEW model, c[1] = model,
           NEW width \in Nat \ {0}, c[2] = width
    PROVE  LET r == BucketsOf(series, c)
               R == PlacesOf(series, model, Len(series))
           IN  r \in Buckets /\ Numeric(series, R) /\ Exact(series, R, width, r)
<1> DEFINE upto(k) == PlacesOf(series, model, k)
           J == {w \in Nat \X Buckets : Numeric(series, upto(w[1])) /\ Exact(series, upto(w[1]), width, w[2])}
           base == [t \in {} |-> 0]
           r == BucketsOf(series, c)
<1>1. Len(series) \in Nat /\ \A k \in 1 .. Len(series) : series[k].points \in Seq(Samples)
  BY DEF Chartable
<1>2. base \in Buckets
  <2>1. base \in [{} -> Cell] /\ {} \in SUBSET Int
    OBVIOUS
  <2> HIDE DEF base
  <2> QED BY <2>1 DEF Buckets
<1>3. ASSUME NEW v \in Buckets, NEW k \in 1 .. Len(series),
             Numeric(series, upto(k - 1)), Exact(series, upto(k - 1), width, v)
      PROVE  LET o == BucketedSeries(v, series[k], model, width)
             IN  o \in Buckets /\ Numeric(series, upto(k)) /\ Exact(series, upto(k), width, o)
  <2> DEFINE o == BucketedSeries(v, series[k], model, width)
  <2>0. k \in Nat \ {0} /\ k - 1 \in Nat
    BY <1>1
  <2>1. {j \in 1 .. k : series[j].model = model} =
          {j \in 1 .. (k - 1) : series[j].model = model} \cup (IF series[k].model = model THEN {k} ELSE {})
    <3>1. 1 .. k = (1 .. (k - 1)) \cup {k}
      BY <2>0
    <3> QED BY <3>1
  <2>2. CASE series[k].model # model
    <3>1. upto(k) = upto(k - 1)
      BY <2>1, <2>2 DEF PlacesOf
    <3>2. o = v
      BY <2>2 DEF BucketedSeries
    <3> HIDE DEF upto, o
    <3> QED BY <1>3, <3>1, <3>2 DEF o
  <2>3. CASE series[k].model = model
    <3>1. upto(k) = upto(k - 1) \cup PlacesIn(series, k, Len(series[k].points))
      BY <2>1, <2>3 DEF PlacesOf
    <3>2. \A x \in upto(k - 1) : x[1] # k
      <4> SUFFICES ASSUME NEW x \in upto(k - 1) PROVE x[1] # k
        OBVIOUS
      <4>1. PICK j \in 1 .. (k - 1) : x \in PlacesIn(series, j, Len(series[j].points))
        BY DEF PlacesOf
      <4>2. x[1] = j
        BY <4>1 DEF PlacesIn
      <4> QED BY <2>0, <4>2
    <3>3. o = FoldLeft(LAMBDA b, p : Bucketed(b, p, width), v, series[k].points)
      BY <2>3, Zenon DEF BucketedSeries
    <3> HIDE DEF upto, o
    <3>4. o \in Buckets /\ Numeric(series, upto(k)) /\ Exact(series, upto(k), width, o)
      BY <1>3, <3>1, <3>2, <3>3, InnerLoop
    <3> QED BY <3>4 DEF o
  <2> QED BY <2>2, <2>3
<1>4. SeriesLoop!Closed(c, Buckets, Len(series), series)
  <2> SUFFICES ASSUME NEW v \in Buckets, NEW k \in 1 .. Len(series)
               PROVE  BucketedSeries(v, series[k], model, width) \in Buckets
    BY Zenon DEF SeriesLoop!Closed, SeriesIn
  <2>1. CASE series[k].model # model
    BY <2>1 DEF BucketedSeries
  <2>2. CASE series[k].model = model
    <3> DEFINE points == series[k].points
    <3>1. points \in Seq(Samples) /\ Len(points) \in Nat /\ DOMAIN points = 1 .. Len(points)
      BY <1>1
    <3>2. BucketLoop!Closed(width, Buckets, Len(points), points)
      <4> SUFFICES ASSUME NEW u \in Buckets, NEW n \in 1 .. Len(points)
                   PROVE  Bucketed(u, points[n], width) \in Buckets
        BY Zenon DEF BucketLoop!Closed, BucketIn
      <4>1. points[n] \in Samples
        BY <3>1
      <4> QED BY <4>1, BucketedType
    <3>3. BucketedSeries(v, series[k], model, width) = BucketLoop!Fold(width, v, points)
      BY <2>2, Zenon DEF BucketedSeries, BucketIn, FoldLeft, MapThenFoldSet, Max,
         BucketLoop!Fold, BucketLoop!FoldLeft, BucketLoop!MapThenFoldSet, BucketLoop!Max
    <3> HIDE DEF points
    <3>4. PICK acc : BucketLoop!Trace(width, Buckets, v, Len(points), points, acc)
      BY <3>1, <3>2, BucketLoop!FoldTrace
    <3> QED BY <3>1, <3>3, <3>4 DEF BucketLoop!Trace
  <2> QED BY <2>1, <2>2
<1>5. SeriesLoop!Inductive(c, Buckets, base, series, J)
  <2>1. <<0, base>> \in J
    <3>1. upto(0) = {}
      <4>1. {j \in 1 .. 0 : series[j].model = model} = {}
        OBVIOUS
      <4> QED BY <4>1 DEF PlacesOf
    <3>2. DOMAIN base = {}
      OBVIOUS
    <3> HIDE DEF upto, base
    <3>3. Numeric(series, upto(0)) /\ Exact(series, upto(0), width, base)
      BY <3>1, <3>2, FS_EmptySet DEF Numeric, Exact
    <3> QED BY <1>2, <3>3
  <2>2. ASSUME NEW k \in 1 .. Len(series), NEW v \in Buckets, <<k - 1, v>> \in J
        PROVE  <<k, BucketedSeries(v, series[k], model, width)>> \in J
    <3>1. Numeric(series, upto(k - 1)) /\ Exact(series, upto(k - 1), width, v)
      BY <2>2
    <3> HIDE DEF upto
    <3> QED BY <1>3, <3>1
  <2> HIDE DEF J, base
  <2> QED BY <2>1, <2>2, Zenon DEF SeriesLoop!Inductive, SeriesIn
<1>6. /\ SeriesLoop!Fold(c, base, series) \in Buckets
      /\ <<Len(series), SeriesLoop!Fold(c, base, series)>> \in J
  <2> HIDE DEF J, base
  <2> QED BY <1>2, <1>4, <1>5, SeriesLoop!FoldInduction
<1>7. r = SeriesLoop!Fold(c, base, series)
  BY Zenon DEF BucketsOf, SeriesIn, FoldLeft, MapThenFoldSet, Max,
     SeriesLoop!Fold, SeriesLoop!FoldLeft, SeriesLoop!MapThenFoldSet, SeriesLoop!Max
<1> HIDE DEF r, upto
<1> QED BY <1>6, <1>7 DEF r, upto

\* Buckets start at multiples of their width.
LEMMA StartIsMultiple ==
    ASSUME NEW w \in Nat \ {0}, NEW a \in Int
    PROVE  (a - (a % w)) % w = 0
<1>1. \A x \in Int : x = w * (x \div w) + (x % w) /\ x % w \in 0 .. w - 1 /\ x \div w \in Int
  BY SMTT(30)
<1> DEFINE q == a \div w
           s == a - (a % w)
           k == q - (s \div w)
<1>2. q \in Int /\ a % w \in Int /\ s \in Int /\ s = w * q
  BY <1>1
<1>3. s \div w \in Int /\ s = w * (s \div w) + (s % w) /\ s % w \in 0 .. w - 1
  BY <1>1, <1>2
<1> HIDE DEF q, s
<1> DEFINE r == s % w
<1>4. k \in Int /\ r = w * k /\ r \in Int /\ 0 <= r /\ r < w
  BY <1>2, <1>3
<1> HIDE DEF k, r
<1>5. k >= 1 => w * k >= w
  BY <1>4, SMTT(30)
<1>6. k <= -1 => w * k < 0
  BY <1>4, SMTT(30)
<1>7. ~(k >= 1)
  BY <1>4, <1>5
<1>8. ~(k <= -1)
  BY <1>4, <1>6
<1>9. k = 0
  BY <1>4, <1>7, <1>8
<1>10. r = 0
  BY <1>4, <1>9
<1> QED BY <1>10 DEF r, s

\* A sample is in the bucket that starts at the last multiple before it.
LEMMA StartOfSample ==
    ASSUME NEW w \in Nat \ {0}, NEW a \in Int, NEW t \in Int, t % w = 0
    PROVE  (t <= a /\ a < t + w) <=> a - (a % w) = t
<1>1. \A x \in Int : x = w * (x \div w) + (x % w) /\ x % w \in 0 .. w - 1 /\ x \div w \in Int
  BY SMTT(30)
<1> DEFINE q == t \div w
           p == a \div w
<1>2. q \in Int /\ p \in Int /\ t = w * q /\ a = w * p + (a % w) /\ a % w \in 0 .. w - 1
  BY <1>1
<1>3. w * p \in Int /\ w * q \in Int
  BY <1>2
<1>4. (t <= a /\ a < t + w) => p = q
  <2>1. p >= q + 1 => w * p >= w * q + w
    BY <1>2, SMTT(30)
  <2>2. q >= p + 1 => w * q >= w * p + w
    BY <1>2, SMTT(30)
  <2> HIDE DEF p, q
  <2> QED BY <1>2, <1>3, <2>1, <2>2
<1> HIDE DEF p, q
<1> QED BY <1>2, <1>3, <1>4

\* A cell has the least and the greatest of its values.
LEMMA CellEnds ==
    ASSUME NEW b, NEW Q, NEW f, DOMAIN f = Q, \A x \in Q : f[x] \in Int, CellOf(b, Q, f)
    PROVE  b.min = Min(Range(f)) /\ b.max = Max(Range(f))
<1>1. /\ b.min \in Int /\ b.max \in Int
      /\ b.min \in Range(f) /\ b.max \in Range(f)
      /\ \A v \in Range(f) : v \in Int /\ b.min <= v /\ v <= b.max
  BY DEF CellOf, Cell, Range
<1> DEFINE R == Range(f)
<1> HIDE DEF R
<1>2. b.min \in R /\ b.max \in R /\ b.min \in Int /\ b.max \in Int
      /\ \A v \in R : v \in Int /\ b.min <= v /\ v <= b.max
  BY <1>1 DEF R
<1>3. Min(R) = b.min
  <2>1. \A v \in R : (\A y \in R : v <= y) => v = b.min
    BY <1>2
  <2> QED BY <1>2, <2>1 DEF Min
<1>4. Max(R) = b.max
  <2>1. \A v \in R : (\A y \in R : v >= y) => v = b.max
    BY <1>2
  <2>2. \A y \in R : b.max >= y
    BY <1>2
  <2> QED BY <1>2, <2>1, <2>2 DEF Max
<1> QED BY <1>3, <1>4 DEF R

\* The buckets of a type are this fold.
LEMMA TypeLinesFold ==
    ASSUME NEW series, NEW c, c[1] \in DOMAIN TypeLines(series, c[2])
    PROVE  TypeLines(series, c[2])[c[1]] = BucketsOf(series, c)
BY Zenon DEF TypeLines, BucketsOf

\* The view by type counts every sample of a known type once.
LEMMA TypesCount ==
    ASSUME NEW series \in Seq(Chartable), NEW width \in Nat \ {0}
    PROVE  CountsOnce(series, width)
<1> DEFINE lines == TypeLines(series, width)
           placesOf(model) ==
             UNION {{i} \X {n \in DOMAIN series[i].points : series[i].points[n].v # NotFinite} :
                      i \in {k \in DOMAIN series : series[k].model = model}}
           within(t, x) == t <= series[x[1]].points[x[2]].t /\ series[x[1]].points[x[2]].t < t + width
<1>1. ASSUME NEW model
      PROVE  placesOf(model) = PlacesOf(series, model, Len(series))
  <2>1. DOMAIN series = 1 .. Len(series)
    OBVIOUS
  <2>2. \A i \in 1 .. Len(series) : DOMAIN series[i].points = 1 .. Len(series[i].points)
    <3>1. \A i \in 1 .. Len(series) : series[i].points \in Seq(Samples)
      BY DEF Chartable
    <3> QED BY <3>1
  <2>3. \A i \in 1 .. Len(series) :
          {i} \X {n \in DOMAIN series[i].points : series[i].points[n].v # NotFinite}
            = PlacesIn(series, i, Len(series[i].points))
    BY <2>2 DEF PlacesIn
  <2>4. \A x : x \in placesOf(model) <=>
          \E i \in 1 .. Len(series) : series[i].model = model /\ x \in PlacesIn(series, i, Len(series[i].points))
    BY <2>1, <2>3
  <2>5. \A x : x \in PlacesOf(series, model, Len(series)) <=>
          \E i \in 1 .. Len(series) : series[i].model = model /\ x \in PlacesIn(series, i, Len(series[i].points))
    BY DEF PlacesOf
  <2> HIDE DEF placesOf
  <2> QED BY <2>4, <2>5
<1>2. ASSUME NEW model \in DOMAIN lines
      PROVE  LET b == lines[model]
                 P == placesOf(model)
             IN  b \in Buckets /\ Numeric(series, P) /\ Exact(series, P, width, b)
  <2> DEFINE c == <<model, width>>
  <2>1. c[1] = model /\ c[2] = width
    OBVIOUS
  <2> HIDE DEF c, placesOf
  <2>2. lines[model] = BucketsOf(series, c)
    <3>1. c[1] \in DOMAIN TypeLines(series, c[2]) => TypeLines(series, c[2])[c[1]] = BucketsOf(series, c)
      BY TypeLinesFold
    <3> QED BY <1>2, <2>1, <3>1
  <2> HIDE DEF lines
  <2> QED BY <1>1, <2>1, <2>2, OuterLoop
<1>3. ASSUME NEW model \in DOMAIN lines
      PROVE  /\ \A x \in placesOf(model) : \E t \in DOMAIN lines[model] : within(t, x)
             /\ \A t \in DOMAIN lines[model] :
                  LET b      == lines[model][t]
                      places == {x \in placesOf(model) : within(t, x)}
                      values == [x \in places |-> series[x[1]].points[x[2]].v]
                  IN  /\ t % width = 0
                      /\ b.n = Cardinality(places) /\ b.sum = SumFunction(values)
                      /\ b.min = Min(Range(values)) /\ b.max = Max(Range(values))
  <2> DEFINE buckets == lines[model]
             P == placesOf(model)
  <2>1. buckets \in Buckets /\ Numeric(series, P) /\ Exact(series, P, width, buckets)
    BY <1>2
  <2> HIDE DEF lines, placesOf, P, buckets
  <2>2. DOMAIN buckets \subseteq Int
    BY <2>1 DEF Buckets
  <2>3. \A t \in DOMAIN buckets : CellOf(buckets[t], InBucket(series, P, width, t), ValuesAt(series, InBucket(series, P, width, t)))
    BY <2>1 DEF Exact
  <2>4. \A x \in P : At(series, x).t \in Int /\ At(series, x).v \in Int
    BY <2>1 DEF Numeric
  <2>5. \A x \in P : StartOf(At(series, x), width) % width = 0
    BY <2>4, StartIsMultiple DEF StartOf
  <2>6. ASSUME NEW t \in DOMAIN buckets PROVE t % width = 0 /\ t \in Int
    <3>1. PICK x : x \in InBucket(series, P, width, t)
      BY <2>3 DEF CellOf
    <3> QED BY <2>2, <2>5, <3>1 DEF InBucket
  <2>7. \A t \in DOMAIN buckets, x \in P : within(t, x) <=> StartOf(At(series, x), width) = t
    <3> SUFFICES ASSUME NEW t \in DOMAIN buckets, NEW x \in P
                 PROVE  within(t, x) <=> StartOf(At(series, x), width) = t
      OBVIOUS
    <3>1. t % width = 0 /\ t \in Int /\ At(series, x).t \in Int
      BY <2>4, <2>6
    <3>2. t <= At(series, x).t /\ At(series, x).t < t + width <=> At(series, x).t - (At(series, x).t % width) = t
      BY <3>1, StartOfSample
    <3> QED BY <3>2 DEF StartOf, At
  <2>8. \A x \in P : \E t \in DOMAIN buckets : within(t, x)
    <3>1. \A x \in P : StartOf(At(series, x), width) \in DOMAIN buckets
      BY <2>1 DEF Exact
    <3> HIDE DEF within
    <3> QED BY <2>7, <3>1
  <2>9. ASSUME NEW t \in DOMAIN buckets
        PROVE  LET b      == buckets[t]
                   places == {x \in P : within(t, x)}
                   values == [x \in places |-> series[x[1]].points[x[2]].v]
               IN  /\ t % width = 0
                   /\ b.n = Cardinality(places) /\ b.sum = SumFunction(values)
                   /\ b.min = Min(Range(values)) /\ b.max = Max(Range(values))
    <3> DEFINE places == {x \in P : within(t, x)}
               values == [x \in places |-> series[x[1]].points[x[2]].v]
               Q == InBucket(series, P, width, t)
    <3>1. places = Q
      <4> HIDE DEF within
      <4> QED BY <2>7 DEF InBucket
    <3> HIDE DEF places, Q
    <3>2. values = ValuesAt(series, Q)
      BY <3>1 DEF ValuesAt, At
    <3>3. DOMAIN values = Q /\ \A x \in Q : values[x] \in Int
      <4>1. Q \subseteq P
        BY DEF Q, InBucket
      <4> QED BY <2>4, <3>1, <4>1 DEF At
    <3> HIDE DEF values
    <3>4. CellOf(buckets[t], Q, values)
      BY <2>3, <3>2 DEF Q
    <3>5. buckets[t].min = Min(Range(values)) /\ buckets[t].max = Max(Range(values))
      BY <3>3, <3>4, CellEnds
    <3>6. buckets[t].n = Cardinality(places) /\ buckets[t].sum = SumFunction(values)
      BY <3>1, <3>4 DEF CellOf
    <3> QED BY <2>6, <3>5, <3>6 DEF places, values
  <2> HIDE DEF within
  <2> QED BY <2>8, <2>9 DEF P, buckets
<1> HIDE DEF lines, placesOf, within
<1> QED BY <1>3, Zenon DEF CountsOnce, lines, placesOf, within

\* The merge by miner mixes no samples and keeps one for every time any was taken at, and the
\* view by type counts every one in its bucket: for any number of series, of any length, in any order
\* (mergeSeriesByMiner, mergePoints, aggregateHashrateByType).
THEOREM SeriesKeep == PureSpec => []LinesKeepSamples
<1>1. Given => LinesKeepSamples
  <2> SUFFICES ASSUME Given, input.part = "lines"
               PROVE  KeepSamples(EnrichedInput) /\ CountsOnce(EnrichedInput, 2)
    BY DEF LinesKeepSamples
  <2>1. EnrichedInput \in Seq(Chartable)
    BY GivenChart
  <2> QED BY <2>1, MergeKeeps, TypesCount
<1> QED BY <1>1, GivenInvariant, PTL

=============================================================================
