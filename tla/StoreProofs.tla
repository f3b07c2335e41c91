---------------------------- MODULE StoreProofs ----------------------------
(***************************************************************************)
(* Type correctness of the store, the agreement of rows with their keys,    *)
(* the uniqueness of addresses, and, when no two devices share a name or an *)
(* address, the ownership of samples.                                       *)
(*                                                                          *)
(* Then how long things live, and whether a miner stays one row: in SQLite  *)
(* mode no step loses a sample inside the retention window; when no two     *)
(* devices share a name or an address, a row lives from a miner's last      *)
(* answer to its TTL; and when polls do not hide too many of a device's     *)
(* names, no two rows are one miner and the history is under the row.       *)
(*                                                                          *)
(* Last, that the store of such devices is the list of miners and the logs  *)
(* of Fleet.                                                                *)
(***************************************************************************)
EXTENDS Store, TLAPS

USE IdentityAssumption, StoreAssumption

-----------------------------------------------------------------------------
(* Identities *)

\* The canonical forms stay inside the sets of names.
LEMMA CanonicalNames ==
    /\ \A h \in Hostnames \cup {None} : DistinctiveHostname(h) \in Hostnames \cup {None}
    /\ \A m \in Macs \cup {None} : NormalizeMAC(m) \in Macs \cup {None}
    /\ \A s \in Serials \cup {None} : NormalizeSerial(s) \in Serials \cup {None}
    /\ DistinctiveHostname(None) = None /\ NormalizeMAC(None) = None
<1>1. \A h \in Hostnames \cup {None} : DistinctiveHostname(h) \in Hostnames \cup {None}
  BY DEF DistinctiveHostname
<1>2. \A m \in Macs \cup {None} : NormalizeMAC(m) \in Macs \cup {None}
  BY DEF NormalizeMAC, PlausibleMacs
<1>3. \A s \in Serials \cup {None} : NormalizeSerial(s) \in Serials \cup {None}
  BY DEF NormalizeSerial
<1>4. DistinctiveHostname(None) = None
  BY DEF DistinctiveHostname
<1>5. NormalizeMAC(None) = None
  BY DEF NormalizeMAC, PlausibleMacs
<1> QED
  BY <1>1, <1>2, <1>3, <1>4, <1>5

\* What a report or a row must be for the identity operators to make sense.
Fielded(d) ==
    /\ d.ip \in Addresses
    /\ d.host \in Hostnames \cup {None}
    /\ d.mac \in Macs \cup {None}
    /\ d.serial \in Serials \cup {None}

\* Keys with a name are ids.
LEMMA KeyType ==
    ASSUME NEW k \in {"host", "mac", "sn", "ip", "bare"}, NEW n \in Names \cup {None}
    PROVE  Key(k, n) \in MinerId
BY DEF Key, MinerId

\* Every identity of a well-formed report is an id.
LEMMA IdentityType ==
    ASSUME NEW d, Fielded(d)
    PROVE  StableIDOf(d) \in MinerId /\ IdentityAliases(d) \subseteq MinerId
<1> DEFINE host == DistinctiveHostname(d.host)
           mac == NormalizeMAC(d.mac)
           serial == NormalizeSerial(d.serial)
<1>1. host \in Names \cup {None} /\ mac \in Names \cup {None} /\ serial \in Names \cup {None}
      /\ d.ip \in Names \cup {None}
  BY CanonicalNames DEF Fielded, Names
<1>2. /\ Key("host", host) \in MinerId /\ Key("bare", host) \in MinerId
      /\ Key("mac", mac) \in MinerId /\ Key("sn", serial) \in MinerId
      /\ Key("ip", d.ip) \in MinerId
  BY <1>1, KeyType
<1>3. StableIDOf(d) \in MinerId
  BY <1>2 DEF StableIDOf, StableID
<1>4. IdentityAliases(d) \subseteq MinerId
  BY <1>2 DEF IdentityAliases
<1> QED
  BY <1>3, <1>4

\* Rewriting the MAC to its canonical form changes no identity: the row made from a
\* report is found again by the key the report was filed under.
LEMMA RowFacts ==
    ASSUME NEW d \in Detail, NEW t \in Nat
    PROVE  /\ RowOf(d, t) \in Row
           /\ RowOf(d, t).ip = d.ip
           /\ RowOf(d, t).lastSeen = t
           /\ StableIDOf(RowOf(d, t)) = StableIDOf(d)
           /\ IdentityAliases(RowOf(d, t)) = IdentityAliases(d)
<1> DEFINE plain == IF NormalizeMAC(d.mac) # None THEN NormalizeMAC(d.mac) ELSE d.mac
<1>1. RowOf(d, t) = [ip |-> d.ip, host |-> d.host, mac |-> plain, serial |-> d.serial,
                     error |-> d.error, lastSeen |-> t]
  BY DEF RowOf, WithPlainMac, Detail
<1>2. plain \in Macs \cup {None}
  BY CanonicalNames DEF Detail
<1>3. NormalizeMAC(plain) = NormalizeMAC(d.mac)
  BY DEF NormalizeMAC, PlausibleMacs
<1>4. RowOf(d, t) \in Row
  BY <1>1, <1>2 DEF Row, Detail
<1>5. /\ RowOf(d, t).ip = d.ip /\ RowOf(d, t).host = d.host
      /\ RowOf(d, t).serial = d.serial /\ RowOf(d, t).mac = plain
      /\ RowOf(d, t).lastSeen = t
  BY <1>1
<1>6. StableIDOf(RowOf(d, t)) = StableIDOf(d)
  BY <1>3, <1>5 DEF StableIDOf, StableID
<1>7. IdentityAliases(RowOf(d, t)) = IdentityAliases(d)
  BY <1>3, <1>5, <1>6 DEF IdentityAliases
<1> QED
  BY <1>4, <1>5, <1>6, <1>7

\* A failed poll can only match a row by the address it tried.
LEMMA FailureFacts ==
    ASSUME NEW a \in Addresses
    PROVE  /\ Failure(a) \in Detail
           /\ Failure(a).ip = a
           /\ StableIDOf(Failure(a)) = Key("ip", a)
           /\ IdentityAliases(Failure(a)) = {}
<1>1. /\ Failure(a) \in Detail /\ Failure(a).ip = a /\ Failure(a).host = None
      /\ Failure(a).mac = None /\ Failure(a).serial = None
  BY DEF Failure, Detail
<1>2. StableIDOf(Failure(a)) = Key("ip", a)
  BY <1>1, CanonicalNames DEF StableIDOf, StableID
<1>3. IdentityAliases(Failure(a)) = {}
  BY <1>1, <1>2, CanonicalNames DEF IdentityAliases, NormalizeSerial
<1> QED
  BY <1>1, <1>2, <1>3

\* An id of kind "ip" tells the address of the row it identifies.
LEMMA AddressKey ==
    ASSUME NEW d, NEW a, StableIDOf(d) = Key("ip", a)
    PROVE  d.ip = a
BY DEF StableIDOf, StableID, Key

-----------------------------------------------------------------------------
(* Types *)

\* What a successful poll reports is a well-formed detail.
LEMMA ReportType ==
    ASSUME TypeOK, NEW dev \in Devices, NEW shown, addr[dev] # None
    PROVE  /\ Report(dev, shown) \in Detail
           /\ Report(dev, shown).ip = addr[dev]
BY DEF TypeOK, Report, Detail

\* Refiling keeps samples well formed.
LEMMA RefiledType ==
    ASSUME TypeOK, NEW from, NEW to \in MinerId
    PROVE  Refiled(from, to) \subseteq Sample
<1>1. ASSUME NEW s \in samples
      PROVE  [id |-> IF s.id \in from THEN to ELSE s.id, time |-> s.time, dev |-> s.dev] \in Sample
  BY DEF TypeOK, Sample
<1> QED
  BY <1>1 DEF Refiled

\* A row marked with an error keeps its identity fields.
LEMMA MarkedRow ==
    ASSUME NEW r \in Row, NEW a \in Addresses
    PROVE  /\ Marked(r, a) \in Row /\ Marked(r, a).ip = a /\ Marked(r, a).host = r.host
           /\ Marked(r, a).mac = r.mac /\ Marked(r, a).serial = r.serial
BY DEF Row, Marked

\* findMinerLocked returns rows of the fleet, and none only if none matches.
LEMMA FindMinerFacts ==
    ASSUME NEW d
    PROVE  /\ FindMiner(d) \subseteq DOMAIN miners
           /\ FindMiner(d) = {} => ByIP(d) = {} /\ ById(d) = {}
BY DEF FindMiner, ById, ByHost, ByMac, BySerial, ByIP

\* A failed poll of an address finds a row at that address, or none.
LEMMA FailureFinds ==
    ASSUME TypeOK, RowIdentity, NEW a \in Addresses, NEW i \in FindMiner(Failure(a))
    PROVE  i \in DOMAIN miners /\ miners[i].ip = a
<1> DEFINE f == Failure(a)
<1>1. /\ StableIDOf(f) = Key("ip", a) /\ f.ip = a
      /\ f.host = None /\ f.mac = None /\ f.serial = None
  BY FailureFacts DEF Failure
<1>2. ByHost(f) = {} /\ ByMac(f) = {} /\ BySerial(f) = {}
  BY <1>1, CanonicalNames DEF ByHost, ByMac, BySerial
<1>3. i \in ById(f) \/ i \in ByIP(f)
  BY <1>2 DEF FindMiner
<1>4. CASE i \in ByIP(f)
  BY <1>1, <1>4 DEF ByIP
<1>5. CASE i \in ById(f)
  <2>1. i \in DOMAIN miners /\ i = Key("ip", a)
    BY <1>1, <1>5 DEF ById
  <2>2. StableIDOf(miners[i]) = Key("ip", a)
    BY <2>1 DEF RowIdentity
  <2> QED
    BY <2>1, <2>2, AddressKey
<1> QED
  BY <1>3, <1>4, <1>5

\* The rows and their keys: what the fleet map promises.
FleetInv == TypeOK /\ RowIdentity /\ UniqueAddress

\* A successful Upsert keeps the fleet map in order.
LEMMA UpsertOkFleet ==
    ASSUME FleetInv, Idle, NEW dev \in Devices, NEW d \in Detail,
           NEW found \in SUBSET DOMAIN miners,
           UpsertOk(d, found, dev), UNCHANGED <<now, addr>>
    PROVE  FleetInv'
<1> DEFINE id == StableIDOf(d)
           moved == (found \cup ByIP(d) \cup IdentityAliases(d)) \ {id}
           dropped == (found \cup ByIP(d)
                         \cup (IF SQLite THEN {} ELSE IdentityAliases(d) \cap HistoryIds)) \ {id}
           sample == [id |-> id, time |-> now, dev |-> dev]
<1>1. miners' = [i \in (DOMAIN miners \ dropped) \cup {id} |->
                   IF i = id THEN RowOf(d, now) ELSE miners[i]]
  BY DEF UpsertOk
<1>2. now \in Nat /\ now \in 0 .. MaxTime
  BY DEF FleetInv, TypeOK
<1>3. id \in MinerId /\ IdentityAliases(d) \subseteq MinerId
  BY IdentityType DEF Detail, Fielded
<1>4. sample \in Sample
  BY <1>2, <1>3 DEF Sample
<1>5. moved \subseteq MinerId
  BY <1>3 DEF FleetInv, TypeOK, ByIP
<1> HIDE DEF dropped, id
<1>6. DOMAIN miners' \subseteq MinerId /\ miners' \in [DOMAIN miners' -> Row]
  <2>1. \A i \in DOMAIN miners : miners[i] \in Row
    BY DEF FleetInv, TypeOK
  <2>2. RowOf(d, now) \in Row
    BY <1>2, RowFacts
  <2> QED
    BY <1>1, <1>3, <2>1, <2>2 DEF FleetInv, TypeOK
<1>7. /\ samples' \subseteq Sample /\ renames' \subseteq MinerId /\ unsaved' \subseteq Sample
      /\ \A s, t \in unsaved' : s = t
      /\ unsaved' = {} => renames' = {}
  <2>1. CASE SQLite
    <3>1. renames' = moved /\ unsaved' = {sample} /\ samples' = samples
      BY <2>1 DEF UpsertOk, id
    <3> QED
      BY <3>1, <1>4, <1>5 DEF FleetInv, TypeOK
  <2>2. CASE ~SQLite
    <3>1. samples' = Refiled(moved, id) \cup {sample} /\ UNCHANGED <<renames, unsaved>>
      BY <2>2 DEF UpsertOk, id
    <3>2. Refiled(moved, id) \subseteq Sample
      BY <1>3, RefiledType DEF FleetInv
    <3> QED
      BY <3>1, <3>2, <1>4 DEF FleetInv, TypeOK
  <2> QED
    BY <2>1, <2>2
<1>8. lastOk' \in [Devices -> 0 .. MaxTime]
  BY <1>2 DEF UpsertOk, FleetInv, TypeOK
<1>9. TypeOK'
  BY <1>6, <1>7, <1>8 DEF TypeOK, FleetInv
<1>10. RowIdentity'
  <2>1. SUFFICES ASSUME NEW i \in DOMAIN miners' PROVE i = StableIDOf(miners'[i])
    BY DEF RowIdentity
  <2>2. CASE i = id
    <3>1. miners'[i] = RowOf(d, now)
      BY <1>1, <2>2
    <3> QED
      BY <3>1, <2>2, <1>2, RowFacts DEF id
  <2>3. CASE i # id
    <3>1. i \in DOMAIN miners /\ miners'[i] = miners[i]
      BY <1>1, <2>1, <2>3
    <3> QED
      BY <3>1 DEF FleetInv, RowIdentity
  <2> QED
    BY <2>2, <2>3
<1>11. UniqueAddress'
  <2>1. SUFFICES ASSUME NEW i \in DOMAIN miners', NEW j \in DOMAIN miners',
                        miners'[i].ip = miners'[j].ip
                 PROVE  i = j
    BY DEF UniqueAddress
  <2>2. ASSUME NEW k \in DOMAIN miners', k # id
        PROVE  k \in DOMAIN miners /\ miners'[k] = miners[k] /\ miners[k].ip # d.ip
    BY <1>1, <2>2 DEF dropped, ByIP
  <2>3. miners'[id].ip = d.ip
    BY <1>1, <1>2, RowFacts
  <2>4. CASE i = id \/ j = id
    BY <2>1, <2>2, <2>3, <2>4
  <2>5. CASE i # id /\ j # id
    BY <2>1, <2>2, <2>5 DEF FleetInv, UniqueAddress
  <2> QED
    BY <2>4, <2>5
<1> QED
  BY <1>9, <1>10, <1>11 DEF FleetInv

\* So does an error Upsert, which may rewrite the address of the row it finds.
LEMMA UpsertErrorFleet ==
    ASSUME FleetInv, NEW a \in Addresses, UpsertError(Failure(a)), UNCHANGED <<now, addr, lastOk>>
    PROVE  FleetInv'
<1> DEFINE f == Failure(a)
           key == StableIDOf(f)
<1>1. /\ f \in Detail /\ f.ip = a /\ now \in Nat
  BY FailureFacts DEF FleetInv, TypeOK
<1>2. key \in MinerId
  BY <1>1, IdentityType DEF Detail, Fielded
<1>3. TypeOK' /\ RowIdentity' /\ UniqueAddress'
  <2>1. CASE \E i \in FindMiner(f) : miners' = [miners EXCEPT ![i] = Marked(@, f.ip)]
    <3>1. PICK i \in FindMiner(f) : miners' = [miners EXCEPT ![i] = Marked(@, f.ip)]
      BY <2>1
    <3>2. i \in DOMAIN miners /\ miners[i].ip = a /\ miners[i] \in Row
      BY <3>1, FailureFinds DEF FleetInv, TypeOK
    <3>3. /\ DOMAIN miners' = DOMAIN miners
          /\ \A j \in DOMAIN miners :
                miners'[j] = IF j = i THEN Marked(miners[i], a) ELSE miners[j]
      BY <3>1, <3>2, <1>1 DEF FleetInv, TypeOK
    <3>4. /\ miners'[i] \in Row /\ miners'[i].ip = miners[i].ip
          /\ miners'[i].host = miners[i].host /\ miners'[i].mac = miners[i].mac
          /\ miners'[i].serial = miners[i].serial
      BY <3>2, <3>3, MarkedRow
    <3>5. StableIDOf(miners'[i]) = StableIDOf(miners[i])
      BY <3>4 DEF StableIDOf, StableID
    <3>6. miners' \in [DOMAIN miners' -> Row]
      BY <3>1, <3>3, <3>4 DEF FleetInv, TypeOK
    <3>7. TypeOK'
      BY <3>3, <3>6 DEF FleetInv, TypeOK, UpsertError
    <3>8. RowIdentity'
      BY <3>3, <3>5 DEF FleetInv, RowIdentity
    <3>9. UniqueAddress'
      BY <3>3, <3>4 DEF FleetInv, UniqueAddress
    <3> QED
      BY <3>7, <3>8, <3>9
  <2>2. CASE /\ FindMiner(f) = {}
             /\ miners' = [i \in DOMAIN miners \cup {key} |->
                             IF i = key THEN RowOf(f, now) ELSE miners[i]]
    <3>1. \A i \in DOMAIN miners : miners[i].ip # a
      BY <2>2, <1>1, FindMinerFacts DEF ByIP
    <3>2. /\ DOMAIN miners' = DOMAIN miners \cup {key}
          /\ miners'[key] = RowOf(f, now)
          /\ \A i \in DOMAIN miners : i # key => miners'[i] = miners[i]
      BY <2>2
    <3>3. /\ RowOf(f, now) \in Row /\ RowOf(f, now).ip = a
          /\ StableIDOf(RowOf(f, now)) = key
      BY <1>1, RowFacts
    <3>4. miners' \in [DOMAIN miners' -> Row] /\ DOMAIN miners' \subseteq MinerId
      BY <2>2, <3>3, <1>2 DEF FleetInv, TypeOK
    <3> HIDE DEF f, key
    <3>5. TypeOK'
      BY <3>4 DEF FleetInv, TypeOK, UpsertError
    <3>6. RowIdentity'
      BY <3>2, <3>3 DEF FleetInv, RowIdentity
    <3>7. UniqueAddress'
      BY <3>1, <3>2, <3>3 DEF FleetInv, UniqueAddress
    <3> QED
      BY <3>5, <3>6, <3>7
  <2> QED
    BY <2>1, <2>2 DEF UpsertError
<1> QED
  BY <1>3 DEF FleetInv

\* The steps that leave the fleet map alone keep samples and the pending Upsert in
\* shape; Prune and Restart only take rows away.
LEMMA OtherFleet ==
    ASSUME FleetInv,
           \/ \E old \in renames : RenameMetrics(old) \/ RenameFails(old)
           \/ InsertSamples \/ InsertFails \/ MarkPoll
           \/ Prune \/ Restart \/ Tick
           \/ \E dev \in Devices : Lease(dev)
    PROVE  FleetInv'
<1>1. CASE \E old \in renames : RenameMetrics(old)
  <2>1. PICK old \in renames, s \in unsaved : samples' = Refiled({old}, s.id)
    BY <1>1 DEF RenameMetrics
  <2>2. s.id \in MinerId
    BY <2>1 DEF FleetInv, TypeOK, Sample
  <2>3. samples' \subseteq Sample
    BY <2>1, <2>2, RefiledType DEF FleetInv
  <2> QED
    BY <1>1, <2>3, ZenonT(60) DEF RenameMetrics, FleetInv, TypeOK, RowIdentity, UniqueAddress
<1>2. CASE \E old \in renames : RenameFails(old)
  BY <1>2 DEF RenameFails, FleetInv, TypeOK, RowIdentity, UniqueAddress
<1>3. CASE InsertSamples
  BY <1>3 DEF InsertSamples, FleetInv, TypeOK, RowIdentity, UniqueAddress
<1>4. CASE InsertFails
  BY <1>4 DEF InsertFails, FleetInv, TypeOK, RowIdentity, UniqueAddress
<1>5. CASE MarkPoll
  BY <1>5 DEF MarkPoll, FleetInv, TypeOK, RowIdentity, UniqueAddress
<1>6. CASE Prune
  <2>1. /\ DOMAIN miners' \subseteq DOMAIN miners
        /\ miners' \in [DOMAIN miners' -> Row]
        /\ \A i \in DOMAIN miners' : miners'[i] = miners[i]
    BY <1>6 DEF Prune, FleetInv, TypeOK
  <2> QED
    BY <1>6, <2>1 DEF Prune, FleetInv, TypeOK, RowIdentity, UniqueAddress
<1>7. CASE Restart
  <2>1. DOMAIN miners' = {} /\ miners' \in [DOMAIN miners' -> Row]
    BY <1>7 DEF Restart
  <2>2. lastOk' \in [Devices -> 0 .. MaxTime]
    BY <1>7 DEF Restart
  <2>3. samples' \subseteq Sample
    BY <1>7 DEF Restart, FleetInv, TypeOK
  <2> QED
    BY <1>7, <2>1, <2>2, <2>3 DEF Restart, FleetInv, TypeOK, RowIdentity, UniqueAddress
<1>8. CASE Tick
  <2>1. now' \in 1 .. MaxTime
    BY <1>8 DEF Tick, FleetInv, TypeOK
  <2> QED
    BY <1>8, <2>1 DEF Tick, store, FleetInv, TypeOK, RowIdentity, UniqueAddress
<1>9. CASE \E dev \in Devices : Lease(dev)
  <2>1. addr' \in [Devices -> Addresses \cup {None}]
    BY <1>9 DEF Lease, FleetInv, TypeOK
  <2> QED
    BY <1>9, <2>1 DEF Lease, store, FleetInv, TypeOK, RowIdentity, UniqueAddress
<1> QED
  BY <1>1, <1>2, <1>3, <1>4, <1>5, <1>6, <1>7, <1>8, <1>9

\* The empty fleet is in order.
LEMMA InitFleet == Init => FleetInv
<1>1. ASSUME Init PROVE DOMAIN miners = {} /\ miners \in [DOMAIN miners -> Row]
  BY <1>1 DEF Init
<1>2. ASSUME Init PROVE addr \in [Devices -> Addresses \cup {None}]
                       /\ lastOk \in [Devices -> 0 .. MaxTime] /\ now \in 1 .. MaxTime
  BY <1>2 DEF Init
<1> QED
  BY <1>1, <1>2 DEF Init, FleetInv, TypeOK, RowIdentity, UniqueAddress

\* A PollOk step is an UpsertOk of a report that matches at most the row it found.
LEMMA PollOkIsUpsert ==
    ASSUME TypeOK, NEW dev \in Devices, NEW shown, PollOk(dev, shown)
    PROVE  /\ Report(dev, shown) \in Detail
           /\ Report(dev, shown).ip = addr[dev]
           /\ \E found \in SUBSET FindMiner(Report(dev, shown)) :
                 UpsertOk(Report(dev, shown), found, dev)
           /\ Idle /\ UNCHANGED <<now, addr>>
<1> DEFINE d == Report(dev, shown)
<1>1. d \in Detail /\ d.ip = addr[dev]
  BY ReportType DEF PollOk
<1>2. \/ UpsertOk(d, {}, dev)
      \/ \E i \in FindMiner(d) : UpsertOk(d, {i}, dev)
  BY DEF PollOk
<1>3. \E found \in SUBSET FindMiner(d) : UpsertOk(d, found, dev)
  BY <1>2
<1> QED
  BY <1>1, <1>3 DEF PollOk

\* The fleet map is in order in every reachable state: well typed, every row under the
\* key its own fields give, and no address claimed by two rows.
LEMMA StoreFleet == Spec => []FleetInv
<1>1. FleetInv /\ [Next]_vars => FleetInv'
  <2> SUFFICES ASSUME FleetInv, [Next]_vars PROVE FleetInv'
    OBVIOUS
  <2>1. ASSUME NEW dev \in Devices, NEW shown \in Shows, PollOk(dev, shown) PROVE FleetInv'
    <3>1. PICK found \in SUBSET FindMiner(Report(dev, shown)) :
             UpsertOk(Report(dev, shown), found, dev)
      BY <2>1, PollOkIsUpsert DEF FleetInv
    <3>2. found \in SUBSET DOMAIN miners
      BY FindMinerFacts
    <3> QED
      BY <2>1, <3>1, <3>2, PollOkIsUpsert, UpsertOkFleet DEF FleetInv
  <2>2. ASSUME NEW a \in Addresses, PollFail(a) PROVE FleetInv'
    BY <2>2, UpsertErrorFleet DEF PollFail
  <2>3. CASE UNCHANGED vars
    BY <2>3 DEF vars, FleetInv, TypeOK, RowIdentity, UniqueAddress
  <2> QED
    BY <2>1, <2>2, <2>3, OtherFleet DEF Next
<1> QED
  BY <1>1, InitFleet, PTL DEF Spec

\* Every reachable state of the store is well typed, with at most one Upsert under way.
THEOREM StoreType == Spec => []TypeOK
<1>1. FleetInv => TypeOK
  BY DEF FleetInv
<1> QED
  BY <1>1, StoreFleet, PTL

\* Every row is filed under the identity its own fields give, after any sequence of
\* polls, failures, rekeyings, prunes and restarts.
THEOREM StoreRowIdentity == Spec => []RowIdentity
<1>1. FleetInv => RowIdentity
  BY DEF FleetInv
<1> QED
  BY <1>1, StoreFleet, PTL

\* No two rows claim one address, even if DHCP hands addresses from device to device.
THEOREM StoreUniqueAddress == Spec => []UniqueAddress
<1>1. FleetInv => UniqueAddress
  BY DEF FleetInv
<1> QED
  BY <1>1, StoreFleet, PTL

-----------------------------------------------------------------------------
(* Ownership of samples *)

\* No two devices share a name or may hold the same address.
OwnNames ==
    \A d1, d2 \in Devices : OwnedIds(d1) \cap OwnedIds(d2) # {} => d1 = d2

\* Every key a report or a row answers to.
AllKeys(d) == IdentityAliases(d) \cup {StableIDOf(d)}

\* A device holds only addresses DHCP may give it.
AddrLeased ==
    \A dev \in Devices : addr[dev] # None
                          => addr[dev] \in Addresses /\ dev \in LeasedTo[addr[dev]]

\* A row never mixes the keys of two devices.
RowsOwned ==
    \A i \in DOMAIN miners, dev \in Devices :
        AllKeys(miners[i]) \cap OwnedIds(dev) # {} => AllKeys(miners[i]) \subseteq OwnedIds(dev)

\* The Upsert under way moves samples only between ids of its device.
PendingOwned == \A s \in unsaved : renames \subseteq OwnedIds(s.dev)

\* SamplesOwned by itself is not inductive: a refiling is right only because the rows
\* that lead to it, and the ids still to be renamed, belong to one device.
OwnInv == FleetInv /\ AddrLeased /\ RowsOwned /\ PendingOwned /\ SamplesOwned

\* The keys of a report, listed.
LEMMA AllKeysAre ==
    ASSUME NEW d, Fielded(d)
    PROVE  AllKeys(d) =
             {Key("ip", d.ip)}
             \cup (IF DistinctiveHostname(d.host) = None THEN {}
                   ELSE {Key("host", DistinctiveHostname(d.host)),
                         Key("bare", DistinctiveHostname(d.host))})
             \cup (IF NormalizeMAC(d.mac) = None THEN {} ELSE {Key("mac", NormalizeMAC(d.mac))})
             \cup (IF NormalizeSerial(d.serial) = None THEN {}
                   ELSE {Key("sn", NormalizeSerial(d.serial))})
<1>1. (d.serial = None) <=> (NormalizeSerial(d.serial) = None)
  BY DEF NormalizeSerial, Fielded
<1> QED
  BY <1>1 DEF AllKeys, IdentityAliases, StableIDOf, StableID

\* A device's report carries only keys the device owns.
LEMMA ReportKeys ==
    ASSUME TypeOK, AddrLeased, NEW dev \in Devices, NEW shown, addr[dev] # None
    PROVE  AllKeys(Report(dev, shown)) \subseteq OwnedIds(dev)
<1> DEFINE d == Report(dev, shown)
           n == NameOf[dev]
<1>1. d \in Detail /\ d.ip = addr[dev]
  BY ReportType
<1>2. /\ d.host = n.host \/ d.host = None
      /\ d.mac = n.mac \/ d.mac = None
      /\ d.serial = n.serial \/ d.serial = None
  BY DEF Report
<1>3. Key("ip", d.ip) \in OwnedIds(dev)
  BY <1>1 DEF OwnedIds, AddrLeased
<1>4. \A k \in {Key("host", DistinctiveHostname(n.host)), Key("bare", DistinctiveHostname(n.host)),
                Key("mac", NormalizeMAC(n.mac)), Key("sn", NormalizeSerial(n.serial))} :
         k.name # None => k \in OwnedIds(dev)
  BY DEF OwnedIds
<1>5. \A k, m : Key(k, m).name = m
  BY DEF Key
<1>6. NormalizeSerial(None) = None
  BY DEF NormalizeSerial
<1>7. DistinctiveHostname(d.host) # None
        => {Key("host", DistinctiveHostname(d.host)), Key("bare", DistinctiveHostname(d.host))}
             \subseteq OwnedIds(dev)
  BY <1>2, <1>4, <1>5, CanonicalNames
<1>8. NormalizeMAC(d.mac) # None => Key("mac", NormalizeMAC(d.mac)) \in OwnedIds(dev)
  BY <1>2, <1>4, <1>5, CanonicalNames
<1>9. NormalizeSerial(d.serial) # None => Key("sn", NormalizeSerial(d.serial)) \in OwnedIds(dev)
  BY <1>2, <1>4, <1>5, <1>6
<1>10. Fielded(d)
  BY <1>1 DEF Fielded, Detail
<1> HIDE DEF d, n
<1>11. AllKeys(d) \subseteq OwnedIds(dev)
  BY <1>3, <1>7, <1>8, <1>9, <1>10, AllKeysAre
<1> QED
  BY <1>11 DEF d

\* A row that a report matches shares a key with it.
LEMMA MatchSharesKey ==
    ASSUME FleetInv, NEW d \in Detail, NEW i \in FindMiner(d) \cup ByIP(d)
    PROVE  /\ i \in DOMAIN miners
           /\ i \in AllKeys(miners[i])
           /\ AllKeys(miners[i]) \cap AllKeys(d) # {}
<1>1. i \in DOMAIN miners
  BY FindMinerFacts DEF ByIP
<1>2. i \in AllKeys(miners[i])
  BY <1>1 DEF FleetInv, RowIdentity, AllKeys
<1>3. Fielded(d) /\ Fielded(miners[i]) /\ miners[i] \in Row
  BY <1>1 DEF FleetInv, TypeOK, Row, Detail, Fielded
<1>4. i \in ById(d) \/ i \in ByHost(d) \/ i \in ByMac(d) \/ i \in BySerial(d) \/ i \in ByIP(d)
  BY DEF FindMiner
<1>5. AllKeys(miners[i]) \cap AllKeys(d) # {}
  <2>1. CASE i \in ById(d)
    BY <1>2, <2>1 DEF ById, AllKeys
  <2>2. CASE i \in ByHost(d)
    <3>1. Key("host", DistinctiveHostname(d.host)) \in AllKeys(d) \cap AllKeys(miners[i])
      BY <1>3, <2>2, AllKeysAre DEF ByHost
    <3> QED BY <3>1
  <2>3. CASE i \in ByMac(d)
    <3>1. NormalizeMAC(d.mac) # None /\ NormalizeMAC(miners[i].mac) = NormalizeMAC(d.mac)
      BY <2>3 DEF ByMac
    <3>2. Key("mac", NormalizeMAC(d.mac)) \in AllKeys(d)
      BY <1>3, <3>1, AllKeysAre
    <3>3. Key("mac", NormalizeMAC(miners[i].mac)) \in AllKeys(miners[i])
      BY <1>3, <3>1, AllKeysAre
    <3> QED BY <3>1, <3>2, <3>3
  <2>4. CASE i \in BySerial(d)
    <3>1. /\ NormalizeSerial(miners[i].serial) = NormalizeSerial(d.serial)
          /\ NormalizeSerial(d.serial) # None
      BY <2>4 DEF BySerial, NormalizeSerial, Detail
    <3>2. Key("sn", NormalizeSerial(d.serial)) \in AllKeys(d)
      BY <1>3, <3>1, AllKeysAre
    <3>3. Key("sn", NormalizeSerial(miners[i].serial)) \in AllKeys(miners[i])
      BY <1>3, <3>1, AllKeysAre
    <3> QED BY <3>1, <3>2, <3>3
  <2>5. CASE i \in ByIP(d)
    <3>1. miners[i].ip = d.ip
      BY <2>5 DEF ByIP
    <3>2. Key("ip", d.ip) \in AllKeys(d)
      BY <1>3, AllKeysAre
    <3>3. Key("ip", miners[i].ip) \in AllKeys(miners[i])
      BY <1>3, AllKeysAre
    <3> QED BY <3>1, <3>2, <3>3
  <2> QED
    BY <1>4, <2>1, <2>2, <2>3, <2>4, <2>5
<1> QED
  BY <1>1, <1>2, <1>5

\* A successful Upsert moves only samples of the device it heard from.
LEMMA UpsertOkOwn ==
    ASSUME OwnNames, OwnInv, Idle, NEW dev \in Devices, NEW d \in Detail,
           AllKeys(d) \subseteq OwnedIds(dev),
           NEW found \in SUBSET FindMiner(d),
           UpsertOk(d, found, dev), UNCHANGED <<now, addr>>
    PROVE  RowsOwned' /\ PendingOwned' /\ SamplesOwned'
<1> DEFINE id == StableIDOf(d)
           moved == (found \cup ByIP(d) \cup IdentityAliases(d)) \ {id}
           sample == [id |-> id, time |-> now, dev |-> dev]
<1>1. id \in OwnedIds(dev) /\ IdentityAliases(d) \subseteq OwnedIds(dev)
  BY DEF AllKeys
<1>2. ASSUME NEW i \in FindMiner(d) \cup ByIP(d) PROVE i \in OwnedIds(dev)
  <2>1. /\ i \in DOMAIN miners /\ i \in AllKeys(miners[i])
        /\ AllKeys(miners[i]) \cap AllKeys(d) # {}
    BY <1>2, MatchSharesKey DEF OwnInv
  <2>2. AllKeys(miners[i]) \cap OwnedIds(dev) # {}
    BY <2>1
  <2> QED
    BY <2>1, <2>2 DEF OwnInv, RowsOwned
<1>3. moved \subseteq OwnedIds(dev)
  BY <1>1, <1>2
<1>4. sample.id = id /\ sample.dev = dev
  OBVIOUS
<1>5. \A i \in DOMAIN miners' : /\ i = id => miners'[i] = RowOf(d, now)
                                /\ i # id => i \in DOMAIN miners /\ miners'[i] = miners[i]
  BY DEF UpsertOk
<1>6. now \in Nat
  BY DEF OwnInv, FleetInv, TypeOK
<1> HIDE DEF id, moved, sample
<1>7. RowsOwned'
  <2>1. SUFFICES ASSUME NEW i \in DOMAIN miners', NEW e \in Devices,
                        AllKeys(miners'[i]) \cap OwnedIds(e) # {}
                 PROVE  AllKeys(miners'[i]) \subseteq OwnedIds(e)
    BY DEF RowsOwned, AllKeys, IdentityAliases, StableIDOf
  <2>2. CASE i = id
    <3>1. AllKeys(miners'[i]) = AllKeys(d)
      BY <1>5, <1>6, <2>2, RowFacts DEF AllKeys
    <3>2. e = dev
      BY <2>1, <3>1 DEF OwnNames
    <3> QED
      BY <3>1, <3>2
  <2>3. CASE i # id
    BY <1>5, <2>1, <2>3 DEF OwnInv, RowsOwned
  <2> QED
    BY <2>2, <2>3
<1>8. PendingOwned' /\ SamplesOwned'
  <2>1. CASE SQLite
    <3>1. renames' = moved /\ unsaved' = {sample} /\ samples' = samples
      BY <2>1 DEF UpsertOk, id, moved, sample
    <3> QED
      BY <3>1, <1>1, <1>3, <1>4 DEF OwnInv, PendingOwned, SamplesOwned
  <2>2. CASE ~SQLite
    <3>1. samples' = Refiled(moved, id) \cup {sample} /\ renames' = renames /\ unsaved' = unsaved
      BY <2>2 DEF UpsertOk, id, moved, sample
    <3>2. unsaved = {}
      BY DEF Idle
    <3>3. ASSUME NEW t \in Refiled(moved, id) PROVE t.id \in OwnedIds(t.dev)
      <4>1. PICK s \in samples : t = [id |-> IF s.id \in moved THEN id ELSE s.id,
                                      time |-> s.time, dev |-> s.dev]
        BY <3>3 DEF Refiled
      <4>2. s.id \in OwnedIds(s.dev) /\ s.dev \in Devices /\ t.dev = s.dev
        BY <4>1 DEF OwnInv, SamplesOwned, FleetInv, TypeOK, Sample
      <4>3. CASE s.id \in moved
        <5>1. s.dev = dev
          BY <4>2, <4>3, <1>3 DEF OwnNames
        <5> QED
          BY <4>1, <4>2, <4>3, <5>1, <1>1
      <4>4. CASE s.id \notin moved
        BY <4>1, <4>2, <4>4
      <4> QED
        BY <4>3, <4>4
    <3> QED
      BY <3>1, <3>2, <3>3, <1>1, <1>4 DEF OwnInv, PendingOwned, SamplesOwned
  <2> QED
    BY <2>1, <2>2
<1> QED
  BY <1>7, <1>8

\* A failed poll starts a row with one key only, or keeps the keys of the row it finds.
LEMMA UpsertErrorOwn ==
    ASSUME OwnInv, NEW a \in Addresses, UpsertError(Failure(a))
    PROVE  RowsOwned' /\ PendingOwned' /\ SamplesOwned'
<1> DEFINE f == Failure(a)
           key == StableIDOf(f)
<1>1. now \in Nat /\ f \in Detail /\ f.ip = a
  BY FailureFacts DEF OwnInv, FleetInv, TypeOK
<1>2. ASSUME NEW i \in DOMAIN miners', NEW e \in Devices,
             AllKeys(miners'[i]) \cap OwnedIds(e) # {}
      PROVE  AllKeys(miners'[i]) \subseteq OwnedIds(e)
  <2>1. CASE \E j \in FindMiner(f) : miners' = [miners EXCEPT ![j] = Marked(@, f.ip)]
    <3>1. PICK j \in FindMiner(f) : miners' = [miners EXCEPT ![j] = Marked(@, f.ip)]
      BY <2>1
    <3>2. j \in DOMAIN miners /\ miners[j].ip = a /\ miners[j] \in Row
      BY <3>1, FailureFinds DEF OwnInv, FleetInv, TypeOK
    <3>3. i \in DOMAIN miners /\ miners'[i] = IF i = j THEN Marked(miners[j], a) ELSE miners[i]
      BY <3>1, <3>2, <1>1, <1>2 DEF OwnInv, FleetInv, TypeOK
    <3>4. AllKeys(miners'[i]) = AllKeys(miners[i])
      BY <3>2, <3>3, MarkedRow DEF AllKeys, IdentityAliases, StableIDOf, StableID
    <3> QED
      BY <1>2, <3>3, <3>4 DEF OwnInv, RowsOwned
  <2>2. CASE miners' = [j \in DOMAIN miners \cup {key} |->
                          IF j = key THEN RowOf(f, now) ELSE miners[j]]
    <3>1. CASE i = key
      <4>1. AllKeys(miners'[i]) = {key}
        BY <1>1, <2>2, <3>1, RowFacts, FailureFacts DEF AllKeys
      <4> QED
        BY <1>2, <4>1
    <3>2. CASE i # key
      BY <1>2, <2>2, <3>2 DEF OwnInv, RowsOwned
    <3> QED
      BY <3>1, <3>2
  <2> QED
    BY <2>1, <2>2 DEF UpsertError
<1>3. RowsOwned'
  BY <1>2 DEF RowsOwned, AllKeys, IdentityAliases, StableIDOf
<1> QED
  BY <1>3 DEF UpsertError, OwnInv, PendingOwned, SamplesOwned

\* A rename moves samples between ids of the device whose Upsert is under way.
LEMMA RenameOwn ==
    ASSUME OwnNames, OwnInv, NEW old \in renames, RenameMetrics(old)
    PROVE  RowsOwned' /\ PendingOwned' /\ SamplesOwned'
<1>1. PICK s \in unsaved : samples' = Refiled({old}, s.id)
  BY DEF RenameMetrics
<1>2. old \in OwnedIds(s.dev) /\ s.id \in OwnedIds(s.dev) /\ s.dev \in Devices
  BY <1>1 DEF OwnInv, PendingOwned, SamplesOwned, FleetInv, TypeOK, Sample
<1>3. ASSUME NEW t \in samples' PROVE t.id \in OwnedIds(t.dev)
  <2>1. PICK u \in samples : t = [id |-> IF u.id \in {old} THEN s.id ELSE u.id,
                                  time |-> u.time, dev |-> u.dev]
    BY <1>1, <1>3 DEF Refiled
  <2>2. u.id \in OwnedIds(u.dev) /\ u.dev \in Devices /\ t.dev = u.dev
    BY <2>1 DEF OwnInv, SamplesOwned, FleetInv, TypeOK, Sample
  <2>3. CASE u.id = old
    <3>1. u.dev = s.dev
      BY <1>2, <2>2, <2>3 DEF OwnNames
    <3> QED
      BY <1>2, <2>1, <2>2, <2>3, <3>1
  <2>4. CASE u.id # old
    BY <2>1, <2>2, <2>4
  <2> QED
    BY <2>3, <2>4
<1>4. RowsOwned'
  BY DEF RenameMetrics, OwnInv, RowsOwned, AllKeys, IdentityAliases, StableIDOf
<1> QED
  BY <1>3, <1>4 DEF RenameMetrics, OwnInv, PendingOwned, SamplesOwned

\* No other step gives a row new keys or a sample a new id.
LEMMA OtherOwn ==
    ASSUME OwnInv,
           \/ \E old \in renames : RenameFails(old)
           \/ InsertSamples \/ InsertFails \/ MarkPoll
           \/ Prune \/ Restart \/ Tick \/ UNCHANGED vars
           \/ \E dev \in Devices : Lease(dev)
    PROVE  RowsOwned' /\ PendingOwned' /\ SamplesOwned'
<1>1. /\ DOMAIN miners' \subseteq DOMAIN miners
      /\ \A i \in DOMAIN miners' : miners'[i] = miners[i]
  BY DEF RenameFails, InsertSamples, InsertFails, MarkPoll, Prune, Restart, Tick, Lease, vars, store
<1>2. RowsOwned'
  BY <1>1 DEF OwnInv, RowsOwned, AllKeys, IdentityAliases, StableIDOf
<1>3. samples' \cup unsaved' \subseteq samples \cup unsaved
  BY DEF RenameFails, InsertSamples, InsertFails, MarkPoll, Prune, Restart, Tick, Lease, vars, store
<1>4. SamplesOwned'
  BY <1>3 DEF OwnInv, SamplesOwned
<1>5. renames' \subseteq renames /\ unsaved' \subseteq unsaved
  BY DEF RenameFails, InsertSamples, InsertFails, MarkPoll, Prune, Restart, Tick, Lease, vars, store
<1>6. PendingOwned'
  BY <1>5 DEF OwnInv, PendingOwned
<1> QED
  BY <1>2, <1>4, <1>6

\* Devices move only between addresses they may hold.
LEMMA LeaseOwn ==
    ASSUME OwnInv, [Next]_vars
    PROVE  AddrLeased'
<1>1. ASSUME NEW dev \in Devices, Lease(dev) PROVE AddrLeased'
  BY <1>1 DEF Lease, OwnInv, FleetInv, TypeOK, AddrLeased
<1>2. CASE addr' = addr
  BY <1>2 DEF OwnInv, AddrLeased
<1>3. (\E dev \in Devices : Lease(dev)) \/ addr' = addr
  BY DEF Next, vars, PollOk, PollFail, RenameMetrics, RenameFails, InsertSamples, InsertFails,
         MarkPoll, Prune, Restart, Tick
<1> QED
  BY <1>1, <1>2, <1>3

\* When names are unique and leases reserved, rows and samples stay with their devices.
LEMMA StoreOwn ==
    ASSUME OwnNames
    PROVE  Spec => []OwnInv
<1>1. Init => OwnInv
  <2>1. Init => RowsOwned /\ PendingOwned /\ SamplesOwned /\ AddrLeased
    BY DEF Init, RowsOwned, PendingOwned, SamplesOwned, AddrLeased
  <2> QED
    BY <2>1, InitFleet DEF OwnInv
<1>2. OwnInv /\ FleetInv' /\ [Next]_vars => OwnInv'
  <2> SUFFICES ASSUME OwnInv, FleetInv', [Next]_vars PROVE OwnInv'
    OBVIOUS
  <2>1. ASSUME NEW dev \in Devices, NEW shown \in Shows, PollOk(dev, shown)
        PROVE  RowsOwned' /\ PendingOwned' /\ SamplesOwned'
    <3> DEFINE d == Report(dev, shown)
    <3>1. /\ d \in Detail /\ Idle /\ UNCHANGED <<now, addr>>
          /\ \E found \in SUBSET FindMiner(d) : UpsertOk(d, found, dev)
      BY <2>1, PollOkIsUpsert DEF OwnInv, FleetInv
    <3>2. AllKeys(d) \subseteq OwnedIds(dev)
      BY <2>1, ReportKeys DEF PollOk, OwnInv, FleetInv
    <3> HIDE DEF d
    <3> QED
      BY <3>1, <3>2, UpsertOkOwn
  <2>2. ASSUME NEW a \in Addresses, PollFail(a)
        PROVE  RowsOwned' /\ PendingOwned' /\ SamplesOwned'
    BY <2>2, UpsertErrorOwn DEF PollFail
  <2>3. RowsOwned' /\ PendingOwned' /\ SamplesOwned'
    BY <2>1, <2>2, RenameOwn, OtherOwn DEF Next
  <2> QED
    BY <2>3, LeaseOwn DEF OwnInv
<1> QED
  BY <1>1, <1>2, StoreFleet, PTL DEF Spec

\* When names are unique and leases reserved, a sample is only ever filed under an id of
\* the device it was measured on: whatever fields polls show or hide, whichever devices
\* answer, wherever a crash or a failed transaction stops a rename.
THEOREM StoreSamplesOwned ==
    ASSUME OwnNames
    PROVE  Spec => []SamplesOwned
<1>1. OwnInv => SamplesOwned
  BY DEF OwnInv
<1> QED
  BY <1>1, StoreOwn, PTL

-----------------------------------------------------------------------------
(* Samples *)

\* The Upsert under way files its sample, and with it all it renames, under a row.
RowWaits == \A s \in unsaved : s.id \in DOMAIN miners

KeepInv == FleetInv /\ RowWaits

LEMMA UpsertOkWaits ==
    ASSUME SQLite, NEW d, NEW found, NEW dev, UpsertOk(d, found, dev)
    PROVE  RowWaits' /\ samples' = samples
BY DEF UpsertOk, RowWaits

\* A rename files the samples of an older key under the row of the Upsert.
LEMMA RenameKeeps ==
    ASSUME KeepInv, NEW old \in renames, RenameMetrics(old), NEW s \in samples
    PROVE  \E t \in samples' : /\ t.time = s.time /\ t.dev = s.dev
                               /\ t.id = s.id \/ t.id \in DOMAIN miners
<1>1. PICK u \in unsaved : samples' = Refiled({old}, u.id)
  BY DEF RenameMetrics
<1>2. u.id \in DOMAIN miners
  BY <1>1 DEF KeepInv, RowWaits
<1> DEFINE t == [id |-> IF s.id \in {old} THEN u.id ELSE s.id, time |-> s.time, dev |-> s.dev]
<1>3. t \in samples'
  BY <1>1 DEF Refiled
<1>4. t.time = s.time /\ t.dev = s.dev /\ (t.id = s.id \/ t.id = u.id)
  OBVIOUS
<1> QED
  BY <1>2, <1>3, <1>4

LEMMA WaitsInv ==
    ASSUME SQLite, KeepInv, [Next]_vars
    PROVE  RowWaits'
<1>1. ASSUME NEW dev \in Devices, NEW shown \in Shows, PollOk(dev, shown) PROVE RowWaits'
  <2>1. PICK found : UpsertOk(Report(dev, shown), found, dev)
    BY <1>1, PollOkIsUpsert DEF KeepInv, FleetInv
  <2> QED
    BY <2>1, UpsertOkWaits
<1>2. ASSUME NEW a \in Addresses, PollFail(a) PROVE RowWaits'
  BY <1>2 DEF PollFail, Idle, UpsertError, RowWaits
<1>3. CASE Prune
  BY <1>3 DEF Prune, Idle, RowWaits
<1>4. CASE Restart
  BY <1>4 DEF Restart, RowWaits
<1>5. CASE \/ \E old \in renames : RenameMetrics(old) \/ RenameFails(old)
           \/ InsertSamples \/ InsertFails \/ MarkPoll \/ Tick \/ UNCHANGED vars
           \/ \E dev \in Devices : Lease(dev)
  <2>1. miners' = miners /\ unsaved' \subseteq unsaved
    BY <1>5 DEF RenameMetrics, RenameFails, InsertSamples, InsertFails, MarkPoll, Tick, Lease,
                store, vars
  <2> QED
    BY <2>1 DEF KeepInv, RowWaits
<1> QED
  BY <1>1, <1>2, <1>3, <1>4, <1>5 DEF Next

\* Whatever fails and wherever a crash falls, a sample inside the retention window
\* survives every step, and one that is refiled goes to a row of the fleet (Upsert,
\* renameMetrics, MarkPoll).
THEOREM StoreSamplesKept ==
    ASSUME SQLite
    PROVE  Spec => SamplesKept
<1> DEFINE Kept == \A s \in samples :
                      s.time >= now - Retention =>
                        \E t \in samples' : /\ t.time = s.time /\ t.dev = s.dev
                                            /\ t.id = s.id \/ t.id \in DOMAIN miners
<1>1. Init => KeepInv
  BY InitFleet DEF Init, KeepInv, RowWaits
<1>2. KeepInv /\ FleetInv' /\ [Next]_vars => KeepInv'
  BY WaitsInv DEF KeepInv
<1>3. KeepInv /\ [Next]_vars => [Kept]_vars
  <2> SUFFICES ASSUME KeepInv, Next, NEW s \in samples, s.time >= now - Retention
               PROVE  \E t \in samples' : /\ t.time = s.time /\ t.dev = s.dev
                                          /\ t.id = s.id \/ t.id \in DOMAIN miners
    OBVIOUS
  <2>1. ASSUME NEW old \in renames, RenameMetrics(old)
        PROVE  \E t \in samples' : /\ t.time = s.time /\ t.dev = s.dev
                                   /\ t.id = s.id \/ t.id \in DOMAIN miners
    BY <2>1, RenameKeeps
  <2>2. ASSUME NEW dev \in Devices, NEW shown \in Shows, PollOk(dev, shown) PROVE s \in samples'
    <3>1. PICK found : UpsertOk(Report(dev, shown), found, dev)
      BY <2>2, PollOkIsUpsert DEF KeepInv, FleetInv
    <3> QED
      BY <3>1, UpsertOkWaits
  <2>3. ASSUME NEW a \in Addresses, PollFail(a) PROVE s \in samples'
    BY <2>3 DEF PollFail, UpsertError
  <2>4. CASE \/ \E old \in renames : RenameFails(old)
             \/ InsertSamples \/ InsertFails \/ MarkPoll \/ Prune \/ Restart \/ Tick
             \/ \E dev \in Devices : Lease(dev)
    <3>1. s \in samples'
      BY <2>4 DEF RenameFails, InsertSamples, InsertFails, MarkPoll, Prune, Restart, Tick, Lease,
                  store
    <3> QED
      BY <3>1
  <2> QED
    BY <2>1, <2>2, <2>3, <2>4 DEF Next
<1> QED
  BY <1>1, <1>2, <1>3, StoreFleet, PTL DEF Spec, SamplesKept

-----------------------------------------------------------------------------
(* Rows *)

Answered(dev) == lastOk[dev] > 0 /\ now - lastOk[dev] <= TTL

\* A row as young as the last answer: the one that Prune spares.
Live ==
    \A dev \in Devices :
        Answered(dev) => \E i \in OwnedIds(dev) \cap DOMAIN miners : miners[i].lastSeen >= lastOk[dev]

\* The second half of RowsLiveTTL.
Aged ==
    \A i \in DOMAIN miners :
        i.kind # "ip" => \E dev \in Devices :
                            /\ i \in OwnedIds(dev)
                            /\ miners[i].lastSeen <= lastOk[dev]

Clocked == \A dev \in Devices : lastOk[dev] <= now

LifeInv == Clocked /\ Live /\ Aged

\* A successful Upsert touches only rows of the device it heard from.
LEMMA UpsertOkTouches ==
    ASSUME OwnInv, NEW dev \in Devices, NEW d \in Detail, AllKeys(d) \subseteq OwnedIds(dev),
           NEW found \in SUBSET FindMiner(d), UpsertOk(d, found, dev),
           NEW i \in DOMAIN miners, i \notin OwnedIds(dev)
    PROVE  i \in DOMAIN miners' /\ miners'[i] = miners[i]
<1>1. \A j \in FindMiner(d) \cup ByIP(d) : j \in OwnedIds(dev)
  <2>1. ASSUME NEW j \in FindMiner(d) \cup ByIP(d) PROVE j \in OwnedIds(dev)
    <3>1. /\ j \in DOMAIN miners /\ j \in AllKeys(miners[j])
          /\ AllKeys(miners[j]) \cap AllKeys(d) # {}
      BY <2>1, MatchSharesKey DEF OwnInv
    <3>2. AllKeys(miners[j]) \cap OwnedIds(dev) # {}
      BY <3>1
    <3> QED
      BY <3>1, <3>2 DEF OwnInv, RowsOwned
  <2> QED
    BY <2>1
<1>2. StableIDOf(d) \in OwnedIds(dev) /\ IdentityAliases(d) \subseteq OwnedIds(dev)
  BY DEF AllKeys
<1> QED
  BY <1>1, <1>2 DEF UpsertOk

LEMMA UpsertOkLife ==
    ASSUME OwnNames, OwnInv, LifeInv, NEW dev \in Devices, NEW d \in Detail,
           AllKeys(d) \subseteq OwnedIds(dev), NEW found \in SUBSET FindMiner(d),
           UpsertOk(d, found, dev), UNCHANGED <<now, addr>>
    PROVE  LifeInv'
<1> DEFINE id == StableIDOf(d)
<1>1. /\ now \in Nat /\ lastOk \in [Devices -> Nat]
      /\ \A i \in DOMAIN miners : miners[i].lastSeen \in Nat
  BY DEF OwnInv, FleetInv, TypeOK, Row
<1>2. /\ id \in DOMAIN miners' /\ miners'[id] = RowOf(d, now)
      /\ \A i \in DOMAIN miners' : i # id => i \in DOMAIN miners /\ miners'[i] = miners[i]
  BY DEF UpsertOk
<1>3. miners'[id].lastSeen = now
  BY <1>1, <1>2, RowFacts
<1>4. id \in OwnedIds(dev)
  BY DEF AllKeys
<1>5. /\ lastOk' = [lastOk EXCEPT ![dev] = now] /\ now' = now
      /\ \A e \in Devices : lastOk'[e] = IF e = dev THEN now ELSE lastOk[e]
  BY <1>1 DEF UpsertOk
<1> HIDE DEF id
<1>6. Clocked'
  BY <1>1, <1>5 DEF LifeInv, Clocked
<1>7. Live'
  <2>1. SUFFICES ASSUME NEW e \in Devices, Answered(e)'
                 PROVE  \E i \in OwnedIds(e) \cap DOMAIN miners' : miners'[i].lastSeen >= lastOk'[e]
    BY DEF Live, OwnedIds
  <2>2. CASE e = dev
    BY <2>2, <1>1, <1>2, <1>3, <1>4, <1>5
  <2>3. CASE e # dev
    <3>1. PICK i \in OwnedIds(e) \cap DOMAIN miners : miners[i].lastSeen >= lastOk[e]
      BY <2>1, <2>3, <1>5 DEF LifeInv, Live, Answered
    <3>2. i \notin OwnedIds(dev)
      BY <2>3, <3>1 DEF OwnNames
    <3>3. i \in DOMAIN miners' /\ miners'[i] = miners[i]
      BY <3>1, <3>2, UpsertOkTouches
    <3> QED
      BY <2>3, <3>1, <3>3, <1>5
  <2> QED
    BY <2>2, <2>3
<1>8. Aged'
  <2>1. SUFFICES ASSUME NEW i \in DOMAIN miners', i.kind # "ip"
                 PROVE  \E e \in Devices : i \in OwnedIds(e) /\ miners'[i].lastSeen <= lastOk'[e]
    BY DEF Aged, OwnedIds
  <2>2. CASE i = id
    BY <2>2, <1>1, <1>3, <1>4, <1>5
  <2>3. CASE i # id
    <3>1. i \in DOMAIN miners /\ miners'[i] = miners[i]
      BY <1>2, <2>3
    <3>2. PICK e \in Devices : i \in OwnedIds(e) /\ miners[i].lastSeen <= lastOk[e]
      BY <2>1, <3>1 DEF LifeInv, Aged
    <3>3. lastOk[e] <= lastOk'[e]
      BY <1>1, <1>5 DEF LifeInv, Clocked
    <3>4. miners'[i].lastSeen <= lastOk'[e]
      BY <1>1, <1>5, <3>1, <3>2, <3>3
    <3> QED
      BY <3>2, <3>4
  <2> QED
    BY <2>2, <2>3
<1> QED
  BY <1>6, <1>7, <1>8 DEF LifeInv

\* A failed poll adds no row but one under an address, and makes none younger.
LEMMA UpsertErrorLife ==
    ASSUME OwnInv, LifeInv, NEW a \in Addresses, UpsertError(Failure(a)),
           UNCHANGED <<now, addr, lastOk>>
    PROVE  LifeInv'
<1> DEFINE f == Failure(a)
           key == StableIDOf(f)
<1>1. key = Key("ip", a) /\ key.kind = "ip"
  BY FailureFacts DEF Key
<1>2. /\ DOMAIN miners \subseteq DOMAIN miners'
      /\ \A i \in DOMAIN miners : miners'[i].lastSeen = miners[i].lastSeen
      /\ \A i \in DOMAIN miners' : i \in DOMAIN miners \/ i.kind = "ip"
  <2>1. CASE \E j \in FindMiner(f) : miners' = [miners EXCEPT ![j] = Marked(@, f.ip)]
    <3>1. PICK j \in FindMiner(f) : miners' = [miners EXCEPT ![j] = Marked(@, f.ip)]
      BY <2>1
    <3>2. \A i \in DOMAIN miners :
             miners'[i] = IF i = j THEN Marked(miners[i], f.ip) ELSE miners[i]
      BY <3>1
    <3> QED
      BY <3>1, <3>2 DEF Marked
  <2>2. CASE /\ FindMiner(f) = {}
             /\ miners' = [i \in DOMAIN miners \cup {key} |->
                             IF i = key THEN RowOf(f, now) ELSE miners[i]]
    <3>1. key \notin DOMAIN miners
      BY <2>2, FindMinerFacts DEF ById
    <3> QED
      BY <1>1, <2>2, <3>1
  <2> QED
    BY <2>1, <2>2 DEF UpsertError
<1>3. Live'
  BY <1>2 DEF LifeInv, Live, Answered, OwnedIds
<1>4. Aged'
  BY <1>2 DEF LifeInv, Aged, OwnedIds
<1> QED
  BY <1>3, <1>4 DEF LifeInv, Clocked

\* Prune spares what has answered within the TTL; a restart forgets answers with rows.
LEMMA OtherLife ==
    ASSUME OwnInv, LifeInv,
           \/ \E old \in renames : RenameMetrics(old) \/ RenameFails(old)
           \/ InsertSamples \/ InsertFails \/ MarkPoll
           \/ Prune \/ Restart \/ Tick \/ UNCHANGED vars
           \/ \E dev \in Devices : Lease(dev)
    PROVE  LifeInv'
<1>1. /\ now \in Nat /\ lastOk \in [Devices -> Nat]
      /\ \A i \in DOMAIN miners : miners[i].lastSeen \in Nat
  BY DEF OwnInv, FleetInv, TypeOK, Row
<1>2. CASE Prune
  <2>1. /\ now' = now /\ lastOk' = lastOk
        /\ DOMAIN miners' = DOMAIN miners \ {i \in DOMAIN miners : miners[i].lastSeen < now - TTL}
        /\ \A i \in DOMAIN miners' : miners'[i] = miners[i]
    BY <1>2 DEF Prune
  <2>2. ASSUME NEW dev \in Devices, Answered(dev)
        PROVE  \E i \in OwnedIds(dev) \cap DOMAIN miners' : miners'[i].lastSeen >= lastOk[dev]
    <3>1. PICK i \in OwnedIds(dev) \cap DOMAIN miners : miners[i].lastSeen >= lastOk[dev]
      BY <2>2 DEF LifeInv, Live
    <3>2. ~(miners[i].lastSeen < now - TTL)
      BY <1>1, <2>2, <3>1 DEF Answered
    <3> QED
      BY <2>1, <3>1, <3>2
  <2> QED
    BY <2>1, <2>2 DEF LifeInv, Clocked, Live, Aged, Answered, OwnedIds
<1>3. CASE Restart
  <2>1. DOMAIN miners' = {} /\ now' = now /\ \A dev \in Devices : lastOk'[dev] = 0
    BY <1>3 DEF Restart
  <2> QED
    BY <1>1, <2>1 DEF LifeInv, Clocked, Live, Aged, Answered
<1>4. CASE Tick
  <2>1. now' = now + 1 /\ miners' = miners /\ lastOk' = lastOk
    BY <1>4 DEF Tick, store
  <2>2. \A dev \in Devices : Answered(dev)' => Answered(dev)
    BY <1>1, <2>1 DEF Answered
  <2> QED
    BY <1>1, <2>1, <2>2 DEF LifeInv, Clocked, Live, Aged, OwnedIds
<1>5. CASE \/ \E old \in renames : RenameMetrics(old) \/ RenameFails(old)
           \/ InsertSamples \/ InsertFails \/ MarkPoll \/ UNCHANGED vars
           \/ \E dev \in Devices : Lease(dev)
  <2>1. now' = now /\ miners' = miners /\ lastOk' = lastOk
    BY <1>5 DEF RenameMetrics, RenameFails, InsertSamples, InsertFails, MarkPoll, Lease, store, vars
  <2> QED
    BY <2>1 DEF LifeInv, Clocked, Live, Aged, Answered, OwnedIds
<1> QED
  BY <1>2, <1>3, <1>4, <1>5

\* When names are unique and leases reserved, answers and rows keep each other's age.
LEMMA StoreLife ==
    ASSUME OwnNames
    PROVE  Spec => []LifeInv
<1>1. Init => LifeInv
  BY DEF Init, LifeInv, Clocked, Live, Aged, Answered
<1>2. OwnInv /\ LifeInv /\ [Next]_vars => LifeInv'
  <2> SUFFICES ASSUME OwnInv, LifeInv, [Next]_vars PROVE LifeInv'
    OBVIOUS
  <2>1. ASSUME NEW dev \in Devices, NEW shown \in Shows, PollOk(dev, shown) PROVE LifeInv'
    <3> DEFINE d == Report(dev, shown)
    <3>1. /\ d \in Detail /\ UNCHANGED <<now, addr>>
          /\ \E found \in SUBSET FindMiner(d) : UpsertOk(d, found, dev)
      BY <2>1, PollOkIsUpsert DEF OwnInv, FleetInv
    <3>2. AllKeys(d) \subseteq OwnedIds(dev)
      BY <2>1, ReportKeys DEF PollOk, OwnInv, FleetInv
    <3> HIDE DEF d
    <3> QED
      BY <3>1, <3>2, UpsertOkLife
  <2>2. ASSUME NEW a \in Addresses, PollFail(a) PROVE LifeInv'
    BY <2>2, UpsertErrorLife DEF PollFail
  <2> QED
    BY <2>1, <2>2, OtherLife DEF Next
<1> QED
  BY <1>1, <1>2, StoreOwn, PTL DEF Spec

\* When names are unique and leases reserved, a device that answered within the TTL has a
\* row, and the row of an identified miner is never younger than its last answer (Upsert,
\* Prune), in both storage modes.
THEOREM StoreRowsLive ==
    ASSUME OwnNames
    PROVE  Spec => []RowsLiveTTL
<1>1. LifeInv => RowsLiveTTL
  BY DEF LifeInv, Live, Aged, Answered, RowsLiveTTL
<1> QED
  BY <1>1, StoreLife, PTL

-----------------------------------------------------------------------------
(* Names *)

\* The names a report or a row is known by, without its address.
Identities(d) ==
    {k \in {Key("host", DistinctiveHostname(d.host)), Key("mac", NormalizeMAC(d.mac)),
            Key("sn", NormalizeSerial(d.serial))} : k.name # None}

\* What a poll that shows the given fields tells of a device, wherever it is.
ShownAs(dev, shown) ==
    [ip     |-> None,
     host   |-> IF "host" \in shown THEN NameOf[dev].host ELSE None,
     mac    |-> IF "mac" \in shown THEN NameOf[dev].mac ELSE None,
     serial |-> IF "serial" \in shown THEN NameOf[dev].serial ELSE None]

ShownIds(dev, shown) == Identities(ShownAs(dev, shown))

\* The identity the poll is filed under.
TopId(dev, shown) == StableIDOf(ShownAs(dev, shown))

\* No two devices share a name.  They may share addresses.
OwnIdentities ==
    \A d1, d2 \in Devices : Identities(NameOf[d1]) \cap Identities(NameOf[d2]) # {} => d1 = d2

\* Any two polls that name a device have a name in common.
Linked ==
    \A dev \in Devices, s, t \in Shows :
        ShownIds(dev, s) # {} /\ ShownIds(dev, t) # {} => ShownIds(dev, s) \cap ShownIds(dev, t) # {}

\* Of two polls with a name in common, one shows what the other is filed under: never the
\* serial number with the hostname alone and then with the MAC alone.
Headed ==
    \A dev \in Devices, s, t \in Shows :
        ShownIds(dev, s) \cap ShownIds(dev, t) # {}
            => TopId(dev, s) \in ShownIds(dev, t) \/ TopId(dev, t) \in ShownIds(dev, s)

\* Polls hide no more names of a device than the store can make up for: in memory mode it
\* drops the rows under older keys as well.
Coherent == Linked \/ (~SQLite /\ Headed)

\* The names, one by one.
LEMMA IdentitiesAre ==
    ASSUME NEW d
    PROVE  /\ \A n : Key("host", n) \in Identities(d) <=> n # None /\ n = DistinctiveHostname(d.host)
           /\ \A n : Key("mac", n) \in Identities(d) <=> n # None /\ n = NormalizeMAC(d.mac)
           /\ \A n : Key("sn", n) \in Identities(d) <=> n # None /\ n = NormalizeSerial(d.serial)
           /\ \A k \in Identities(d) :
                /\ k.kind \in {"host", "mac", "sn"} /\ k.name # None /\ k = Key(k.kind, k.name)
BY DEF Identities, Key

\* A report with a name is filed under one of its names, the first in order.
LEMMA TopName ==
    ASSUME NEW d, d.serial \in Serials \cup {None}
    PROVE  /\ Identities(d) # {} => StableIDOf(d) \in Identities(d)
           /\ Identities(d) = {} => StableIDOf(d) = Key("ip", d.ip)
           /\ StableIDOf(d).kind # "ip" => StableIDOf(d) \in Identities(d)
           /\ \A k \in Identities(d) : k.kind = "host" => StableIDOf(d) = k
           /\ StableIDOf(d).kind = "mac" => DistinctiveHostname(d.host) = None
           /\ StableIDOf(d).kind = "sn" =>
                DistinctiveHostname(d.host) = None /\ NormalizeMAC(d.mac) = None
<1> DEFINE h == DistinctiveHostname(d.host)
           m == NormalizeMAC(d.mac)
           n == NormalizeSerial(d.serial)
           id == StableIDOf(d)
<1>1. (d.serial = None) <=> (n = None)
  BY DEF NormalizeSerial
<1>2. id = IF h # None THEN Key("host", h) ELSE IF m # None THEN Key("mac", m)
           ELSE IF n # None THEN Key("sn", n) ELSE Key("ip", d.ip)
  BY <1>1 DEF StableIDOf, StableID
<1>3. Identities(d) = {k \in {Key("host", h), Key("mac", m), Key("sn", n)} : k.name # None}
  BY DEF Identities
<1> HIDE DEF h, m, n, id
<1>4. \A k, l : Key(k, l).kind = k /\ Key(k, l).name = l
  BY DEF Key
<1>5. CASE h # None
  <2>1. id = Key("host", h) /\ id \in Identities(d) /\ id.kind = "host"
    BY <1>2, <1>3, <1>4, <1>5
  <2> QED BY <1>3, <1>4, <2>1 DEF h, m, n, id
<1>6. CASE h = None /\ m # None
  <2>1. id = Key("mac", m) /\ id \in Identities(d) /\ id.kind = "mac"
    BY <1>2, <1>3, <1>4, <1>6
  <2> QED BY <1>3, <1>4, <1>6, <2>1 DEF h, m, n, id
<1>7. CASE h = None /\ m = None /\ n # None
  <2>1. id = Key("sn", n) /\ id \in Identities(d) /\ id.kind = "sn"
    BY <1>2, <1>3, <1>4, <1>7
  <2> QED BY <1>3, <1>4, <1>7, <2>1 DEF h, m, n, id
<1>8. CASE h = None /\ m = None /\ n = None
  <2>1. id = Key("ip", d.ip) /\ Identities(d) = {} /\ id.kind = "ip"
    BY <1>2, <1>3, <1>4, <1>8
  <2> QED BY <2>1 DEF h, m, n, id
<1> QED BY <1>5, <1>6, <1>7, <1>8

\* Two rows that share a hostname, a MAC or a serial share a name.
LEMMA SharedNames ==
    ASSUME NEW a, NEW b, a.serial \in Serials \cup {None}, b.serial \in Serials \cup {None}
    PROVE  Identities(a) \cap Identities(b) # {} <=>
             \/ /\ DistinctiveHostname(a.host) = DistinctiveHostname(b.host)
                /\ DistinctiveHostname(a.host) # None
             \/ NormalizeMAC(a.mac) = NormalizeMAC(b.mac) /\ NormalizeMAC(a.mac) # None
             \/ NormalizeSerial(a.serial) = NormalizeSerial(b.serial) /\ a.serial # None
<1>1. (a.serial = None) <=> (NormalizeSerial(a.serial) = None)
  BY DEF NormalizeSerial
<1>2. ASSUME NEW k \in Identities(a), k \in Identities(b)
      PROVE  \/ k = Key("host", k.name) /\ k.name = DistinctiveHostname(a.host)
                /\ k.name = DistinctiveHostname(b.host) /\ k.name # None
             \/ k.name = NormalizeMAC(a.mac) /\ k.name = NormalizeMAC(b.mac) /\ k.name # None
             \/ k.name = NormalizeSerial(a.serial) /\ k.name = NormalizeSerial(b.serial) /\ k.name # None
  BY <1>2, IdentitiesAre
<1>3. ASSUME NEW n, n # None, NEW f \in {"host", "mac", "sn"},
             f = "host" => n = DistinctiveHostname(a.host) /\ n = DistinctiveHostname(b.host),
             f = "mac" => n = NormalizeMAC(a.mac) /\ n = NormalizeMAC(b.mac),
             f = "sn" => n = NormalizeSerial(a.serial) /\ n = NormalizeSerial(b.serial)
      PROVE  Key(f, n) \in Identities(a) \cap Identities(b)
  BY <1>3, IdentitiesAre
<1> QED BY <1>1, <1>2, <1>3

\* A row is known by the names of the report it was made from.
LEMMA RowNames ==
    ASSUME NEW d \in Detail, NEW t \in Nat
    PROVE  Identities(RowOf(d, t)) = Identities(d)
<1> DEFINE plain == IF NormalizeMAC(d.mac) # None THEN NormalizeMAC(d.mac) ELSE d.mac
<1>1. RowOf(d, t) = [ip |-> d.ip, host |-> d.host, mac |-> plain, serial |-> d.serial,
                     error |-> d.error, lastSeen |-> t]
  BY DEF RowOf, WithPlainMac, Detail
<1>2. NormalizeMAC(plain) = NormalizeMAC(d.mac)
  BY DEF NormalizeMAC, PlausibleMacs
<1>3. /\ RowOf(d, t).host = d.host /\ RowOf(d, t).serial = d.serial /\ RowOf(d, t).mac = plain
  BY <1>1
<1> QED BY <1>2, <1>3 DEF Identities

\* What a device shows of itself are names of its own, at every address.
LEMMA ReportNames ==
    ASSUME TypeOK, NEW dev \in Devices, NEW shown, addr[dev] # None
    PROVE  /\ Identities(Report(dev, shown)) = ShownIds(dev, shown)
           /\ ShownIds(dev, shown) \subseteq Identities(NameOf[dev])
           /\ ShownIds(dev, shown) # {} => StableIDOf(Report(dev, shown)) = TopId(dev, shown)
<1> DEFINE d == Report(dev, shown)
           s == ShownAs(dev, shown)
           n == NameOf[dev]
<1>1. /\ s.host = d.host /\ s.mac = d.mac /\ s.serial = d.serial
      /\ d.host \in {n.host, None} /\ d.mac \in {n.mac, None} /\ d.serial \in {n.serial, None}
      /\ n.serial \in Serials \cup {None}
  BY DEF Report, ShownAs
<1> HIDE DEF d, s, n
<1>2. Identities(d) = Identities(s)
  BY <1>1 DEF Identities
<1>3. Identities(d) \subseteq Identities(n)
  <2>1. NormalizeSerial(None) = None
    BY DEF NormalizeSerial
  <2>2. /\ DistinctiveHostname(d.host) \in {DistinctiveHostname(n.host), None}
        /\ NormalizeMAC(d.mac) \in {NormalizeMAC(n.mac), None}
        /\ NormalizeSerial(d.serial) \in {NormalizeSerial(n.serial), None}
    BY <1>1, <2>1, CanonicalNames
  <2> QED BY <2>2 DEF Identities, Key
<1>4. Identities(d) # {} => StableIDOf(d) = StableIDOf(s)
  <2>1. (d.serial = None) <=> (NormalizeSerial(d.serial) = None)
    BY <1>1 DEF NormalizeSerial
  <2>2. \/ DistinctiveHostname(d.host) # None \/ NormalizeMAC(d.mac) # None \/ d.serial # None
        \/ Identities(d) = {}
    <3> SUFFICES ASSUME DistinctiveHostname(d.host) = None, NormalizeMAC(d.mac) = None,
                        NormalizeSerial(d.serial) = None
                 PROVE  Identities(d) = {}
      BY <2>1
    <3>1. \A k \in Identities(d) : FALSE
      BY IdentitiesAre
    <3> QED BY <3>1
  <2> QED BY <1>1, <2>2 DEF StableIDOf, StableID
<1> QED BY <1>2, <1>3, <1>4 DEF ShownIds, TopId, d, s, n

-----------------------------------------------------------------------------
(* One row for one miner *)

\* A row with a name shows what one poll of one device showed.
RowsShown ==
    \A i \in DOMAIN miners :
        Identities(miners[i]) # {} =>
            \E dev \in Devices, s \in Shows :
                Identities(miners[i]) = ShownIds(dev, s) /\ i = TopId(dev, s)

\* In memory mode such a row has history, which is what an Upsert looks for when it drops
\* rows under older keys, and nothing waits for a transaction.
HistoryKept ==
    ~SQLite => /\ unsaved = {}
               /\ \A i \in DOMAIN miners : Identities(miners[i]) # {} => i \in HistoryIds

\* No two rows share a name.
NamedOnce ==
    \A i, j \in DOMAIN miners : Identities(miners[i]) \cap Identities(miners[j]) # {} => i = j

SplitInv == RowsShown /\ HistoryKept /\ NamedOnce

\* What the search finds if no row is under the report's own key but one has a name of it.
LEMMA FindsByName ==
    ASSUME FleetInv, NEW d \in Detail, ById(d) = {}, NEW j \in DOMAIN miners,
           Identities(d) \cap Identities(miners[j]) # {}, NEW i \in FindMiner(d)
    PROVE  /\ Identities(d) \cap Identities(miners[i]) # {}
           /\ StableIDOf(d) \in Identities(miners[j]) => StableIDOf(d) \in Identities(miners[i])
<1>1. \A l \in DOMAIN miners : miners[l].serial \in Serials \cup {None}
  BY DEF FleetInv, TypeOK, Row
<1>2. d.serial \in Serials \cup {None} /\ ((d.serial = None) <=> (NormalizeSerial(d.serial) = None))
  BY DEF Detail, NormalizeSerial
<1>3. ASSUME NEW l \in ByHost(d)
      PROVE  /\ l \in DOMAIN miners
             /\ Key("host", DistinctiveHostname(d.host)) \in Identities(d) \cap Identities(miners[l])
  BY <1>3, IdentitiesAre DEF ByHost
<1>4. ASSUME NEW l \in ByMac(d)
      PROVE  /\ l \in DOMAIN miners
             /\ Key("mac", NormalizeMAC(d.mac)) \in Identities(d) \cap Identities(miners[l])
  <2>1. l \in DOMAIN miners /\ NormalizeMAC(d.mac) # None /\ NormalizeMAC(miners[l].mac) = NormalizeMAC(d.mac)
    BY <1>4 DEF ByMac
  <2> QED BY <2>1, IdentitiesAre
<1>5. ASSUME NEW l \in BySerial(d)
      PROVE  /\ l \in DOMAIN miners
             /\ Key("sn", NormalizeSerial(d.serial)) \in Identities(d) \cap Identities(miners[l])
  <2>1. /\ l \in DOMAIN miners /\ NormalizeSerial(d.serial) # None
        /\ NormalizeSerial(miners[l].serial) = NormalizeSerial(d.serial)
    BY <1>2, <1>5 DEF BySerial
  <2> QED BY <2>1, IdentitiesAre
<1>6. j \in ByHost(d) \/ j \in ByMac(d) \/ j \in BySerial(d)
  BY <1>1, <1>2, SharedNames DEF ByHost, ByMac, BySerial
<1>7. \/ i \in ByHost(d)
      \/ ByHost(d) = {} /\ i \in ByMac(d)
      \/ ByHost(d) = {} /\ ByMac(d) = {} /\ i \in BySerial(d)
  <2>1. FindMiner(d) = IF ByHost(d) # {} THEN ByHost(d) ELSE IF ByMac(d) # {} THEN ByMac(d)
                       ELSE IF BySerial(d) # {} THEN BySerial(d) ELSE ByIP(d)
    BY Zenon DEF FindMiner
  <2>2. ByHost(d) # {} \/ ByMac(d) # {} \/ BySerial(d) # {}
    BY <1>6
  <2> QED BY <2>1, <2>2
<1>8. Identities(d) \cap Identities(miners[i]) # {}
  BY <1>3, <1>4, <1>5, <1>7
<1>9. ASSUME StableIDOf(d) \in Identities(miners[j]) PROVE StableIDOf(d) \in Identities(miners[i])
  <2> DEFINE id == StableIDOf(d)
  <2>1. id.kind \in {"host", "mac", "sn"} /\ id \in Identities(d)
    BY <1>2, <1>9, IdentitiesAre, TopName
  <2>2. id = Key(id.kind, id.name) /\ id.name # None
    BY <2>1, IdentitiesAre
  <2>3. CASE id.kind = "host"
    <3>1. id.name = DistinctiveHostname(d.host) /\ id.name = DistinctiveHostname(miners[j].host)
      BY <2>1, <2>2, <2>3, <1>9, IdentitiesAre
    <3>2. j \in ByHost(d)
      BY <2>2, <3>1 DEF ByHost
    <3>3. i \in ByHost(d)
      BY <1>7, <3>2
    <3> QED BY <1>3, <2>2, <2>3, <3>1, <3>3
  <2>4. CASE id.kind = "mac"
    <3>1. id.name = NormalizeMAC(d.mac) /\ id.name = NormalizeMAC(miners[j].mac)
      BY <2>1, <2>2, <2>4, <1>9, IdentitiesAre
    <3>2. j \in ByMac(d)
      BY <2>2, <3>1 DEF ByMac
    <3>3. ByHost(d) = {}
      BY <1>2, <2>4, TopName DEF ByHost
    <3>4. i \in ByMac(d)
      BY <1>7, <3>2, <3>3
    <3> QED BY <1>4, <2>2, <2>4, <3>1, <3>4
  <2>5. CASE id.kind = "sn"
    <3>1. id.name = NormalizeSerial(d.serial) /\ id.name = NormalizeSerial(miners[j].serial)
      BY <2>1, <2>2, <2>5, <1>9, IdentitiesAre
    <3>3. ByHost(d) = {} /\ ByMac(d) = {}
      BY <1>2, <2>5, TopName DEF ByHost, ByMac
    <3>4. i \in BySerial(d)
      BY <1>7, <3>3
    <3> QED BY <1>5, <2>2, <2>5, <3>1, <3>4
  <2> QED BY <2>1, <2>3, <2>4, <2>5
<1> QED BY <1>8, <1>9

\* A row that an Upsert leaves in the fleet, other than the new one, has no name of it.
LEMMA KeptApart ==
    ASSUME OwnIdentities, Coherent, FleetInv, SplitInv,
           NEW dev \in Devices, NEW shown \in Shows, NEW d \in Detail,
           Identities(d) = ShownIds(dev, shown),
           ShownIds(dev, shown) \subseteq Identities(NameOf[dev]),
           \A e \in Devices, s \in Shows : ShownIds(e, s) \subseteq Identities(NameOf[e]),
           ShownIds(dev, shown) # {} => StableIDOf(d) = TopId(dev, shown),
           NEW found \in SUBSET FindMiner(d), FindMiner(d) # {} => found # {},
           UpsertOk(d, found, dev),
           NEW j \in DOMAIN miners', j # StableIDOf(d)
    PROVE  /\ j \in DOMAIN miners /\ miners'[j] = miners[j]
           /\ j \notin found \cup ByIP(d)
           /\ Identities(miners[j]) \cap Identities(d) = {}
<1> DEFINE id == StableIDOf(d)
           dropped == (found \cup ByIP(d)
                         \cup (IF SQLite THEN {} ELSE IdentityAliases(d) \cap HistoryIds)) \ {id}
<1>1. miners' = [i \in (DOMAIN miners \ dropped) \cup {id} |->
                   IF i = id THEN RowOf(d, now) ELSE miners[i]]
  BY DEF UpsertOk
<1> HIDE DEF dropped
<1>2. j \in DOMAIN miners /\ j \notin dropped /\ miners'[j] = miners[j]
  BY <1>1
<1>3. j \notin found \cup ByIP(d) /\ (~SQLite => j \notin IdentityAliases(d) \cap HistoryIds)
  BY <1>2 DEF dropped
<1>4. ASSUME Identities(miners[j]) \cap Identities(d) # {} PROVE FALSE
  <2>0. /\ \A l \in DOMAIN miners : miners[l].serial \in Serials \cup {None}
        /\ \A l \in DOMAIN miners : StableIDOf(miners[l]) = l
        /\ d.serial \in Serials \cup {None}
    BY DEF FleetInv, TypeOK, Row, RowIdentity, Detail
  <2>1. Identities(d) # {} /\ Identities(miners[j]) # {} /\ id \in Identities(d) /\ id = TopId(dev, shown)
    BY <1>4, <2>0, TopName
  <2>2. \A l \in DOMAIN miners : Identities(miners[l]) \cap Identities(d) # {} =>
            \E s \in Shows : Identities(miners[l]) = ShownIds(dev, s) /\ l = TopId(dev, s)
    <3> SUFFICES ASSUME NEW l \in DOMAIN miners, Identities(miners[l]) \cap Identities(d) # {}
                 PROVE  \E s \in Shows : Identities(miners[l]) = ShownIds(dev, s) /\ l = TopId(dev, s)
      OBVIOUS
    <3>1. PICK e \in Devices, s \in Shows : Identities(miners[l]) = ShownIds(e, s) /\ l = TopId(e, s)
      BY DEF SplitInv, RowsShown
    <3>2. ShownIds(e, s) \subseteq Identities(NameOf[e])
      OBVIOUS
    <3>3. Identities(NameOf[e]) \cap Identities(NameOf[dev]) # {}
      BY <3>1, <3>2
    <3>4. e = dev
      BY <3>3 DEF OwnIdentities
    <3> QED BY <3>1, <3>4
  <2>3. PICK t \in Shows : Identities(miners[j]) = ShownIds(dev, t) /\ j = TopId(dev, t)
    BY <1>2, <1>4, <2>2
  <2>4. ASSUME id \in DOMAIN miners PROVE id \in Identities(miners[id])
    <3>1. StableIDOf(miners[id]) = id /\ id.kind # "ip"
      BY <2>0, <2>1, <2>4, IdentitiesAre
    <3> QED BY <2>0, <2>4, <3>1, TopName
  <2>5. ASSUME id \notin DOMAIN miners
        PROVE  \E i \in found : /\ i \in DOMAIN miners /\ Identities(d) \cap Identities(miners[i]) # {}
                                /\ id \in Identities(miners[j]) => id \in Identities(miners[i])
    <3>1. ById(d) = {}
      BY <2>5 DEF ById
    <3>2. FindMiner(d) # {}
      <4>1. j \in ByHost(d) \/ j \in ByMac(d) \/ j \in BySerial(d)
        BY <1>2, <1>4, <2>0, SharedNames DEF ByHost, ByMac, BySerial
      <4> QED BY <4>1 DEF FindMiner
    <3>3. PICK i \in found : i \in FindMiner(d)
      BY <3>2
    <3>4. i \in DOMAIN miners
      BY <3>3, FindMinerFacts
    <3> QED BY <1>2, <1>4, <3>1, <3>3, <3>4, FindsByName
  <2>6. CASE Linked
    <3>1. \A l \in DOMAIN miners : Identities(miners[l]) \cap Identities(d) # {} => l = j
      <4> SUFFICES ASSUME NEW l \in DOMAIN miners, Identities(miners[l]) \cap Identities(d) # {}
                   PROVE  l = j
        OBVIOUS
      <4>1. PICK s \in Shows : Identities(miners[l]) = ShownIds(dev, s)
        BY <2>2
      <4>2. ShownIds(dev, s) \cap ShownIds(dev, t) # {}
        BY <2>1, <2>3, <2>6, <4>1 DEF Linked
      <4> QED BY <1>2, <2>3, <4>1, <4>2 DEF SplitInv, NamedOnce
    <3>2. id \notin DOMAIN miners
      BY <2>1, <2>4, <3>1
    <3>3. j \in found
      BY <2>5, <3>1, <3>2
    <3> QED BY <1>3, <3>3
  <2>7. CASE ~SQLite /\ Headed
    <3>1. j \in Identities(d) \/ id \in Identities(miners[j])
      BY <1>4, <2>1, <2>3, <2>7 DEF Headed
    <3>2. CASE j \in Identities(d)
      <4>1. j \in IdentityAliases(d)
        <5>1. Identities(d) \subseteq AllKeys(d)
          <6>1. Fielded(d)
            BY DEF Fielded, Detail
          <6>2. AllKeys(d) = {Key("ip", d.ip)}
             \cup (IF DistinctiveHostname(d.host) = None THEN {}
                   ELSE {Key("host", DistinctiveHostname(d.host)),
                         Key("bare", DistinctiveHostname(d.host))})
             \cup (IF NormalizeMAC(d.mac) = None THEN {} ELSE {Key("mac", NormalizeMAC(d.mac))})
             \cup (IF NormalizeSerial(d.serial) = None THEN {}
                   ELSE {Key("sn", NormalizeSerial(d.serial))})
            BY <6>1, AllKeysAre
          <6> QED BY <6>2 DEF Identities, Key
        <5> QED BY <3>2, <5>1 DEF AllKeys
      <4>2. j \in HistoryIds
        BY <1>2, <2>1, <2>7 DEF SplitInv, HistoryKept
      <4> QED BY <1>3, <2>7, <4>1, <4>2
    <3>3. CASE id \in Identities(miners[j])
      <4>1. \A l \in DOMAIN miners : id \in Identities(miners[l]) => l = j
        BY <1>2, <3>3 DEF SplitInv, NamedOnce
      <4>2. id \notin DOMAIN miners
        BY <2>4, <4>1
      <4>3. j \in found
        BY <2>5, <3>3, <4>1, <4>2
      <4> QED BY <1>3, <4>3
    <3> QED BY <3>1, <3>2, <3>3
  <2> QED BY <2>6, <2>7 DEF Coherent
<1> QED BY <1>2, <1>3, <1>4

\* What PollOkIsUpsert does not say: the search is used if it finds anything.
LEMMA PollOkUses ==
    ASSUME TypeOK, NEW dev \in Devices, NEW shown \in Shows, PollOk(dev, shown)
    PROVE  \E found \in SUBSET FindMiner(Report(dev, shown)) :
             /\ FindMiner(Report(dev, shown)) # {} => found # {}
             /\ UpsertOk(Report(dev, shown), found, dev)
<1> DEFINE d == Report(dev, shown)
<1>1. IF FindMiner(d) = {} THEN UpsertOk(d, {}, dev) ELSE \E i \in FindMiner(d) : UpsertOk(d, {i}, dev)
  BY DEF PollOk
<1> HIDE DEF d
<1>2. CASE FindMiner(d) = {}
  <2>1. {} \in SUBSET FindMiner(d) /\ UpsertOk(d, {}, dev)
    BY <1>1, <1>2
  <2> QED BY <1>2, <2>1 DEF d
<1>3. CASE FindMiner(d) # {}
  <2>1. PICK i \in FindMiner(d) : UpsertOk(d, {i}, dev)
    BY <1>1, <1>3
  <2>2. {i} \in SUBSET FindMiner(d) /\ {i} # {}
    OBVIOUS
  <2> QED BY <2>1, <2>2 DEF d
<1> QED BY <1>2, <1>3

\* Polls show names of the device's own.
LEMMA ShownNames ==
    ASSUME NEW dev \in Devices, NEW s \in Shows
    PROVE  ShownIds(dev, s) \subseteq Identities(NameOf[dev])
<1> DEFINE d == ShownAs(dev, s)
           n == NameOf[dev]
<1>1. /\ d.host \in {n.host, None} /\ d.mac \in {n.mac, None} /\ d.serial \in {n.serial, None}
  BY DEF ShownAs
<1> HIDE DEF d, n
<1>2. NormalizeSerial(None) = None
  BY DEF NormalizeSerial
<1>3. /\ DistinctiveHostname(d.host) \in {DistinctiveHostname(n.host), None}
      /\ NormalizeMAC(d.mac) \in {NormalizeMAC(n.mac), None}
      /\ NormalizeSerial(d.serial) \in {NormalizeSerial(n.serial), None}
  BY <1>1, <1>2, CanonicalNames
<1>4. Identities(d) \subseteq Identities(n)
  BY <1>3 DEF Identities, Key
<1> QED BY <1>4 DEF ShownIds, d, n

\* An Upsert leaves no other row with a name of its own.
LEMMA PollOkApart ==
    ASSUME OwnIdentities, Coherent, FleetInv, SplitInv,
           NEW dev \in Devices, NEW shown \in Shows, PollOk(dev, shown),
           NEW found \in SUBSET FindMiner(Report(dev, shown)),
           FindMiner(Report(dev, shown)) # {} => found # {},
           UpsertOk(Report(dev, shown), found, dev)
    PROVE  /\ Report(dev, shown) \in Detail
           /\ Identities(Report(dev, shown)) = ShownIds(dev, shown)
           /\ ShownIds(dev, shown) # {} => StableIDOf(Report(dev, shown)) = TopId(dev, shown)
           /\ \A j \in DOMAIN miners' : j # StableIDOf(Report(dev, shown)) =>
                /\ j \in DOMAIN miners /\ miners'[j] = miners[j]
                /\ j \notin found \cup ByIP(Report(dev, shown))
                /\ Identities(miners[j]) \cap Identities(Report(dev, shown)) = {}
<1> DEFINE d == Report(dev, shown)
<1>1. TypeOK /\ addr[dev] # None
  BY DEF FleetInv, PollOk
<1>2. d \in Detail
  BY <1>1, ReportType
<1>3. /\ Identities(d) = ShownIds(dev, shown)
      /\ ShownIds(dev, shown) # {} => StableIDOf(d) = TopId(dev, shown)
  BY <1>1, ReportNames
<1>4. \A e \in Devices, s \in Shows : ShownIds(e, s) \subseteq Identities(NameOf[e])
  BY ShownNames
<1>5. ShownIds(dev, shown) \subseteq Identities(NameOf[dev])
  BY <1>4
<1>6. /\ found \in SUBSET FindMiner(d) /\ (FindMiner(d) # {} => found # {}) /\ UpsertOk(d, found, dev)
  OBVIOUS
<1> HIDE DEF d
<1>7. ASSUME NEW j \in DOMAIN miners', j # StableIDOf(d)
      PROVE  /\ j \in DOMAIN miners /\ miners'[j] = miners[j]
             /\ j \notin found \cup ByIP(d)
             /\ Identities(miners[j]) \cap Identities(d) = {}
  BY <1>2, <1>3, <1>4, <1>5, <1>6, <1>7, KeptApart
<1> QED BY <1>2, <1>3, <1>7 DEF d

LEMMA PollOkSplit ==
    ASSUME OwnIdentities, Coherent, FleetInv, SplitInv,
           NEW dev \in Devices, NEW shown \in Shows, PollOk(dev, shown)
    PROVE  SplitInv'
<1> DEFINE d == Report(dev, shown)
           id == StableIDOf(d)
<1>0. TypeOK /\ now \in Nat
  BY DEF FleetInv, TypeOK
<1>1. PICK found \in SUBSET FindMiner(d) : /\ FindMiner(d) # {} => found # {}
                                           /\ UpsertOk(d, found, dev)
  BY <1>0, PollOkUses
<1>2. /\ d \in Detail /\ Identities(d) = ShownIds(dev, shown)
      /\ ShownIds(dev, shown) # {} => id = TopId(dev, shown)
      /\ \A j \in DOMAIN miners' : j # id =>
           /\ j \in DOMAIN miners /\ miners'[j] = miners[j]
           /\ j \notin found \cup ByIP(d)
           /\ Identities(miners[j]) \cap Identities(d) = {}
  BY <1>1, PollOkApart
<1> HIDE DEF d
<1>3. id \in DOMAIN miners' /\ miners'[id] = RowOf(d, now)
  BY <1>1 DEF UpsertOk
<1>4. Identities(miners'[id]) = Identities(d)
  BY <1>0, <1>2, <1>3, RowNames
<1>5. ~SQLite => /\ [id |-> id, time |-> now, dev |-> dev] \in samples'
                 /\ Refiled((found \cup ByIP(d) \cup IdentityAliases(d)) \ {id}, id) \subseteq samples'
  BY <1>1 DEF UpsertOk
<1>6. ~SQLite => \A j \in DOMAIN miners' : j # id => j \notin IdentityAliases(d) \cap HistoryIds
  BY <1>1 DEF UpsertOk
<1> HIDE DEF id
<1>7. RowsShown'
  <2> SUFFICES ASSUME NEW i \in DOMAIN miners', Identities(miners'[i]) # {}
               PROVE  \E e \in Devices, s \in Shows :
                        Identities(miners'[i]) = ShownIds(e, s) /\ i = TopId(e, s)
    BY DEF RowsShown, Identities, ShownIds, ShownAs, TopId, StableIDOf
  <2>1. CASE i = id
    BY <1>2, <1>4, <2>1
  <2>2. CASE i # id
    <3>1. i \in DOMAIN miners /\ miners'[i] = miners[i]
      BY <1>2, <2>2
    <3> QED BY <3>1 DEF SplitInv, RowsShown
  <2> QED BY <2>1, <2>2
<1>8. NamedOnce'
  <2> SUFFICES ASSUME NEW i \in DOMAIN miners', NEW j \in DOMAIN miners',
                      Identities(miners'[i]) \cap Identities(miners'[j]) # {}
               PROVE  i = j
    BY DEF NamedOnce, Identities
  <2>1. CASE i # id /\ j # id
    <3>1. /\ i \in DOMAIN miners /\ miners'[i] = miners[i]
          /\ j \in DOMAIN miners /\ miners'[j] = miners[j]
      BY <1>2, <2>1
    <3> QED BY <3>1 DEF SplitInv, NamedOnce
  <2>2. CASE i = id /\ j # id
    BY <1>2, <1>4, <2>2
  <2>3. CASE i # id /\ j = id
    BY <1>2, <1>4, <2>3
  <2> QED BY <2>1, <2>2, <2>3
<1>9. HistoryKept'
  <2>0. ~SQLite => unsaved' = {}
    BY <1>1 DEF SplitInv, HistoryKept, UpsertOk
  <2> SUFFICES ASSUME ~SQLite, NEW i \in DOMAIN miners', Identities(miners'[i]) # {}
               PROVE  \E s \in samples' : s.id = i
    BY <2>0 DEF HistoryKept, HistoryIds, Identities
  <2>1. CASE i = id
    <3> DEFINE s == [id |-> id, time |-> now, dev |-> dev]
    <3>1. s \in samples' /\ s.id = i
      BY <1>5, <2>1
    <3> QED BY <3>1
  <2>2. CASE i # id
    <3>1. i \in DOMAIN miners /\ Identities(miners[i]) # {} /\ i \notin found \cup ByIP(d)
      BY <1>2, <2>2
    <3>2. i \in HistoryIds
      BY <3>1 DEF SplitInv, HistoryKept
    <3>3. i \notin IdentityAliases(d)
      BY <1>6, <2>2, <3>2
    <3>4. PICK s \in samples : s.id = i
      BY <3>2 DEF HistoryIds
    <3> DEFINE moved == (found \cup ByIP(d) \cup IdentityAliases(d)) \ {id}
               t == [id |-> IF s.id \in moved THEN id ELSE s.id, time |-> s.time, dev |-> s.dev]
    <3>5. t \in Refiled(moved, id)
      BY DEF Refiled
    <3>6. s.id \notin moved
      BY <3>1, <3>3, <3>4
    <3>7. t.id = i
      BY <3>4, <3>6
    <3>8. t \in samples'
      BY <1>5, <3>5
    <3> QED BY <3>7, <3>8
  <2> QED BY <2>1, <2>2
<1> QED BY <1>7, <1>8, <1>9 DEF SplitInv

\* A failed poll starts a row without a name or marks one, names untouched.
LEMMA UpsertErrorRows ==
    ASSUME FleetInv, NEW a \in Addresses, UpsertError(Failure(a))
    PROVE  /\ \A i \in DOMAIN miners' :
                \/ /\ i \in DOMAIN miners /\ Identities(miners'[i]) = Identities(miners[i])
                   /\ IdentityAliases(miners'[i]) = IdentityAliases(miners[i])
                \/ Identities(miners'[i]) = {} /\ IdentityAliases(miners'[i]) = {}
           /\ UNCHANGED <<samples, renames, unsaved>>
<1> DEFINE f == Failure(a)
           key == StableIDOf(f)
<1>0. /\ f \in Detail /\ f.ip = a /\ now \in Nat /\ IdentityAliases(f) = {}
  BY FailureFacts DEF FleetInv, TypeOK
<1>1. ASSUME NEW i \in DOMAIN miners'
      PROVE  \/ /\ i \in DOMAIN miners /\ Identities(miners'[i]) = Identities(miners[i])
                /\ IdentityAliases(miners'[i]) = IdentityAliases(miners[i])
             \/ Identities(miners'[i]) = {} /\ IdentityAliases(miners'[i]) = {}
  <2>1. CASE \E j \in FindMiner(f) : miners' = [miners EXCEPT ![j] = Marked(@, f.ip)]
    <3>1. PICK j \in FindMiner(f) : miners' = [miners EXCEPT ![j] = Marked(@, f.ip)]
      BY <2>1
    <3>2. j \in DOMAIN miners /\ miners[j].ip = a /\ miners[j] \in Row
      BY <3>1, FailureFinds DEF FleetInv, TypeOK
    <3>3. i \in DOMAIN miners /\ miners'[i] = IF i = j THEN Marked(miners[j], a) ELSE miners[i]
      BY <1>0, <1>1, <3>1, <3>2
    <3>4. /\ miners'[i].ip = miners[i].ip /\ miners'[i].host = miners[i].host
          /\ miners'[i].mac = miners[i].mac /\ miners'[i].serial = miners[i].serial
      BY <3>2, <3>3, MarkedRow
    <3> QED BY <3>3, <3>4 DEF Identities, IdentityAliases, StableIDOf
  <2>2. CASE miners' = [j \in DOMAIN miners \cup {key} |->
                          IF j = key THEN RowOf(f, now) ELSE miners[j]]
    <3>1. CASE i = key
      <4>1. miners'[i] = RowOf(f, now)
        BY <2>2, <3>1
      <4>2. Identities(miners'[i]) = Identities(f) /\ IdentityAliases(miners'[i]) = {}
        BY <1>0, <4>1, RowNames, RowFacts
      <4>3. Identities(f) = {}
        <5>1. f.host = None /\ f.mac = None /\ f.serial = None /\ NormalizeSerial(None) = None
          BY DEF Failure, NormalizeSerial
        <5>2. \A k \in Identities(f) : FALSE
          BY <5>1, CanonicalNames, IdentitiesAre
        <5> QED BY <5>2
      <4> QED BY <4>2, <4>3
    <3>2. CASE i # key
      BY <1>1, <2>2, <3>2
    <3> QED BY <3>1, <3>2
  <2> QED BY <2>1, <2>2 DEF UpsertError
<1> QED BY <1>1 DEF UpsertError

LEMMA UpsertErrorSplit ==
    ASSUME FleetInv, SplitInv, NEW a \in Addresses, UpsertError(Failure(a))
    PROVE  SplitInv'
<1>1. /\ \A i \in DOMAIN miners' :
           Identities(miners'[i]) # {} =>
             i \in DOMAIN miners /\ Identities(miners'[i]) = Identities(miners[i])
      /\ UNCHANGED <<samples, renames, unsaved>>
  BY UpsertErrorRows
<1>2. RowsShown'
  BY <1>1 DEF SplitInv, RowsShown, Identities, ShownIds, ShownAs, TopId, StableIDOf
<1>3. HistoryKept'
  BY <1>1 DEF SplitInv, HistoryKept, HistoryIds, Identities
<1>4. NamedOnce'
  <2> SUFFICES ASSUME NEW i \in DOMAIN miners', NEW j \in DOMAIN miners',
                      Identities(miners'[i]) \cap Identities(miners'[j]) # {}
               PROVE  i = j
    BY DEF NamedOnce, Identities
  <2> QED BY <1>1 DEF SplitInv, NamedOnce
<1> QED BY <1>2, <1>3, <1>4 DEF SplitInv

\* No other step makes a row or takes the history of one.
LEMMA OtherSplit ==
    ASSUME FleetInv, SplitInv,
           \/ \E old \in renames : RenameMetrics(old) \/ RenameFails(old)
           \/ InsertSamples \/ InsertFails \/ MarkPoll
           \/ Prune \/ Restart \/ Tick \/ UNCHANGED vars
           \/ \E dev \in Devices : Lease(dev)
    PROVE  SplitInv'
<1>1. /\ DOMAIN miners' \subseteq DOMAIN miners
      /\ \A i \in DOMAIN miners' : miners'[i] = miners[i]
  BY DEF RenameMetrics, RenameFails, InsertSamples, InsertFails, MarkPoll, Prune, Restart, Tick,
         Lease, vars, store
<1>2. RowsShown'
  BY <1>1 DEF SplitInv, RowsShown, Identities, ShownIds, ShownAs, TopId, StableIDOf
<1>3. NamedOnce'
  BY <1>1 DEF SplitInv, NamedOnce, Identities
<1>4. HistoryKept'
  <2> SUFFICES ASSUME ~SQLite PROVE HistoryKept'
    BY DEF HistoryKept
  <2>1. unsaved = {} /\ renames = {}
    BY DEF SplitInv, HistoryKept, FleetInv, TypeOK
  <2>2. unsaved' = {} /\ (samples' = samples \/ DOMAIN miners' = {})
    BY <2>1 DEF RenameMetrics, RenameFails, InsertSamples, InsertFails, MarkPoll, Prune, Restart,
                Tick, Lease, vars, store
  <2> QED BY <1>1, <2>2 DEF SplitInv, HistoryKept, HistoryIds, Identities
<1> QED BY <1>2, <1>3, <1>4 DEF SplitInv

LEMMA StoreSplit ==
    ASSUME OwnIdentities, Coherent
    PROVE  Spec => []SplitInv
<1>1. Init => SplitInv
  BY DEF Init, SplitInv, RowsShown, HistoryKept, NamedOnce
<1>2. FleetInv /\ SplitInv /\ [Next]_vars => SplitInv'
  <2> SUFFICES ASSUME FleetInv, SplitInv, [Next]_vars PROVE SplitInv'
    OBVIOUS
  <2>1. ASSUME NEW dev \in Devices, NEW shown \in Shows, PollOk(dev, shown) PROVE SplitInv'
    BY <2>1, PollOkSplit
  <2>2. ASSUME NEW a \in Addresses, PollFail(a) PROVE SplitInv'
    BY <2>2, UpsertErrorSplit DEF PollFail
  <2> QED BY <2>1, <2>2, OtherSplit DEF Next
<1> QED BY <1>1, <1>2, StoreFleet, PTL DEF Spec

\* If no two devices share a name, and either any two polls that name a device have a name
\* in common, or the store is in memory and of two polls with a name in common one shows
\* what the other is filed under, no two rows share a hostname, a MAC or a serial:
\* whatever addresses devices come to share, and wherever crashes and failures fall
\* (findMinerLocked, Upsert).
THEOREM StoreOneRow ==
    ASSUME OwnIdentities, Coherent
    PROVE  Spec => []OneRowPerIdentity
<1>1. FleetInv /\ SplitInv => OneRowPerIdentity
  <2> SUFFICES ASSUME FleetInv, SplitInv, NEW i \in DOMAIN miners, NEW j \in DOMAIN miners,
                      \/ /\ DistinctiveHostname(miners[i].host) = DistinctiveHostname(miners[j].host)
                         /\ DistinctiveHostname(miners[i].host) # None
                      \/ /\ NormalizeMAC(miners[i].mac) = NormalizeMAC(miners[j].mac)
                         /\ NormalizeMAC(miners[i].mac) # None
                      \/ /\ NormalizeSerial(miners[i].serial) = NormalizeSerial(miners[j].serial)
                         /\ miners[i].serial # None
               PROVE  i = j
    BY DEF OneRowPerIdentity
  <2>1. miners[i].serial \in Serials \cup {None} /\ miners[j].serial \in Serials \cup {None}
    BY DEF FleetInv, TypeOK, Row
  <2>2. Identities(miners[i]) \cap Identities(miners[j]) # {}
    BY <2>1, SharedNames
  <2> QED BY <2>2 DEF SplitInv, NamedOnce
<1> QED BY <1>1, StoreFleet, StoreSplit, PTL

-----------------------------------------------------------------------------
(* Where the history is *)

\* Samples under an older key of a row are about to be renamed, and the Upsert under way
\* makes no new ones.
Filed ==
    \A i \in DOMAIN miners :
        /\ IdentityAliases(miners[i]) \cap HistoryIds \subseteq renames
        /\ \A s \in unsaved : s.id \notin IdentityAliases(miners[i])

\* The ids with history after samples are refiled.
LEMMA RefiledIds ==
    ASSUME NEW from, NEW to, NEW s \in Refiled(from, to)
    PROVE  s.id = to \/ (s.id \in HistoryIds /\ s.id \notin from)
<1>1. PICK t \in samples : s = [id |-> IF t.id \in from THEN to ELSE t.id, time |-> t.time, dev |-> t.dev]
  BY DEF Refiled
<1>2. s.id = IF t.id \in from THEN to ELSE t.id
  BY <1>1
<1>3. t.id \in HistoryIds
  BY DEF HistoryIds
<1> QED BY <1>2, <1>3

\* An older key of a report is a name of it, its bare hostname or its address.
LEMMA AliasKinds ==
    ASSUME NEW d, Fielded(d), NEW k \in IdentityAliases(d)
    PROVE  /\ k # StableIDOf(d)
           /\ k \in Identities(d) \/ k.kind = "bare" \/ k = Key("ip", d.ip)
<1>1. k \in AllKeys(d) /\ k # StableIDOf(d)
  BY DEF AllKeys, IdentityAliases
<1>2. \/ k = Key("ip", d.ip)
      \/ /\ DistinctiveHostname(d.host) # None
         /\ \/ k = Key("host", DistinctiveHostname(d.host))
            \/ k = Key("bare", DistinctiveHostname(d.host))
      \/ NormalizeMAC(d.mac) # None /\ k = Key("mac", NormalizeMAC(d.mac))
      \/ NormalizeSerial(d.serial) # None /\ k = Key("sn", NormalizeSerial(d.serial))
  BY <1>1, AllKeysAre
<1> QED BY <1>1, <1>2, IdentitiesAre DEF Key

LEMMA PollOkFiled ==
    ASSUME OwnIdentities, Coherent, FleetInv, SplitInv, Filed,
           NEW dev \in Devices, NEW shown \in Shows, PollOk(dev, shown)
    PROVE  Filed'
<1> DEFINE d == Report(dev, shown)
           id == StableIDOf(d)
<1>0. TypeOK /\ now \in Nat /\ renames = {} /\ unsaved = {}
  BY DEF FleetInv, TypeOK, PollOk, Idle
<1>1. PICK found \in SUBSET FindMiner(d) : /\ FindMiner(d) # {} => found # {}
                                           /\ UpsertOk(d, found, dev)
  BY <1>0, PollOkUses
<1>2. /\ d \in Detail
      /\ \A j \in DOMAIN miners' : j # id =>
           /\ j \in DOMAIN miners /\ miners'[j] = miners[j]
           /\ j \notin found \cup ByIP(d)
           /\ Identities(miners[j]) \cap Identities(d) = {}
  BY <1>1, PollOkApart
<1> HIDE DEF d
<1> DEFINE moved == (found \cup ByIP(d) \cup IdentityAliases(d)) \ {id}
           sample == [id |-> id, time |-> now, dev |-> dev]
<1>3. miners'[id] = RowOf(d, now)
  BY <1>1 DEF UpsertOk
<1>4. IdentityAliases(miners'[id]) = IdentityAliases(d)
  BY <1>0, <1>2, <1>3, RowFacts
<1>5. Fielded(d) /\ d.serial \in Serials \cup {None}
  BY <1>2 DEF Detail, Fielded
<1>6. IF SQLite THEN renames' = moved /\ unsaved' = {sample} /\ samples' = samples
      ELSE samples' = Refiled(moved, id) \cup {sample} /\ renames' = {} /\ unsaved' = {}
  BY <1>0, <1>1 DEF UpsertOk
<1>7. IdentityAliases(d) \subseteq moved
  BY <1>5, AliasKinds
<1> HIDE DEF moved
<1>8. ASSUME NEW j \in DOMAIN miners', j # id
      PROVE  id \notin IdentityAliases(miners'[j])
  <2>1. /\ j \in DOMAIN miners /\ miners'[j] = miners[j] /\ miners[j].ip # d.ip
        /\ Identities(miners[j]) \cap Identities(d) = {} /\ Fielded(miners[j])
    BY <1>2, <1>8 DEF ByIP, FleetInv, TypeOK, Row, Fielded
  <2> SUFFICES ASSUME id \in IdentityAliases(miners[j]) PROVE FALSE
    BY <2>1
  <2>2. id \in Identities(miners[j]) \/ id.kind = "bare" \/ id = Key("ip", miners[j].ip)
    BY <2>1, AliasKinds
  <2>3. id \in Identities(d) \/ id = Key("ip", d.ip)
    BY <1>5, TopName
  <2>4. \A k, n : Key(k, n).kind = k /\ Key(k, n).name = n
    BY DEF Key
  <2> HIDE DEF id
  <2> QED BY <2>1, <2>2, <2>3, <2>4, IdentitiesAre
<1>9. ASSUME NEW i \in DOMAIN miners'
      PROVE  id \notin IdentityAliases(miners'[i])
  <2>1. CASE i = id
    BY <1>4, <1>5, <2>1, AliasKinds
  <2> QED BY <1>8, <2>1
<1>10. ASSUME NEW i \in DOMAIN miners'
       PROVE  IdentityAliases(miners'[i]) \cap HistoryIds \subseteq moved
  <2>1. CASE i = id
    BY <1>4, <1>7, <2>1
  <2>2. CASE i # id
    <3>1. i \in DOMAIN miners /\ miners'[i] = miners[i]
      BY <1>2, <2>2
    <3> QED BY <1>0, <3>1 DEF Filed
  <2> QED BY <2>1, <2>2
<1> HIDE DEF id
<1>11. CASE SQLite
  <2>1. HistoryIds' = HistoryIds
    BY <1>6, <1>11 DEF HistoryIds
  <2>2. \A s \in unsaved' : s.id = id
    BY <1>6, <1>11
  <2> SUFFICES ASSUME NEW i \in DOMAIN miners'
               PROVE  /\ IdentityAliases(miners'[i]) \cap HistoryIds' \subseteq renames'
                      /\ \A s \in unsaved' : s.id \notin IdentityAliases(miners'[i])
    BY DEF Filed, IdentityAliases, StableIDOf
  <2> QED BY <1>6, <1>9, <1>10, <1>11, <2>1, <2>2
<1>12. CASE ~SQLite
  <2>1. ASSUME NEW k \in HistoryIds' PROVE k = id \/ (k \in HistoryIds /\ k \notin moved)
    <3>1. PICK s \in samples' : s.id = k
      BY <2>1 DEF HistoryIds
    <3>2. CASE s \in Refiled(moved, id)
      BY <3>1, <3>2, RefiledIds
    <3>3. CASE s = sample
      BY <3>1, <3>3
    <3> QED BY <1>6, <1>12, <3>1, <3>2, <3>3
  <2> SUFFICES ASSUME NEW i \in DOMAIN miners'
               PROVE  /\ IdentityAliases(miners'[i]) \cap HistoryIds' \subseteq renames'
                      /\ \A s \in unsaved' : s.id \notin IdentityAliases(miners'[i])
    BY DEF Filed, IdentityAliases, StableIDOf
  <2> QED BY <1>6, <1>9, <1>10, <1>12, <2>1
<1> QED BY <1>11, <1>12

\* A rename takes the history from under the older key.
LEMMA RenameFiled ==
    ASSUME Filed, NEW old \in renames, RenameMetrics(old)
    PROVE  Filed'
<1>1. PICK u \in unsaved : samples' = Refiled({old}, u.id)
  BY DEF RenameMetrics
<1>2. miners' = miners /\ unsaved' = unsaved /\ renames' = renames \ {old}
  BY DEF RenameMetrics
<1>3. ASSUME NEW k \in HistoryIds' PROVE k = u.id \/ (k \in HistoryIds /\ k # old)
  <2>1. PICK s \in samples' : s.id = k
    BY <1>3 DEF HistoryIds
  <2> QED BY <1>1, <2>1, RefiledIds
<1> SUFFICES ASSUME NEW i \in DOMAIN miners'
             PROVE  /\ IdentityAliases(miners'[i]) \cap HistoryIds' \subseteq renames'
                    /\ \A s \in unsaved' : s.id \notin IdentityAliases(miners'[i])
  BY DEF Filed, IdentityAliases, StableIDOf
<1> QED BY <1>2, <1>3 DEF Filed

LEMMA OtherFiled ==
    ASSUME ~(SQLite /\ SQLFaults), FleetInv, SplitInv, Filed,
           \/ \E a \in Addresses : PollFail(a)
           \/ \E old \in renames : RenameFails(old)
           \/ InsertSamples \/ InsertFails \/ MarkPoll
           \/ Prune \/ Restart \/ Tick \/ UNCHANGED vars
           \/ \E dev \in Devices : Lease(dev)
    PROVE  Filed'
<1>0. (unsaved = {} => renames = {}) /\ (~SQLite => unsaved = {} /\ renames = {})
  BY DEF SplitInv, HistoryKept, FleetInv, TypeOK
<1>1. ASSUME NEW a \in Addresses, PollFail(a) PROVE Filed'
  <2>1. /\ \A i \in DOMAIN miners' :
             \/ i \in DOMAIN miners /\ IdentityAliases(miners'[i]) = IdentityAliases(miners[i])
             \/ IdentityAliases(miners'[i]) = {}
        /\ UNCHANGED <<samples, renames, unsaved>>
    BY <1>1, UpsertErrorRows DEF PollFail
  <2>2. HistoryIds' = HistoryIds
    BY <2>1 DEF HistoryIds
  <2> SUFFICES ASSUME NEW i \in DOMAIN miners'
               PROVE  /\ IdentityAliases(miners'[i]) \cap HistoryIds' \subseteq renames'
                      /\ \A s \in unsaved' : s.id \notin IdentityAliases(miners'[i])
    BY DEF Filed, IdentityAliases, StableIDOf
  <2> QED BY <2>1, <2>2 DEF Filed
<1>2. CASE InsertSamples
  <2>1. /\ miners' = miners /\ unsaved' = {} /\ renames' = renames
        /\ samples' = samples \cup unsaved
    BY <1>2 DEF InsertSamples
  <2>2. \A k \in HistoryIds' : k \in HistoryIds \/ \E s \in unsaved : k = s.id
    BY <2>1 DEF HistoryIds
  <2> SUFFICES ASSUME NEW i \in DOMAIN miners'
               PROVE  IdentityAliases(miners'[i]) \cap HistoryIds' \subseteq renames'
    BY <2>1 DEF Filed, IdentityAliases, StableIDOf
  <2> QED BY <2>1, <2>2 DEF Filed
<1>3. CASE \/ MarkPoll \/ Prune \/ Restart \/ Tick \/ UNCHANGED vars
           \/ \E dev \in Devices : Lease(dev)
  <2>1. /\ DOMAIN miners' \subseteq DOMAIN miners
        /\ \A i \in DOMAIN miners' : miners'[i] = miners[i]
        /\ DOMAIN miners' # {} => /\ samples' \subseteq samples
                                  /\ renames' = renames /\ unsaved' = unsaved
    BY <1>3 DEF MarkPoll, Prune, Restart, Tick, Lease, vars, store
  <2>2. DOMAIN miners' # {} => HistoryIds' \subseteq HistoryIds
    BY <2>1 DEF HistoryIds
  <2> SUFFICES ASSUME NEW i \in DOMAIN miners'
               PROVE  /\ IdentityAliases(miners'[i]) \cap HistoryIds' \subseteq renames'
                      /\ \A s \in unsaved' : s.id \notin IdentityAliases(miners'[i])
    BY DEF Filed, IdentityAliases, StableIDOf
  <2> QED BY <2>1, <2>2 DEF Filed
<1>4. ~InsertFails /\ ~(\E old \in renames : RenameFails(old))
  BY <1>0 DEF InsertFails, RenameFails
<1> QED BY <1>1, <1>2, <1>3, <1>4

\* Under the same conditions, and if no transaction fails, the history of every row is
\* where its chart looks for it whenever no Upsert is under way: wherever a crash stops a
\* rename, and whatever addresses devices come to share (rekeyLocked, renameMetrics).
THEOREM StoreHistoryUnderRow ==
    ASSUME OwnIdentities, Coherent, ~(SQLite /\ SQLFaults)
    PROVE  Spec => []HistoryUnderRow
<1>1. Init => Filed
  BY DEF Init, Filed
<1>2. FleetInv /\ SplitInv /\ Filed /\ [Next]_vars => Filed'
  <2> SUFFICES ASSUME FleetInv, SplitInv, Filed, [Next]_vars PROVE Filed'
    OBVIOUS
  <2>1. ASSUME NEW dev \in Devices, NEW shown \in Shows, PollOk(dev, shown) PROVE Filed'
    BY <2>1, PollOkFiled
  <2>2. ASSUME NEW old \in renames, RenameMetrics(old) PROVE Filed'
    BY <2>2, RenameFiled
  <2> QED BY <2>1, <2>2, OtherFiled DEF Next
<1>3. FleetInv /\ Filed => HistoryUnderRow
  BY DEF FleetInv, TypeOK, Filed, HistoryUnderRow, Idle
<1> QED BY <1>1, <1>2, <1>3, StoreFleet, StoreSplit, PTL DEF Spec

-----------------------------------------------------------------------------
(* The fleet as the store promises it *)

\* The state as the promise has it.
Shown == <<now, lastOk, Listed, Named, TimesOf(samples), TimesOf(unsaved)>>

\* Device -> times of the samples measured on it.
ByDevice(S) == [dev \in Devices |-> {s.time : s \in {u \in S : u.dev = dev}}]

\* Samples that are under ids of their devices are found by device.
LEMMA TimesByDevice ==
    ASSUME OwnNames, NEW S \in SUBSET Sample, \A s \in S : s.id \in OwnedIds(s.dev)
    PROVE  TimesOf(S) = ByDevice(S)
<1>1. ASSUME NEW dev \in Devices, NEW u \in S PROVE u.id \in OwnedIds(dev) <=> u.dev = dev
  <2>1. u.dev \in Devices /\ u.id \in OwnedIds(u.dev)
    BY DEF Sample
  <2> QED BY <2>1 DEF OwnNames
<1>2. \A dev \in Devices : {u \in S : u.id \in Owned[dev]} = {u \in S : u.dev = dev}
  BY <1>1 DEF Owned
<1> QED BY <1>2 DEF TimesOf, ByDevice

\* All samples of the store are, before and after a step.
LEMMA TimesOwned ==
    ASSUME OwnNames, OwnInv, OwnInv'
    PROVE  /\ TimesOf(samples) = ByDevice(samples) /\ TimesOf(unsaved) = ByDevice(unsaved)
           /\ TimesOf(samples)' = ByDevice(samples') /\ TimesOf(unsaved)' = ByDevice(unsaved')
<1>1. /\ TimesOf(samples) = ByDevice(samples) /\ TimesOf(unsaved) = ByDevice(unsaved)
  BY TimesByDevice DEF OwnInv, SamplesOwned, FleetInv, TypeOK
<1>2. samples' \in SUBSET Sample /\ unsaved' \in SUBSET Sample
  BY DEF OwnInv, FleetInv, TypeOK, Sample, MinerId
<1>3. \A s \in samples' \cup unsaved' : s.id \in OwnedIds(s.dev)
  BY DEF OwnInv, SamplesOwned, OwnedIds
<1>4. TimesOf(samples') = ByDevice(samples') /\ TimesOf(unsaved') = ByDevice(unsaved')
  BY <1>2, <1>3, TimesByDevice
<1> QED BY <1>1, <1>4 DEF TimesOf, Owned, OwnedIds

\* Filing samples under another id does not change whose they are.
LEMMA RefiledTimes ==
    ASSUME NEW from, NEW to
    PROVE  ByDevice(Refiled(from, to)) = ByDevice(samples)
<1> DEFINE R == Refiled(from, to)
           at(u) == [id |-> IF u.id \in from THEN to ELSE u.id, time |-> u.time, dev |-> u.dev]
<1>1. R = {at(u) : u \in samples}
  BY DEF Refiled
<1>2. \A u : at(u).time = u.time /\ at(u).dev = u.dev
  OBVIOUS
<1> HIDE DEF R, at
<1>3. ASSUME NEW dev
      PROVE  {s.time : s \in {u \in R : u.dev = dev}} = {s.time : s \in {u \in samples : u.dev = dev}}
  BY <1>1, <1>2
<1>4. ByDevice(R) = ByDevice(samples)
  BY <1>3 DEF ByDevice
<1> QED BY <1>4 DEF R

\* One more sample.
LEMMA SampleTimes ==
    ASSUME NEW S, NEW x, x.dev \in Devices
    PROVE  /\ ByDevice({}) = Promise!Nothing
           /\ ByDevice(S \cup {x}) = [ByDevice(S) EXCEPT ![x.dev] = @ \cup {x.time}]
           /\ ByDevice({x}) = [Promise!Nothing EXCEPT ![x.dev] = {x.time}]
<1>1. ByDevice({}) = Promise!Nothing
  BY DEF ByDevice, Promise!Nothing
<1>2. ASSUME NEW T PROVE ByDevice(T \cup {x}) = [ByDevice(T) EXCEPT ![x.dev] = @ \cup {x.time}]
  <2>1. ASSUME NEW e \in Devices
        PROVE  ByDevice(T \cup {x})[e] = ByDevice(T)[e] \cup (IF e = x.dev THEN {x.time} ELSE {})
    BY <2>1 DEF ByDevice
  <2> DEFINE f == ByDevice(T)
             g == ByDevice(T \cup {x})
  <2>2. f = [e \in Devices |-> f[e]] /\ g = [e \in Devices |-> g[e]]
    BY DEF ByDevice
  <2>3. ASSUME NEW e \in Devices PROVE g[e] = IF e = x.dev THEN f[e] \cup {x.time} ELSE f[e]
    <3>1. g[e] = f[e] \cup (IF e = x.dev THEN {x.time} ELSE {})
      BY <2>1
    <3> HIDE DEF f, g
    <3> QED BY <3>1
  <2> HIDE DEF f, g
  <2>4. g = [f EXCEPT ![x.dev] = @ \cup {x.time}]
    BY <2>2, <2>3
  <2> QED BY <2>4 DEF f, g
<1>3. ByDevice({} \cup {x}) = [ByDevice({}) EXCEPT ![x.dev] = @ \cup {x.time}]
  BY <1>2
<1>4. ByDevice({x}) = [Promise!Nothing EXCEPT ![x.dev] = {x.time}]
  <2>1. {} \cup {x} = {x}
    OBVIOUS
  <2>2. Promise!Nothing[x.dev] = {}
    BY DEF Promise!Nothing
  <2>3. ByDevice({x}) = [Promise!Nothing EXCEPT ![x.dev] = @ \cup {x.time}]
    BY <1>1, <1>3, <2>1
  <2>4. Promise!Nothing[x.dev] \cup {x.time} = {x.time}
    BY <2>2
  <2> QED BY <2>3, <2>4
<1> QED BY <1>1, <1>2, <1>4

\* An answer changes the rows of its device only, and leaves it one.
LEMMA AnswerRows ==
    ASSUME OwnNames, OwnInv, NEW dev \in Devices, NEW d \in Detail,
           AllKeys(d) \subseteq OwnedIds(dev), NEW found \in SUBSET FindMiner(d),
           UpsertOk(d, found, dev)
    PROVE  /\ RowsOf(dev)' # {}
           /\ \A e \in Devices \ {dev} : RowsOf(e)' = RowsOf(e)
<1>1. /\ StableIDOf(d) \in OwnedIds(dev) /\ StableIDOf(d) \in DOMAIN miners'
      /\ DOMAIN miners' \subseteq DOMAIN miners \cup {StableIDOf(d)}
  BY DEF AllKeys, UpsertOk
<1>2. \A e \in Devices : RowsOf(e) = OwnedIds(e) \cap DOMAIN miners
  BY DEF RowsOf, Owned
<1>3. \A e \in Devices : RowsOf(e)' = OwnedIds(e) \cap DOMAIN miners'
  BY DEF RowsOf, Owned, OwnedIds
<1>4. ASSUME NEW e \in Devices \ {dev}, NEW i \in OwnedIds(e)
      PROVE  i \in DOMAIN miners' <=> i \in DOMAIN miners
  <2>1. i \notin OwnedIds(dev)
    BY <1>4 DEF OwnNames
  <2>2. i \in DOMAIN miners => i \in DOMAIN miners'
    BY <2>1, UpsertOkTouches
  <2> QED BY <1>1, <2>1, <2>2
<1>5. RowsOf(dev)' # {}
  BY <1>1, <1>3
<1>6. ASSUME NEW e \in Devices \ {dev} PROVE RowsOf(e)' = RowsOf(e)
  <2>1. OwnedIds(e) \cap DOMAIN miners' = OwnedIds(e) \cap DOMAIN miners
    BY <1>4
  <2> QED BY <1>2, <1>3, <2>1
<1> QED BY <1>5, <1>6

\* An answer is one in the promise.
LEMMA AnswerStep ==
    ASSUME OwnNames, OwnInv, OwnInv', Idle, NEW dev \in Devices, NEW d \in Detail,
           AllKeys(d) \subseteq OwnedIds(dev), NEW found \in SUBSET FindMiner(d),
           UpsertOk(d, found, dev), now' = now
    PROVE  Promise!Answer(dev)
<1> DEFINE sample == [id |-> StableIDOf(d), time |-> now, dev |-> dev]
<1>1. sample.time = now /\ sample.dev = dev
  OBVIOUS
<1>2. unsaved = {} /\ lastOk' = [lastOk EXCEPT ![dev] = now]
  BY DEF Idle, UpsertOk
<1>3. /\ IF SQLite THEN samples' = samples /\ unsaved' = {sample}
         ELSE unsaved' = unsaved /\ \E moved : samples' = Refiled(moved, StableIDOf(d)) \cup {sample}
  BY DEF UpsertOk
<1> HIDE DEF sample
<1>4. /\ TimesOf(unsaved) = Promise!Nothing
      /\ TimesOf(samples) = ByDevice(samples)
      /\ TimesOf(samples)' = ByDevice(samples') /\ TimesOf(unsaved)' = ByDevice(unsaved')
  BY <1>1, <1>2, TimesOwned, SampleTimes
<1>6. /\ Listed' = Listed \cup {dev}
      /\ Named' \in {Named \cup {dev}, Named \ {dev}}
  <2>1. /\ RowsOf(dev)' # {}
        /\ \A e \in Devices \ {dev} : RowsOf(e)' = RowsOf(e)
    BY AnswerRows
  <2> QED BY <2>1 DEF Listed, Named
<1>7. CASE SQLite
  <2>1. samples' = samples /\ unsaved' = {sample}
    BY <1>3, <1>7
  <2>2. ByDevice({sample}) = [Promise!Nothing EXCEPT ![dev] = {now}]
    BY <1>1, SampleTimes
  <2>3. TimesOf(samples)' = TimesOf(samples) /\ TimesOf(unsaved)' = [TimesOf(unsaved) EXCEPT ![dev] = {now}]
    BY <1>4, <2>1, <2>2
  <2> QED BY <1>2, <1>4, <1>6, <1>7, <2>3 DEF Promise!Answer
<1>8. CASE ~SQLite
  <2>1. PICK moved : samples' = Refiled(moved, StableIDOf(d)) \cup {sample}
    BY <1>3, <1>8
  <2>2. unsaved' = unsaved
    BY <1>3, <1>8
  <2>3. ByDevice(samples') = [ByDevice(Refiled(moved, StableIDOf(d))) EXCEPT ![dev] = @ \cup {now}]
    BY <1>1, <2>1, SampleTimes
  <2>4. ByDevice(Refiled(moved, StableIDOf(d))) = ByDevice(samples)
    BY RefiledTimes
  <2>5. TimesOf(unsaved)' = TimesOf(unsaved)
    BY <2>2, TimesOwned
  <2>6. TimesOf(samples)' = [TimesOf(samples) EXCEPT ![dev] = @ \cup {now}]
    BY <1>4, <2>3, <2>4
  <2> QED BY <1>2, <1>4, <1>6, <1>8, <2>5, <2>6 DEF Promise!Answer
<1> QED BY <1>7, <1>8

\* No failed poll takes a row, and it adds none but one under the address.
LEMMA FailRows ==
    ASSUME OwnInv, NEW a \in Addresses, UpsertError(Failure(a))
    PROVE  DOMAIN miners' = DOMAIN miners \/ DOMAIN miners' = DOMAIN miners \cup {Key("ip", a)}
BY FailureFacts DEF UpsertError

\* A failed poll is one in the promise, or nothing.
LEMMA FailStep ==
    ASSUME OwnNames, OwnInv, NEW a \in Addresses, UpsertError(Failure(a)),
           UNCHANGED <<now, addr, lastOk>>
    PROVE  (\E dev \in Devices : Promise!Fail(dev)) \/ UNCHANGED Shown
<1> DEFINE key == Key("ip", a)
<1>1. /\ \A e \in Devices : RowsOf(e) = OwnedIds(e) \cap DOMAIN miners
      /\ \A e \in Devices : RowsOf(e)' = OwnedIds(e) \cap DOMAIN miners'
  BY DEF RowsOf, Owned, OwnedIds
<1>2. key.kind = "ip"
  BY DEF Key
<1>3. TimesOf(samples)' = TimesOf(samples) /\ TimesOf(unsaved)' = TimesOf(unsaved)
  BY DEF UpsertError, TimesOf, Owned, OwnedIds
<1>4. CASE DOMAIN miners' = DOMAIN miners \/ \A e \in Devices : key \notin OwnedIds(e)
  <2>1. \A e \in Devices : RowsOf(e)' = RowsOf(e)
    <3>1. DOMAIN miners' = DOMAIN miners \/ DOMAIN miners' = DOMAIN miners \cup {key}
      BY FailRows
    <3> HIDE DEF key
    <3> SUFFICES ASSUME NEW e \in Devices PROVE RowsOf(e)' = RowsOf(e)
      OBVIOUS
    <3>2. OwnedIds(e) \cap DOMAIN miners' = OwnedIds(e) \cap DOMAIN miners
      BY <1>4, <3>1
    <3> QED BY <1>1, <3>2
  <2>2. Listed' = Listed /\ Named' = Named
    BY <2>1 DEF Listed, Named
  <2> QED BY <1>3, <2>2 DEF Shown
<1>5. ASSUME DOMAIN miners' = DOMAIN miners \cup {key}, NEW dev \in Devices, key \in OwnedIds(dev)
      PROVE  Promise!Fail(dev)
  <2>1. RowsOf(dev)' = RowsOf(dev) \cup {key}
    BY <1>1, <1>5
  <2>2. \A e \in Devices \ {dev} : RowsOf(e)' = RowsOf(e)
    <3> SUFFICES ASSUME NEW e \in Devices \ {dev} PROVE RowsOf(e)' = RowsOf(e)
      OBVIOUS
    <3>1. key \notin OwnedIds(e)
      BY <1>5 DEF OwnNames
    <3>2. OwnedIds(e) \cap DOMAIN miners' = OwnedIds(e) \cap DOMAIN miners
      BY <1>5, <3>1
    <3> QED BY <1>1, <3>2
  <2>3. Listed' = Listed \cup {dev}
    BY <2>1, <2>2, SMTT(30) DEF Listed
  <2>4. \A e \in Devices : (\E i \in RowsOf(e)' : i.kind # "ip") <=> \E i \in RowsOf(e) : i.kind # "ip"
    BY <1>2, <2>1, <2>2, SMTT(30)
  <2>5. Named' = Named
    BY <2>4 DEF Named
  <2> QED BY <1>3, <2>3, <2>5 DEF Promise!Fail
<1> QED BY <1>4, <1>5, FailRows

\* A prune is an expiry in the promise: it spares whoever answered within the TTL.
LEMMA PruneStep ==
    ASSUME OwnNames, OwnInv, LifeInv, Prune
    PROVE  Promise!Expire
<1> DEFINE fresh == {dev \in Devices : lastOk[dev] >= now - TTL}
<1>1. /\ now \in Nat /\ lastOk \in [Devices -> Nat]
      /\ \A i \in DOMAIN miners : miners[i].lastSeen \in Nat
  BY DEF OwnInv, FleetInv, TypeOK, Row
<1>2. DOMAIN miners' = DOMAIN miners \ {i \in DOMAIN miners : miners[i].lastSeen < now - TTL}
  BY DEF Prune
<1>3. /\ \A e \in Devices : RowsOf(e) = OwnedIds(e) \cap DOMAIN miners
      /\ \A e \in Devices : RowsOf(e)' = OwnedIds(e) \cap DOMAIN miners'
  BY DEF RowsOf, Owned, OwnedIds
<1>4. Listed' \subseteq Listed /\ Named' \subseteq Named
  BY <1>2, <1>3 DEF Listed, Named
<1>5. ASSUME NEW dev \in Listed \cap fresh PROVE dev \in Listed'
  <2>1. dev \in Devices /\ lastOk[dev] \in Nat /\ lastOk[dev] >= now - TTL
    BY <1>1, <1>5
  <2>2. CASE lastOk[dev] > 0
    <3>1. PICK i \in OwnedIds(dev) \cap DOMAIN miners : miners[i].lastSeen >= lastOk[dev]
      BY <1>1, <2>1, <2>2 DEF LifeInv, Live, Answered
    <3>2. i \in DOMAIN miners'
      BY <1>1, <1>2, <2>1, <3>1
    <3> QED BY <1>3, <2>1, <3>1, <3>2 DEF Listed
  <2>3. CASE lastOk[dev] = 0
    <3>1. DOMAIN miners' = DOMAIN miners
      <4>1. \A i \in DOMAIN miners : ~(miners[i].lastSeen < now - TTL)
        BY <1>1, <2>1, <2>3
      <4> QED BY <1>2, <4>1
    <3> QED BY <1>3, <1>5, <2>1, <3>1 DEF Listed
  <2> QED BY <2>1, <2>2, <2>3
<1>6. ASSUME NEW dev \in Named' PROVE dev \in fresh
  <2>1. PICK i \in OwnedIds(dev) \cap DOMAIN miners' : dev \in Devices /\ i.kind # "ip"
    BY <1>3, <1>6 DEF Named
  <2>2. i \in DOMAIN miners /\ ~(miners[i].lastSeen < now - TTL)
    BY <1>2, <2>1
  <2>3. PICK e \in Devices : i \in OwnedIds(e) /\ miners[i].lastSeen <= lastOk[e]
    BY <2>1, <2>2 DEF LifeInv, Aged
  <2>4. e = dev
    BY <2>1, <2>3 DEF OwnNames
  <2> QED BY <1>1, <2>1, <2>2, <2>3, <2>4
<1>7. TimesOf(samples)' = TimesOf(samples) /\ TimesOf(unsaved)' = TimesOf(unsaved)
  BY DEF Prune, TimesOf, Owned, OwnedIds
<1>8. UNCHANGED <<now, lastOk>>
  BY DEF Prune
<1>9. /\ \E kept \in SUBSET Listed : Listed \cap fresh \subseteq kept /\ Listed' = kept
      /\ \E kept \in SUBSET (Named \cap fresh) : Named' = kept
  BY <1>4, <1>5, <1>6
<1> QED BY <1>7, <1>8, <1>9 DEF Promise!Expire

\* No samples, no times.
LEMMA TimesOfNone == TimesOf({}) = Promise!Nothing
BY DEF TimesOf, Promise!Nothing

\* A rename does not show.
LEMMA RenameStep ==
    ASSUME OwnNames, OwnInv, OwnInv', NEW old \in renames, RenameMetrics(old)
    PROVE  UNCHANGED Shown
<1>1. PICK s \in unsaved : samples' = Refiled({old}, s.id)
  BY DEF RenameMetrics
<1>2. ByDevice(samples') = ByDevice(samples)
  BY <1>1, RefiledTimes
<1>3. TimesOf(samples)' = TimesOf(samples)
  BY <1>2, TimesOwned
<1>4. TimesOf(unsaved)' = TimesOf(unsaved)
  BY DEF RenameMetrics, TimesOf, Owned, OwnedIds
<1>5. Listed' = Listed /\ Named' = Named
  BY DEF RenameMetrics, Listed, Named, RowsOf, Owned, OwnedIds
<1> QED BY <1>3, <1>4, <1>5 DEF RenameMetrics, Shown

\* The other steps.
LEMMA OtherSteps ==
    ASSUME OwnInv, OwnInv',
           \/ \E old \in renames : RenameFails(old)
           \/ InsertSamples \/ InsertFails \/ MarkPoll
           \/ Restart \/ Tick \/ UNCHANGED vars
           \/ \E dev \in Devices : Lease(dev)
    PROVE  Promise!Next \/ UNCHANGED Shown
<1>1. TimesOf(samples)' = TimesOf(samples') /\ TimesOf(unsaved)' = TimesOf(unsaved')
  BY DEF TimesOf, Owned, OwnedIds
<1>2. miners' = miners => Listed' = Listed /\ Named' = Named
  BY DEF Listed, Named, RowsOf, Owned, OwnedIds
<1>3. CASE (\E old \in renames : RenameFails(old)) \/ UNCHANGED vars \/ \E dev \in Devices : Lease(dev)
  <2>1. UNCHANGED <<now, miners, samples, unsaved, lastOk>>
    BY <1>3 DEF RenameFails, Lease, vars, store
  <2> QED BY <1>1, <1>2, <2>1 DEF Shown
<1>4. CASE InsertSamples
  <2>1. /\ samples' = samples \cup unsaved /\ unsaved' = {} /\ UNCHANGED <<now, miners, lastOk>>
    BY <1>4 DEF InsertSamples
  <2>2. TimesOf(samples)' = [dev \in Devices |-> TimesOf(samples)[dev] \cup TimesOf(unsaved)[dev]]
    <3>1. ASSUME NEW dev \in Devices
          PROVE  TimesOf(samples \cup unsaved)[dev] = TimesOf(samples)[dev] \cup TimesOf(unsaved)[dev]
      BY DEF TimesOf
    <3>2. TimesOf(samples \cup unsaved)
             = [dev \in Devices |-> TimesOf(samples)[dev] \cup TimesOf(unsaved)[dev]]
      BY <3>1 DEF TimesOf
    <3> QED BY <1>1, <2>1, <3>2
  <2>3. TimesOf(unsaved)' = Promise!Nothing
    BY <1>1, <2>1, TimesOfNone
  <2>4. Promise!Save
    BY <1>2, <2>1, <2>2, <2>3 DEF Promise!Save
  <2> QED BY <2>4 DEF Promise!Next
<1>5. CASE InsertFails
  <2>1. /\ SQLFaults /\ unsaved' = {} /\ UNCHANGED <<now, miners, samples, lastOk>>
    BY <1>5 DEF InsertFails
  <2>2. Promise!Lose
    BY <1>1, <1>2, <2>1, TimesOfNone DEF Promise!Lose
  <2> QED BY <2>2 DEF Promise!Next
<1>6. CASE MarkPoll
  <2>1. /\ SQLite /\ samples' = {s \in samples : s.time >= now - Retention}
        /\ UNCHANGED <<now, miners, unsaved, lastOk>>
    BY <1>6 DEF MarkPoll
  <2>2. TimesOf(samples)' = [dev \in Devices |-> {t \in TimesOf(samples)[dev] : t >= now - Retention}]
    <3> DEFINE kept == {s \in samples : s.time >= now - Retention}
    <3>1. ASSUME NEW dev \in Devices
          PROVE  TimesOf(kept)[dev] = {t \in TimesOf(samples)[dev] : t >= now - Retention}
      BY DEF TimesOf
    <3>2. TimesOf(kept) = [dev \in Devices |-> {t \in TimesOf(samples)[dev] : t >= now - Retention}]
      BY <3>1 DEF TimesOf
    <3> QED BY <1>1, <2>1, <3>2
  <2>3. TimesOf(unsaved)' = TimesOf(unsaved)
    BY <1>1, <2>1
  <2>4. Promise!Forget
    BY <1>2, <2>1, <2>2, <2>3 DEF Promise!Forget
  <2> QED BY <2>4 DEF Promise!Next
<1>7. CASE Restart
  <2>1. /\ DOMAIN miners' = {} /\ samples' = (IF SQLite THEN samples ELSE {}) /\ unsaved' = {}
        /\ lastOk' = [dev \in Devices |-> 0] /\ UNCHANGED now
    BY <1>7 DEF Restart
  <2>2. Listed' = {} /\ Named' = {}
    BY <2>1 DEF Listed, Named, RowsOf
  <2>3. Promise!Restart
    BY <1>1, <2>1, <2>2, TimesOfNone DEF Promise!Restart
  <2> QED BY <2>3 DEF Promise!Next
<1>8. CASE Tick
  <2>1. now' = now + 1 /\ UNCHANGED <<miners, samples, unsaved, lastOk>>
    BY <1>8 DEF Tick, store
  <2>2. Promise!Tick
    BY <1>1, <1>2, <2>1 DEF Promise!Tick
  <2> QED BY <2>2 DEF Promise!Next
<1> QED BY <1>3, <1>4, <1>5, <1>6, <1>7, <1>8

\* When names are unique and leases reserved, the store is a list of miners and a log for
\* each: whatever fields polls show, whatever an Upsert folds, rekeys and renames, and
\* wherever a crash or a failed transaction stops it (Upsert, MarkPoll, Prune).
THEOREM StoreIsFleet ==
    ASSUME OwnNames
    PROVE  Spec => IsFleet
<1>1. Init => Promise!Init
  <2>1. Init => Listed = {} /\ Named = {}
    BY DEF Init, Listed, Named, RowsOf
  <2> QED BY <2>1, TimesOfNone DEF Init, Promise!Init
<1>2. OwnInv /\ OwnInv' /\ LifeInv /\ [Next]_vars => [Promise!Next]_Shown
  <2> SUFFICES ASSUME OwnInv, OwnInv', LifeInv, [Next]_vars PROVE Promise!Next \/ UNCHANGED Shown
    OBVIOUS
  <2>1. ASSUME NEW dev \in Devices, NEW shown \in Shows, PollOk(dev, shown) PROVE Promise!Next
    <3> DEFINE d == Report(dev, shown)
    <3>1. /\ d \in Detail /\ UNCHANGED <<now, addr>> /\ Idle
          /\ \E found \in SUBSET FindMiner(d) : UpsertOk(d, found, dev)
      BY <2>1, PollOkIsUpsert DEF OwnInv, FleetInv
    <3>2. AllKeys(d) \subseteq OwnedIds(dev)
      BY <2>1, ReportKeys DEF PollOk, OwnInv, FleetInv
    <3> HIDE DEF d
    <3>3. Promise!Answer(dev)
      BY <3>1, <3>2, AnswerStep
    <3> QED BY <3>3 DEF Promise!Next
  <2>2. ASSUME NEW a \in Addresses, PollFail(a) PROVE Promise!Next \/ UNCHANGED Shown
    <3>1. (\E dev \in Devices : Promise!Fail(dev)) \/ UNCHANGED Shown
      BY <2>2, FailStep DEF PollFail
    <3> QED BY <3>1 DEF Promise!Next
  <2>3. CASE Prune
    BY <2>3, PruneStep DEF Promise!Next
  <2>4. ASSUME NEW old \in renames, RenameMetrics(old) PROVE UNCHANGED Shown
    BY <2>4, RenameStep
  <2> QED BY <2>1, <2>2, <2>3, <2>4, OtherSteps DEF Next
<1> QED
  BY <1>1, <1>2, StoreOwn, StoreLife, PTL DEF Spec, IsFleet, Promise!Spec, Shown
=============================================================================
