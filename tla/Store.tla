------------------------------- MODULE Store -------------------------------
(***************************************************************************)
(* The fleet cache and the metric history of internal/store: one row per   *)
(* miner under its stable identity, and the samples that polls append,      *)
(* either to ring buffers (memory mode) or to SQLite after the lock is      *)
(* released.  All writers of the store run on the poller's goroutine, so at *)
(* most one Upsert is between its locked part and its last SQL transaction. *)
(*                                                                          *)
(* The environment is a set of devices that obtain and give up IP addresses *)
(* (DHCP), and show, poll by poll, some of their identity fields.  A sample *)
(* carries the device it was measured on: the code does not know it, the    *)
(* properties compare it with the id the sample is filed under.             *)
(*                                                                          *)
(* Abstractions: one metric per poll; ring capacity is in module Ring; time *)
(* is a small counter, samples of two devices never share a key and time.   *)
(* UpdatedAt is left out: LastSeen, set by every path that makes a row, is  *)
(* what Prune reads.                                                        *)
(***************************************************************************)
EXTENDS MinerIdentity, Integers

CONSTANTS
    Devices,      \* the physical miners
    NameOf,       \* device -> the hostname, MAC and serial it is configured with
    LeasedTo,     \* address -> the devices DHCP may give it to
    Shows,        \* the sets of identity fields a successful poll may carry
    SQLite,       \* TRUE: metrics in SQLite; FALSE: memory mode
    SQLFaults,    \* TRUE: a rename or insert transaction may fail
    TTL,          \* miner_ttl
    Retention,    \* history_retention
    MaxTime       \* bound on the clock

ASSUME StoreAssumption ==
    /\ NameOf \in [Devices -> [host   : Hostnames \cup {None},
                               mac    : Macs \cup {None},
                               serial : Serials \cup {None}]]
    /\ LeasedTo \in [Addresses -> SUBSET Devices]
    /\ Shows \subseteq SUBSET {"host", "mac", "serial"}
    /\ SQLite \in BOOLEAN /\ SQLFaults \in BOOLEAN
    /\ TTL \in Nat \ {0} /\ Retention \in Nat \ {0} /\ MaxTime \in Nat \ {0}

VARIABLES
    now,        \* wall clock
    addr,       \* device -> its current address, None when off the network
    miners,     \* Store.miners: id -> row
    samples,    \* Store.history or the metric_samples table
    renames,    \* ids whose samples the current Upsert still has to rename (SQLite)
    unsaved,    \* the sample the current Upsert still has to insert (SQLite)
    lastOk      \* history: device -> time of its last successful Upsert, 0 if none

store == <<miners, samples, renames, unsaved>>
vars == <<now, addr, miners, samples, renames, unsaved, lastOk>>

Row == [ip       : Addresses,
        host     : Hostnames \cup {None},
        mac      : Macs \cup {None},
        serial   : Serials \cup {None},
        error    : BOOLEAN,
        lastSeen : Nat]

Sample == [id : MinerId, time : Nat, dev : Devices]

RowOf(d, seen) ==
    LET m == WithPlainMac(d)
    IN  [ip |-> m.ip, host |-> m.host, mac |-> m.mac, serial |-> m.serial,
         error |-> m.error, lastSeen |-> seen]

\* What a successful poll of device dev reports when it shows the given fields.
Report(dev, shown) ==
    [ip     |-> addr[dev],
     host   |-> IF "host" \in shown THEN NameOf[dev].host ELSE None,
     mac    |-> IF "mac" \in shown THEN NameOf[dev].mac ELSE None,
     serial |-> IF "serial" \in shown THEN NameOf[dev].serial ELSE None,
     error  |-> FALSE]

\* What a failed poll of an address reports.
Failure(a) == [ip |-> a, host |-> None, mac |-> None, serial |-> None, error |-> TRUE]

-----------------------------------------------------------------------------
\* The rows a poll result matches by each of its fields.
ById(d) == {StableIDOf(d)} \cap DOMAIN miners

ByHost(d) == {i \in DOMAIN miners : /\ DistinctiveHostname(d.host) # None
                                   /\ DistinctiveHostname(miners[i].host) = DistinctiveHostname(d.host)}

ByMac(d) == {i \in DOMAIN miners : /\ NormalizeMAC(d.mac) # None
                                  /\ NormalizeMAC(miners[i].mac) = NormalizeMAC(d.mac)}

\* Mutant: an empty serial matches every row without one.
BySerialEvenEmpty(d) == {i \in DOMAIN miners : miners[i].serial = d.serial}

BySerial(d) == {i \in DOMAIN miners : /\ d.serial # None
                                     /\ NormalizeSerial(miners[i].serial) = NormalizeSerial(d.serial)}

ByIP(d) == {i \in DOMAIN miners : miners[i].ip = d.ip}

\* Mutant: no match by IP.
FindMinerNotByIP(d) ==
    IF ById(d) # {} THEN ById(d)
    ELSE IF ByHost(d) # {} THEN ByHost(d)
    ELSE IF ByMac(d) # {} THEN ByMac(d)
    ELSE BySerial(d)

\* findMinerLocked: the ids it may return (Go's map order picks one), {} if none.
FindMiner(d) ==
    IF ById(d) # {} THEN ById(d)
    ELSE IF ByHost(d) # {} THEN ByHost(d)
    ELSE IF ByMac(d) # {} THEN ByMac(d)
    ELSE IF BySerial(d) # {} THEN BySerial(d)
    ELSE ByIP(d)

\* Ids with metric history.
HistoryIds == {s.id : s \in samples}

\* Mutant: the samples stay under the old id as well.
RefiledCopy(from, to) ==
    samples \cup {[id |-> IF s.id \in from THEN to ELSE s.id, time |-> s.time, dev |-> s.dev] :
                    s \in samples}

\* The samples of the ids in from, filed under to.
Refiled(from, to) ==
    {[id |-> IF s.id \in from THEN to ELSE s.id, time |-> s.time, dev |-> s.dev] : s \in samples}

\* Mutant: a failed poll wipes the identity.
MarkedAnew(m, a) == [RowOf(Failure(a), m.lastSeen) EXCEPT !.error = TRUE]

\* Mutant: a failed poll counts as an answer.
MarkedSeen(m, a) ==
    [ip |-> a, host |-> m.host, mac |-> m.mac, serial |-> m.serial,
     error |-> TRUE, lastSeen |-> now]

\* A row whose address failed to answer: its last good telemetry stays.
Marked(m, a) ==
    [ip |-> a, host |-> m.host, mac |-> m.mac, serial |-> m.serial,
     error |-> TRUE, lastSeen |-> m.lastSeen]

\* Upsert, error branch: mark the row the address leads to, or start one.
UpsertError(d) ==
    /\ \/ \E i \in FindMiner(d) :
            miners' = [miners EXCEPT ![i] = Marked(@, d.ip)]
       \/ /\ FindMiner(d) = {}
          /\ miners' = [i \in DOMAIN miners \cup {StableIDOf(d)} |->
                          IF i = StableIDOf(d) THEN RowOf(d, now) ELSE miners[i]]
    /\ UNCHANGED <<samples, renames, unsaved>>

\* Upsert, success branch, given the row found (found has at most one id): rekey it,
\* fold every other row at this address and the rows under older keys of this
\* miner that have in-memory history, then file the new row and sample.
UpsertOk(d, found, dev) ==
    LET id      == StableIDOf(d)
        ghosts  == ByIP(d)
        aliases == IdentityAliases(d)
        moved   == (found \cup ghosts \cup aliases) \ {id}
        dropped == (found \cup ghosts
                      \cup (IF SQLite THEN {} ELSE aliases \cap HistoryIds)) \ {id}
        sample  == [id |-> id, time |-> now, dev |-> dev]
    IN  /\ miners' = [i \in (DOMAIN miners \ dropped) \cup {id} |->
                        IF i = id THEN RowOf(d, now) ELSE miners[i]]
        /\ IF SQLite
           THEN /\ renames' = moved
                /\ unsaved' = {sample}
                /\ UNCHANGED samples
           ELSE /\ samples' = Refiled(moved, id) \cup {sample}
                /\ UNCHANGED <<renames, unsaved>>
        /\ lastOk' = [lastOk EXCEPT ![dev] = now]

\* The poller's goroutine is between two calls into the store.
Idle == unsaved = {}

PollOk(dev, shown) ==
    /\ Idle
    /\ addr[dev] # None
    /\ LET d == Report(dev, shown)
       IN  IF FindMiner(d) = {} THEN UpsertOk(d, {}, dev)
           ELSE \E i \in FindMiner(d) : UpsertOk(d, {i}, dev)
    /\ UNCHANGED <<now, addr>>

PollFail(a) ==
    /\ Idle
    /\ UpsertError(Failure(a))
    /\ UNCHANGED <<now, addr, lastOk>>

\* Mutant: the older key's samples are deleted.
RenameDeletes(old) ==
    /\ samples' = {s \in samples : s.id # old}
    /\ renames' = renames \ {old}
    /\ UNCHANGED <<now, addr, miners, unsaved, lastOk>>

\* renameMetrics: one transaction per older key.
RenameMetrics(old) ==
    /\ \E s \in unsaved : samples' = Refiled({old}, s.id)
    /\ renames' = renames \ {old}
    /\ UNCHANGED <<now, addr, miners, unsaved, lastOk>>

\* A transaction that fails is logged and Upsert goes on.
RenameFails(old) ==
    /\ SQLFaults
    /\ renames' = renames \ {old}
    /\ UNCHANGED <<now, addr, miners, samples, unsaved, lastOk>>

\* Mutant: the insert does not wait for the renames.
InsertSamplesEarly ==
    /\ unsaved # {}
    /\ samples' = samples \cup unsaved
    /\ unsaved' = {}
    /\ UNCHANGED <<now, addr, miners, renames, lastOk>>

InsertSamples ==
    /\ unsaved # {} /\ renames = {}
    /\ samples' = samples \cup unsaved
    /\ unsaved' = {}
    /\ UNCHANGED <<now, addr, miners, renames, lastOk>>

InsertFails ==
    /\ SQLFaults
    /\ unsaved # {} /\ renames = {}
    /\ unsaved' = {}
    /\ UNCHANGED <<now, addr, miners, samples, renames, lastOk>>

\* Mutant: the cutoff itself is deleted.
MarkPollStrict ==
    /\ Idle /\ SQLite
    /\ samples' = {s \in samples : s.time > now - Retention}
    /\ UNCHANGED <<now, addr, miners, renames, unsaved, lastOk>>

\* The retention delete of MarkPoll; its flags are in module Poller.
MarkPoll ==
    /\ Idle /\ SQLite
    /\ samples' = {s \in samples : s.time >= now - Retention}
    /\ UNCHANGED <<now, addr, miners, renames, unsaved, lastOk>>

\* Mutant: the cutoff itself is pruned.
PruneStrict ==
    /\ Idle
    /\ LET stale == {i \in DOMAIN miners : miners[i].lastSeen <= now - TTL}
       IN  miners' = [i \in DOMAIN miners \ stale |-> miners[i]]
    /\ UNCHANGED <<now, addr, samples, renames, unsaved, lastOk>>

\* Prune drops rows, never samples.
Prune ==
    /\ Idle
    /\ LET stale == {i \in DOMAIN miners : miners[i].lastSeen < now - TTL}
       IN  miners' = [i \in DOMAIN miners \ stale |-> miners[i]]
    /\ UNCHANGED <<now, addr, samples, renames, unsaved, lastOk>>

\* A crash or restart at any point: the fleet and the Upsert under way are gone,
\* and so is the history unless it is in SQLite.
Restart ==
    /\ miners' = [i \in {} |-> {}]
    /\ samples' = IF SQLite THEN samples ELSE {}
    /\ renames' = {} /\ unsaved' = {}
    /\ lastOk' = [dev \in Devices |-> 0]
    /\ UNCHANGED <<now, addr>>

Tick ==
    /\ now < MaxTime
    /\ now' = now + 1
    /\ UNCHANGED <<addr, store, lastOk>>

\* DHCP: a device takes a free address it may hold, or leaves the network.
Lease(dev) ==
    /\ \/ \E a \in Addresses :
            /\ dev \in LeasedTo[a]
            /\ \A other \in Devices : addr[other] # a
            /\ addr' = [addr EXCEPT ![dev] = a]
       \/ addr' = [addr EXCEPT ![dev] = None]
    /\ UNCHANGED <<now, store, lastOk>>

-----------------------------------------------------------------------------
\* Samples of earlier runs are what Restart leaves; the first run starts empty.
Init ==
    /\ now = 1
    /\ addr = [dev \in Devices |-> None]
    /\ miners = [i \in {} |-> {}]
    /\ samples = {} /\ renames = {} /\ unsaved = {}
    /\ lastOk = [dev \in Devices |-> 0]

Next ==
    \/ \E dev \in Devices, shown \in Shows : PollOk(dev, shown)
    \/ \E a \in Addresses : PollFail(a)
    \/ \E old \in renames : RenameMetrics(old) \/ RenameFails(old)
    \/ InsertSamples \/ InsertFails
    \/ MarkPoll \/ Prune \/ Restart \/ Tick
    \/ \E dev \in Devices : Lease(dev)

Spec == Init /\ [][Next]_vars

-----------------------------------------------------------------------------
\* The ids a device's own polls can file samples under: its three identities,
\* the addresses it may hold, and the bare hostname of older builds.
OwnedIds(dev) ==
    LET host   == DistinctiveHostname(NameOf[dev].host)
        mac    == NormalizeMAC(NameOf[dev].mac)
        serial == NormalizeSerial(NameOf[dev].serial)
        keys   == {Key("host", host), Key("bare", host), Key("mac", mac), Key("sn", serial)}
    IN  {k \in keys : k.name # None}
        \cup {Key("ip", a) : a \in {x \in Addresses : dev \in LeasedTo[x]}}

\* Every row and sample is well formed, at most one Upsert is under way, and the
\* ids it has yet to rename exist only while its sample is unsaved.
TypeOK ==
    /\ now \in 1..MaxTime
    /\ addr \in [Devices -> Addresses \cup {None}]
    /\ DOMAIN miners \subseteq MinerId
    /\ miners \in [DOMAIN miners -> Row]
    /\ samples \subseteq Sample
    /\ renames \subseteq MinerId
    /\ unsaved \subseteq Sample
    /\ \A s, t \in unsaved : s = t
    /\ unsaved = {} => renames = {}
    /\ lastOk \in [Devices -> 0..MaxTime]

\* A row is filed under the identity its own fields give.  Error polls rewrite the
\* IP of a row found by other means (store.go:162), and rekeying moves whole rows:
\* neither may leave a row under a key that the next poll would not compute.
RowIdentity == \A i \in DOMAIN miners : i = StableIDOf(miners[i])

\* No two rows claim one address: the match by IP in findMinerLocked, which takes
\* the first row Go's map order gives, has a single answer (store.go:301), and
\* Prune never tells the poller to forget the address of a row it keeps.
UniqueAddress ==
    \A i, j \in DOMAIN miners : miners[i].ip = miners[j].ip => i = j

\* README: identity is stable "so DHCP churn doesn't split rows or chart history".
\* A sample is only ever filed under an id of the device it was measured on.
SamplesOwned == \A s \in samples \cup unsaved : s.id \in OwnedIds(s.dev)

\* README: miners stay "in the fleet until miner_ttl after last successful poll".  A
\* device that answered within the TTL has its row, and failed polls do not keep one
\* longer: the row of an identified miner is never younger than its last success.
RowsLiveTTL ==
    /\ \A dev \in Devices :
         lastOk[dev] > 0 /\ now - lastOk[dev] <= TTL
             => OwnedIds(dev) \cap DOMAIN miners # {}
    /\ \A i \in DOMAIN miners :
         i.kind # "ip" => \E dev \in Devices :
                             /\ i \in OwnedIds(dev)
                             /\ miners[i].lastSeen <= lastOk[dev]

\* Between two Upserts the history of every miner in the fleet is where its chart
\* looks for it: none of it is left under another of the row's identities, whatever
\* older polls called it and wherever a crash stopped an earlier rename.
HistoryUnderRow ==
    Idle => \A i \in DOMAIN miners : IdentityAliases(miners[i]) \cap HistoryIds = {}

\* README: one box is never two rows.  No two rows share a hostname that names a
\* miner, a MAC or a serial.
OneRowPerIdentity ==
    \A i, j \in DOMAIN miners :
        \/ DistinctiveHostname(miners[i].host) = DistinctiveHostname(miners[j].host)
           /\ DistinctiveHostname(miners[i].host) # None
        \/ NormalizeMAC(miners[i].mac) = NormalizeMAC(miners[j].mac)
           /\ NormalizeMAC(miners[i].mac) # None
        \/ NormalizeSerial(miners[i].serial) = NormalizeSerial(miners[j].serial)
           /\ miners[i].serial # None
        => i = j

\* No step loses a sample that is inside the retention window, and a step that
\* refiles one files it under the id of a row in the fleet: a rename, its failure,
\* a row drop, a TTL prune, a crash between two renames.
SamplesKept ==
    [][\A s \in samples :
         s.time >= now - Retention =>
            \E t \in samples' : /\ t.time = s.time /\ t.dev = s.dev
                                /\ t.id = s.id \/ t.id \in DOMAIN miners]_vars

Owned == [dev \in Devices |-> OwnedIds(dev)]

\* Device -> times of the samples under its ids.
TimesOf(S) == [dev \in Devices |-> {s.time : s \in {u \in S : u.id \in Owned[dev]}}]

\* The ids of a device that have a row.
RowsOf(dev) == Owned[dev] \cap DOMAIN miners

Listed == {dev \in Devices : RowsOf(dev) # {}}
Named == {dev \in Devices : \E i \in RowsOf(dev) : i.kind # "ip"}

Promise == INSTANCE Fleet WITH
    Durable <- SQLite, Lossy <- SQLFaults, answered <- lastOk, listed <- Listed, named <- Named,
    log <- TimesOf(samples), filing <- TimesOf(unsaved)

\* For devices with names of their own and reserved leases, the rows and samples filed
\* under a device's ids are the list and the histories of Fleet: whatever an Upsert folds,
\* rekeys and renames, no step drops, doubles or swaps a miner or a sample.
IsFleet == Promise!Spec

=============================================================================
