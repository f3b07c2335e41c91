--------------------------- MODULE MinerIdentity ---------------------------
(***************************************************************************)
(* How a polled miner gets its key in the fleet map                         *)
(* (internal/models/miner.go): distinctive hostname, else MAC, else serial, *)
(* else IP address.  The strings of the code are members of small sets; a   *)
(* normalisation is the function from a spelling to its canonical spelling  *)
(* and the set of spellings it rejects.  None stands for "".                *)
(*                                                                          *)
(* The ids "host:h", "aa:bb:..", "sn:s", "10.0.0.1" and the bare hostname   *)
(* of older builds are records [kind, name]: the code's prefixes keep the   *)
(* kinds apart, and the kind does the same here.                            *)
(***************************************************************************)
CONSTANTS
    Hostnames,       \* hostname spellings a device may report
    Macs,            \* MAC spellings
    Serials,         \* serial number spellings
    Addresses,       \* IP addresses
    None,            \* the empty string
    LowerHost,       \* hostname -> trimmed, lower-case hostname
    GenericHosts,    \* factory names that identify nothing
    ColonMac,        \* plausible MAC -> lower-case colon form
    LowerSerial      \* serial -> trimmed, lower-case serial

\* NormalizeMAC succeeds exactly on the plausible spellings.
PlausibleMacs == DOMAIN ColonMac

\* The normalisations stay inside their sets, and the MAC form is canonical.
ASSUME IdentityAssumption ==
    /\ None \notin Hostnames \cup Macs \cup Serials \cup Addresses
    /\ LowerHost \in [Hostnames -> Hostnames]
    /\ GenericHosts \subseteq Hostnames
    /\ PlausibleMacs \subseteq Macs
    /\ ColonMac \in [PlausibleMacs -> PlausibleMacs]
    /\ \A m \in PlausibleMacs : ColonMac[ColonMac[m]] = ColonMac[m]
    /\ LowerSerial \in [Serials -> Serials]

Names == Hostnames \cup Macs \cup Serials \cup Addresses

MinerId == [kind : {"host", "mac", "sn", "ip", "bare"}, name : Names \cup {None}]

\* What a poll says about one miner; a failed poll knows the address only.
Detail == [ip     : Addresses,
           host   : Hostnames \cup {None},
           mac    : Macs \cup {None},
           serial : Serials \cup {None},
           error  : BOOLEAN]

DistinctiveHostname(h) ==
    IF h = None \/ LowerHost[h] \in GenericHosts THEN None ELSE LowerHost[h]

NormalizeMAC(m) == IF m \in PlausibleMacs THEN ColonMac[m] ELSE None

NormalizeSerial(s) == IF s = None THEN None ELSE LowerSerial[s]

Key(kind, name) == [kind |-> kind, name |-> name]

StableID(mac, host, serial, ip) ==
    IF DistinctiveHostname(host) # None THEN Key("host", DistinctiveHostname(host))
    ELSE IF NormalizeMAC(mac) # None THEN Key("mac", NormalizeMAC(mac))
    ELSE IF serial # None THEN Key("sn", NormalizeSerial(serial))
    ELSE Key("ip", ip)

StableIDOf(d) == StableID(d.mac, d.host, d.serial, d.ip)

\* ApplyStableID: a plausible MAC is rewritten, any other is kept as reported.
WithPlainMac(d) ==
    [d EXCEPT !.mac = IF NormalizeMAC(d.mac) # None THEN NormalizeMAC(d.mac) ELSE @]

\* Mutant: the MAC key of builds that preferred it is forgotten.
IdentityAliasesNoMac(d) ==
    LET host   == DistinctiveHostname(d.host)
        serial == NormalizeSerial(d.serial)
    IN  ({Key("ip", d.ip)}
           \cup (IF host = None THEN {} ELSE {Key("host", host), Key("bare", host)})
           \cup (IF serial = None THEN {} ELSE {Key("sn", serial)}))
        \ {StableIDOf(d)}

\* identityAliases: the keys older polls of this miner may have used.
IdentityAliases(d) ==
    LET host   == DistinctiveHostname(d.host)
        mac    == NormalizeMAC(d.mac)
        serial == NormalizeSerial(d.serial)
    IN  ({Key("ip", d.ip)}
           \cup (IF host = None THEN {} ELSE {Key("host", host), Key("bare", host)})
           \cup (IF mac = None THEN {} ELSE {Key("mac", mac)})
           \cup (IF serial = None THEN {} ELSE {Key("sn", serial)}))
        \ {StableIDOf(d)}
=============================================================================
