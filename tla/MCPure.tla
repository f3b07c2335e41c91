------------------------------- MODULE MCPure -------------------------------
(***************************************************************************)
(* Inputs for the pure parts of the program.  For the ring, four slots and  *)
(* three different points give every content, before and after the wrap.    *)
(***************************************************************************)
EXTENDS Pure

MCNotFinite == -1
MCPoints == {"p", "q", "r"}

MCHostnames == {"Rack-1", "rack-1", "rack-2", "antminer", "bitaxe"}
MCMacs == {"aa:01", "aa:02"}
MCLowerHost == [h \in MCHostnames |-> IF h = "Rack-1" THEN "rack-1" ELSE h]
MCColonMac == [m \in MCMacs |-> m]
MCSerials == {"SN-7", "sn-7"}
MCLowerSerial == [sn \in MCSerials |-> "sn-7"]

\* Series of up to three samples in any order around holes of one gap and more.
Sample == [t : 0 .. 5, v : {0, 7, NotFinite}]
MCSeriesInputs ==
    [part : {"series"}, raw : UNION {[1 .. n -> Sample] : n \in 0 .. 3}, gap : {2},
     since : {0, 7}, tMax : {5, 8}]

\* Every window of the chart's menu; poll intervals from the least through the widths of the
\* buckets of long windows to a second above the widest; polls answered on time and late by
\* up to half an interval, which is all the headroom the threshold leaves to a sample at the
\* end of its bucket.
Polls == {Seconds(s) : s \in {5, 15, 45, 60, 90, 300, 301, 900, 901}}
Phases == {0, 14, 59, 123, 599}
Lateness == {0, 25, 50}
MCSteadyInputs ==
    {LET answer(k) == first + (k - 1) * poll + (poll * late[k]) \div 100
     IN  [part |-> "steady", view |-> view, span |-> span, poll |-> poll,
          times |-> <<answer(1), answer(2), answer(3)>>, now |-> first + 3 * poll + poll \div 2] :
        view \in {"miner", "type"}, span \in Windows, poll \in Polls, first \in Phases,
        late \in [1 .. 3 -> Lateness]}

\* Up to two boards; 40 and 41 are the same temperature to the code, 0 is a reading.
Temps == {0, 40, 41}
Optional == {{}} \cup {{t} : t \in Temps}
Board == [board : Optional, chips : {{}, {0}, {40, 41}}, inlet : Optional, outlet : Optional]
Answers == {{}} \cup {{f} : f \in [chip : {{t} : t \in Temps}, vr : Optional]}
MCMinerInputs ==
    [part : {"miner"}, axe : BOOLEAN, boards : {<<>>} \cup {<<x>> : x \in Board}, answers : Answers]
    \cup [part : {"miner"}, axe : {TRUE}, boards : {<<x, y>> : x, y \in Board},
          answers : {{[chip |-> {0}, vr |-> {41}]}}]

\* Two miners, with hostnames of their own, with factory names of which isBadHostLabel
\* knows one only, or with none; the second may be known by its address only.
MinerRow(ip, host, mac, serial, model) ==
    [ip |-> ip, host |-> host, mac |-> mac, serial |-> serial, error |-> FALSE, model |-> model]
Pairs == {<<MinerRow("ip1", h, "aa:01", "SN-7", "gamma"), second>> :
            h \in {None, "Rack-1", "antminer", "bitaxe"},
            second \in {MinerRow("ip2", g, m, None, "gamma") :
                          g \in {None, "rack-2", "antminer"}, m \in {None, "aa:02"}}
                       \cup {[MinerRow("ip2", None, None, None, None) EXCEPT !.error = TRUE]}}

\* The samples of a miner under each kind of id: some at one time, out of order, unusable.
PointsOf(kind, base) ==
    CASE kind = "ip"   -> <<[t |-> 3, v |-> base], [t |-> 0, v |-> base + 1]>>
      [] kind = "mac"  -> <<[t |-> 3, v |-> base + 2], [t |-> 1, v |-> NotFinite]>>
      [] kind = "host" -> <<[t |-> 4, v |-> base + 3], [t |-> 5, v |-> base + 4]>>
      [] OTHER         -> <<[t |-> 2, v |-> base + 5]>>

\* The series of an id as the server sends it: with the names of a row it lists.
Sent(id, base, rows) ==
    LET named == SelectSeq(rows, LAMBDA m : StableIDOf(m) = id)
    IN  [id     |-> id,
         label  |-> IF named = <<>> THEN id ELSE ServerLabel(named[1]),
         model  |-> IF named = <<>> THEN None ELSE named[1].model,
         points |-> PointsOf(id.kind, base)]

\* Every history the ids of the first miner and two of the second may have, both miners,
\* one or none in the fleet.
MCLineInputs ==
    UNION {{[part   |-> "lines", rows |-> rows, picked |-> picked,
             series |-> SetToSeq({Sent(id, 10, rows) : id \in ids})
                          \o SetToSeq({Sent(id, 20, rows) : id \in others \ ids})] :
                ids    \in SUBSET IdsOf(pair[1]),
                others \in SUBSET {StableIDOf(pair[2]), Key("ip", "ip2")},
                rows   \in {pair, <<pair[1]>>, <<>>},
                picked \in {{}, {"gamma"}}} : pair \in Pairs}

\* The rows of the fleet table: every combination of sensors around the red line.
Degrees == {Missing, 69, 70}
Row(fields) == fields @@ [hashrate |-> 1, wattage |-> Missing, chips |-> Missing,
                          efficiency |-> Missing, words |-> {"a"}, facet |-> [make |-> "bitaxe"],
                          mining |-> TRUE, error |-> FALSE, messages |-> FALSE]
MCRowInputs ==
    [part : {"row"}, row : {Row(f) : f \in [hasAsic : BOOLEAN, asic : Degrees, hasVr : BOOLEAN,
                                            vr : Degrees, avg : Degrees]}]

\* A column of up to four rows: numbers or texts, some missing, either way around.
MCSortInputs ==
    [part : {"sort"}, dir : {1, -1}, texts : BOOLEAN,
     values : UNION {[1 .. n -> {Missing, 1, 2}] : n \in 1 .. 4}]

=============================================================================
