------------------------------- MODULE Series -------------------------------
(***************************************************************************)
(* How web/static/app.js turns the series of /api/history into the lines of *)
(* the chart: each series is matched with a row of the fleet                *)
(* (enrichSeriesFromLive), filtered, and merged with the others of its      *)
(* miner (mergeSeriesByMiner) or collapsed by type                          *)
(* (aggregateHashrateByType).  After a change of identity the samples of    *)
(* one miner may be under several ids.                                      *)
(*                                                                          *)
(* A text is a record [kind, name] like the ids of MinerIdentity; a         *)
(* hostname, model or label is a "bare" one.  Make and model are one name,  *)
(* and the other fields that are copied along are left out.                 *)
(***************************************************************************)
EXTENDS MinerIdentity, Chart

CONSTANTS
    Models,         \* make and model as the miners report them
    BadLabels,      \* lower-case names that isBadHostLabel refuses
    MaxLines        \* lines per chart

ASSUME SeriesAssumption ==
    /\ None \notin Models
    /\ BadLabels \subseteq Hostnames
    /\ MaxLines \in Nat \ {0}
    /\ \A h \in Hostnames : LowerHost[LowerHost[h]] = LowerHost[h]

Bare(name) == Key("bare", name)
Empty == Bare(None)

\* The JavaScript x || y.
Or(x, y) == IF x = Empty THEN y ELSE x
OrName(x, y) == IF x = None THEN y ELSE x

-----------------------------------------------------------------------------
(* Names *)

\* cleanHostname: without the prefix of an id.
Clean(text) == IF text.kind = "host" THEN Bare(text.name) ELSE text

Lower(text) == [text EXCEPT !.name = IF @ \in Hostnames THEN LowerHost[@] ELSE @]

\* Mutant: a MAC passes for a hostname.
BadHostLabelNoMac(text) ==
    text = Empty \/ text.kind \in {"ip", "sn"} \/ Lower(text).name \in BadLabels

\* isBadHostLabel: addresses, MACs, serials and some factory names.
BadHostLabel(text) ==
    text = Empty \/ text.kind \in {"ip", "mac", "sn"} \/ Lower(text).name \in BadLabels

\* hostnameLabel: the first candidate that names a miner, else the model.  (The
\* candidate already has the casing of the live hostname if that is the one.)
HostnameLabel(candidates, model) ==
    LET n == SelectInSeq(candidates, LAMBDA text : ~BadHostLabel(Clean(text)))
    IN  IF n # 0 THEN Clean(candidates[n]) ELSE Bare(model)

-----------------------------------------------------------------------------
(* Matching with the fleet *)

\* seriesLabel of the store: what the server calls a series of one of its rows.
ServerLabel(row) == Bare(OrName(row.host, row.model))

\* Mutant: history under a MAC is not looked up.
LiveRowNoMac(s, rows) ==
    LET byId == SelectLastInSeq(rows, LAMBDA m : s.id = StableIDOf(m))
        byIP == SelectLastInSeq(rows, LAMBDA m : s.id = Key("ip", m.ip))
    IN  IF byId # 0 THEN byId ELSE byIP

\* The row of a series, 0 if there is none: by id, earlier hostname id, MAC, address, or
\* by the hostname in its label; in each map the last row with the key has it.
LiveRow(s, rows) ==
    LET hostId(m) == Lower(Key("host", m.host))
        name   == Lower(Clean(Or(s.label, s.id)))
        byId   == SelectLastInSeq(rows, LAMBDA m : \/ s.id = StableIDOf(m)
                                                   \/ m.host # None /\ s.id = hostId(m))
        byMAC  == SelectLastInSeq(rows, LAMBDA m : m.mac # None /\ s.id = Key("mac", m.mac))
        byIP   == SelectLastInSeq(rows, LAMBDA m : s.id = Key("ip", m.ip))
        byHost == SelectLastInSeq(rows, LAMBDA m : m.host # None /\ name = Clean(hostId(m)))
    IN  IF byId # 0 THEN byId ELSE IF byMAC # 0 THEN byMAC ELSE IF byIP # 0 THEN byIP ELSE byHost

\* enrichSeriesFromLive for one series.
Enriched(s, rows) ==
    LET n        == LiveRow(s, rows)
        liveHost == IF n = 0 THEN Empty ELSE Bare(rows[n].host)
        model    == IF n = 0 THEN s.model ELSE OrName(rows[n].model, s.model)
        hostname == Clean(Or(liveHost, s.label))
    IN  [id          |-> s.id,
         model       |-> model,
         hostname    |-> hostname,
         canonicalId |-> IF n = 0 THEN Empty ELSE StableIDOf(rows[n]),
         label       |-> HostnameLabel(<<liveHost, hostname, s.label, s.id>>, model),
         points      |-> s.points]

\* The filters of loadHistory: by the row if there is one, else by the series itself
\* (seriesPassesFilters).  Here a filter is a set of models, {} if none is selected.
OnChart(s, rows, picked) ==
    \/ picked = {}
    \/ IF s.canonicalId # Empty
       THEN \E m \in ToSet(rows) : StableIDOf(m) = s.canonicalId /\ m.model \in picked
       ELSE s.model \in picked

Charted(series, rows, picked) ==
    LET take(kept, s) == IF OnChart(Enriched(s, rows), rows, picked)
                         THEN Append(kept, Enriched(s, rows)) ELSE kept
    IN  FoldLeft(take, <<>>, series)

-----------------------------------------------------------------------------
(* One line per miner *)

\* mergePoints: in order of time; of two samples of one time the later in the list.
Latest(s, p) ==
    IF p.v # NotFinite /\ \E o \in ToSet(s) : o.t = p.t
    THEN [i \in DOMAIN s |-> IF s[i].t = p.t THEN p ELSE s[i]]
    ELSE ByTime(s, p)
MergePoints(a, b) == FoldLeft(Latest, <<>>, a \o b)

HostOf(s) == Lower(Clean(Or(s.hostname, Or(s.label, Or(s.canonicalId, s.id)))))

\* The key of the merge: the hostname, so that changes of address and MAC stay one line,
\* else the row's or the series' own id.
LineKey(s) ==
    IF BadHostLabel(HostOf(s)) THEN Or(s.canonicalId, s.id) ELSE Key("h", HostOf(s).name)

LineId(s) ==
    IF BadHostLabel(HostOf(s)) THEN Or(s.canonicalId, s.id) ELSE Key("host", HostOf(s).name)

Relabeled(line) ==
    [line EXCEPT !.label =
        Or(HostnameLabel(<<line.hostname, line.label, line.canonicalId, line.id>>, line.model), @)]

\* Mutant: the points of the second series replace those of the first.
JoinedReplacing(line, s) ==
    Relabeled([line EXCEPT !.points = s.points, !.canonicalId = Or(@, s.canonicalId),
                           !.hostname = Or(s.hostname, @), !.model = OrName(s.model, @)])

Joined(line, s) ==
    Relabeled([line EXCEPT !.points = MergePoints(@, s.points), !.canonicalId = Or(@, s.canonicalId),
                           !.hostname = Or(s.hostname, @), !.model = OrName(s.model, @)])

\* One turn of mergeSeriesByMiner.
Merge(lines, s) ==
    LET n == SelectInSeq(lines, LAMBDA line : line.key = LineKey(s))
    IN  IF n = 0
        THEN Append(lines, Relabeled([key |-> LineKey(s), id |-> LineId(s), model |-> s.model,
                                      hostname |-> s.hostname, canonicalId |-> s.canonicalId,
                                      label |-> s.label, points |-> s.points]))
        ELSE [lines EXCEPT ![n] = Joined(@, s)]

Cut(lines) == IF Len(lines) > MaxLines THEN SubSeq(lines, 1, MaxLines) ELSE lines

\* The lines of a view of single miners: those with a label, up to the limit.
MinerLines(series, rows, picked) ==
    LET take(kept, line) == IF line.label # Empty THEN Append(kept, line) ELSE kept
    IN  Cut(FoldLeft(take, <<>>, FoldLeft(Merge, <<>>, Charted(series, rows, picked))))

-----------------------------------------------------------------------------
(* One line per type *)

\* One more value of a bucket: count, sum, least and greatest (the points of the lines are
\* sum / n, min and max).
Counted(b, v) == [n |-> b.n + 1, sum |-> b.sum + v, min |-> IF v < b.min THEN v ELSE b.min,
                  max |-> IF v > b.max THEN v ELSE b.max]

\* Start of the bucket of a sample.
StartOf(p, width) == p.t - (p.t % width)

\* One turn of the inner loop, over the samples of a series.
Bucketed(buckets, p, width) ==
    LET start == StartOf(p, width)
    IN  IF p.v = NotFinite THEN buckets
        ELSE [t \in DOMAIN buckets \cup {start} |->
                IF t # start THEN buckets[t]
                ELSE IF t \in DOMAIN buckets THEN Counted(buckets[t], p.v)
                ELSE [n |-> 1, sum |-> p.v, min |-> p.v, max |-> p.v]]

\* One turn of the outer loop, over the series, for the buckets of one type.
BucketedSeries(buckets, s, model, width) ==
    IF s.model = model
    THEN FoldLeft(LAMBDA b, p : Bucketed(b, p, width), buckets, s.points) ELSE buckets

\* aggregateHashrateByType: type -> start of bucket -> its numbers.  Series of unknown
\* type are left out.
TypeLines(series, width) ==
    [model \in {s.model : s \in ToSet(series)} \ {None} |->
        FoldLeft(LAMBDA b, s : BucketedSeries(b, s, model, width), [t \in {} |-> 0], series)]

-----------------------------------------------------------------------------
(* What the page gets *)

\* A row of the fleet, as Upsert stores it.
FleetRow == {m \in [ip : Addresses, host : Hostnames \cup {None}, mac : Macs \cup {None},
                    serial : Serials \cup {None}, error : BOOLEAN, model : Models \cup {None}] :
               WithPlainMac(m) = m}

\* The ids under which the samples of a device may be, after changes of its identity.
IdsOf(row) == {StableIDOf(row)} \cup IdentityAliases(row)

HistoryIds == UNION {IdsOf(m) : m \in FleetRow}

\* A series of /api/history has the names of the row with its id, else its id for a label.
FromHistory(s) ==
    /\ s.id \in HistoryIds
    /\ s.label = s.id \/ \E m \in FleetRow : s.id = StableIDOf(m) /\ s.label = ServerLabel(m)
    /\ s.model \in Models \cup {None}
    /\ s.points \in Seq([t : Int, v : Int \cup {NotFinite}])

-----------------------------------------------------------------------------
\* The finite samples of a series or line, in time order if that is strict.
Finite(points) == {p \in ToSet(points) : p.v # NotFinite}
Ordered(points) == \A i, j \in DOMAIN points : i < j => points[i].t < points[j].t

\* Samples survive the merge: the lines have ids of their own (the legend's flags and
\* colours go by id), the line of a series has a sample of every time the series was sampled
\* at (of two series' samples at one time the later in the list), in order of time if there
\* was anything to merge, and no line has a sample of another.
KeepSamples(series) ==
    LET lines == FoldLeft(Merge, <<>>, series)
        ofLine(id) == {s \in ToSet(series) : LineId(s) = id}
        samplesOf(id) == UNION {Finite(s.points) : s \in ofLine(id)}
    IN  /\ \A i, j \in DOMAIN lines : lines[i].id = lines[j].id => i = j
        /\ {line.id : line \in ToSet(lines)} = {LineId(s) : s \in ToSet(series)}
        /\ \A line \in ToSet(lines) :
             /\ Finite(line.points) \subseteq samplesOf(line.id)
             /\ \A p \in samplesOf(line.id) : \E q \in Finite(line.points) : q.t = p.t
             /\ Ordered(line.points) \/ \E s \in ofLine(line.id) : line.points = s.points

\* "Chart legend label: hostname only (never IP / MAC / raw id ...)": every line has such a
\* name, and no series is left out for want of one, unless the model is unknown too: a
\* miner without name, MAC and serial that has not answered since the program started.
NamesLines(series, rows, picked) ==
    LET lines == MinerLines(series, rows, picked)
    IN  /\ \A line \in ToSet(lines) : line.label.kind = "bare" /\ line.label # Empty
        /\ Len(lines) < MaxLines =>
             \A s \in ToSet(Charted(series, rows, picked)) :
                 s.model # None => \E line \in ToSet(lines) : line.id = LineId(s)

\* Those of the ids of a device that the page looks for: not its serial number.
PageIds(row) == {id \in IdsOf(row) : id.kind # "sn"}

\* Two series are on one line if and only if their ids are of one row.
OneLineEach(series, rows) ==
    LET lineOf(s) == LineKey(Enriched(s, rows))
    IN  \A m, o \in ToSet(rows), s, u \in ToSet(series) :
            s.id \in PageIds(m) /\ u.id \in PageIds(o) => (lineOf(s) = lineOf(u) <=> m = o)

\* "One chart series per physical miner": the series of two rows are on two lines.
LinesApart(series, rows) ==
    \A m, o \in ToSet(rows), s, u \in ToSet(series) :
        s.id = StableIDOf(m) /\ u.id = StableIDOf(o) /\ m # o =>
            LineKey(Enriched(s, rows)) # LineKey(Enriched(u, rows))

\* The rows have hostnames, and no id of one is an id of another.
OwnIds(rows) ==
    /\ \A m \in ToSet(rows) : DistinctiveHostname(m.host) # None
    /\ \A m, o \in ToSet(rows) : PageIds(m) \cap PageIds(o) # {} => m = o

\* Every finite sample of a known type is in a bucket, and a bucket has the count, the sum,
\* the least and the greatest of exactly the samples of its time, wherever they are.
CountsOnce(series, width) ==
    LET lines == TypeLines(series, width)
        sampleAt(x) == series[x[1]].points[x[2]]
        placesOf(model) ==
            UNION {{i} \X {n \in DOMAIN series[i].points : series[i].points[n].v # NotFinite} :
                     i \in {k \in DOMAIN series : series[k].model = model}}
        within(t, x) == t <= sampleAt(x).t /\ sampleAt(x).t < t + width
    IN  \A model \in DOMAIN lines :
          /\ \A x \in placesOf(model) : \E t \in DOMAIN lines[model] : within(t, x)
          /\ \A t \in DOMAIN lines[model] :
               LET b      == lines[model][t]
                   places == {x \in placesOf(model) : within(t, x)}
                   values == [x \in places |-> sampleAt(x).v]
               IN  /\ t % width = 0
                   /\ b.n = Cardinality(places) /\ b.sum = SumFunction(values)
                   /\ b.min = Min(Range(values)) /\ b.max = Max(Range(values))

=============================================================================
