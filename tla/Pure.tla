-------------------------------- MODULE Pure --------------------------------
(***************************************************************************)
(* The pure parts of the program over whatever inputs they may get: one     *)
(* step picks an input, the invariants say what the operators must make of  *)
(* it.  The ring buffer, which is filled step by step, is the one input     *)
(* that moves.                                                              *)
(***************************************************************************)
EXTENDS Ring, Series, Readings, Table

CONSTANTS
    SeriesInputs,   \* samples of a line, in any order, the least hole, the window
    SteadyInputs,   \* a view, its window, a poll interval, when a miner answered
    MinerInputs,    \* sensors of a miner's boards, and what it tells when asked
    LineInputs,     \* rows of the fleet, series of /api/history, a filter
    RowInputs,      \* a row of the fleet table
    SortInputs      \* a column of the table, a direction

VARIABLE input

\* A miner that answers every poll, each at most half an interval late: answers come in
\* order and at most one interval and a half apart, however soon one follows a late one.
\* (The interval is the one the page is told, in which fractions of a second are cut off.)
OnTime(x) ==
    \A n \in DOMAIN x.times :
        LET next == IF n < Len(x.times) THEN x.times[n + 1] ELSE x.now
        IN  x.times[n] <= next /\ 2 * (next - x.times[n]) <= 3 * x.poll

\* An optional reading is a set of at most one.
Readable(S) == IsFiniteSet(S) /\ S \subseteq Int

ASSUME PureAssumption ==
    /\ \A x \in SeriesInputs :
         /\ x.part = "series" /\ x.raw \in Seq([t : Int, v : Int \cup {NotFinite}])
         /\ x.gap \in Nat /\ x.since \in Int /\ x.tMax \in Int
    /\ \A x \in SteadyInputs :
         /\ x.part = "steady" /\ x.view \in {"miner", "type"} /\ x.span \in Nat
         /\ x.poll \in Nat \ {0}
         /\ x.times \in Seq(Nat) \ {<<>>} /\ x.now \in Nat /\ OnTime(x)
    /\ \A x \in MinerInputs :
         /\ x.part = "miner" /\ x.axe \in BOOLEAN
         /\ Len(x.boards) \in Nat /\ DOMAIN x.boards = 1 .. Len(x.boards)
         /\ \A i \in DOMAIN x.boards, f \in {"board", "chips", "inlet", "outlet"} :
              Readable(x.boards[i][f])
         /\ \A f \in x.answers : Readable(f.chip) /\ Readable(f.vr)
    /\ \A x \in LineInputs :
         /\ x.part = "lines" /\ x.rows \in Seq(FleetRow)
         /\ Len(x.series) \in Nat /\ DOMAIN x.series = 1 .. Len(x.series)
         /\ \A n \in DOMAIN x.series : FromHistory(x.series[n])
    /\ \A x \in RowInputs :
         /\ x.part = "row" /\ x.row.hasAsic \in BOOLEAN /\ x.row.hasVr \in BOOLEAN
         /\ {x.row.asic, x.row.vr, x.row.avg} \subseteq Int \cup {Missing}
    /\ \A x \in SortInputs :
         /\ x.part = "sort" /\ x.dir \in {1, -1} /\ x.texts \in BOOLEAN
         /\ x.values \in Seq(Nat \cup {Missing})

PureInit == input = [part |-> "none"] /\ Init

PureNext ==
    \/ input = [part |-> "none"] /\ Next /\ UNCHANGED input
    \/ /\ input.part = "none" /\ buf = [i \in Slots |-> Zero] /\ UNCHANGED vars
       /\ input' \in SeriesInputs \cup SteadyInputs \cup MinerInputs
                       \cup LineInputs \cup RowInputs \cup SortInputs

PureSpec == PureInit /\ [][PureNext]_<<input, vars>>

-----------------------------------------------------------------------------
\* The chart breaks lines exactly at holes, and drops to zero there and at an outage
\* (chartSegments).
BreaksAtHoles ==
    input.part = "series" =>
        BrokenAtHoles(input.raw, input.gap, input.tMax) /\ ZeroAtHoles(input.raw, input.gap, input.tMax)

\* The axes hold every point (drawChart).
DrawnInside == input.part = "series" => OnCanvas(input.raw, input.gap, input.since, input.tMax)

\* The chart draws every sample and invents none (chartSegments).
SamplesDrawn == input.part = "series" => DrawsSamples(input.raw, input.gap, input.tMax)

\* A miner that answers every poll has one unbroken line up to the moment its next answer
\* comes: by miner always, by type if the polls fill the buckets (chartGapThresholdMs,
\* typeAggBucketMs).  That leaves out poll intervals above 300 s in windows above a day and
\* above 900 s in those above three; the settings have no greatest interval.
UnbrokenWhileSampled ==
    input.part = "steady" /\ (input.view = "type" => PollsFill(input.span, input.poll)) =>
        Unbroken(input.view, input.span, input.poll, input.times, input.now)

\* The temperatures of rows and snapshot agree (detailFromMinerData).
RowsWithinRange ==
    input.part = "miner" => InRange(Snapshot(input.axe, input.boards, input.answers))

EnrichedInput == Charted(input.series, input.rows, input.picked)

\* Merging the series of a miner mixes no samples and keeps one for every time, the later
\* one of two at one time (mergeSeriesByMiner), and the view by type counts every sample in its bucket (aggregateHashrateByType).
LinesKeepSamples ==
    input.part = "lines" => KeepSamples(EnrichedInput) /\ CountsOnce(EnrichedInput, 2)

\* "IP switches and old MAC-keyed history collapse to a single line", and nothing else
\* does, for miners with hostnames and ids of their own (enrichSeriesFromLive, mergeSeriesByMiner).
IdsCollapse ==
    input.part = "lines" /\ OwnIds(input.rows) => OneLineEach(input.series, input.rows)

\* "One chart series per physical miner", whatever their hostnames (mergeSeriesByMiner).
OneLinePerMiner == input.part = "lines" => LinesApart(input.series, input.rows)

\* Every line of the chart has a name, whatever ids the history is under (hostnameLabel).
LegendNames == input.part = "lines" => NamesLines(input.series, input.rows, input.picked)

\* The red rows are those the filters find (isWarm, applyFilters).
WarmMatchesFilters == input.part = "row" => WarmIsFiltered(input.row)

\* The table is in order (sortList).
SortsRows ==
    input.part = "sort" =>
        InOrder([n \in DOMAIN input.values |-> [place |-> n, value |-> input.values[n]]],
                input.texts, input.dir)

=============================================================================
