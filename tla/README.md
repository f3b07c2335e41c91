# hasherdash in TLA+

hasherdash watches a fleet of ASIC miners: a Go server finds miners on the LAN, polls
each of them on a fixed interval, keeps one row per miner and a history of its metrics,
and serves both to a page written in plain JavaScript. This directory holds TLA+ modules
of its core logic, the TLC configurations that check them on small instances, and proofs
for every value of the constants.

Line numbers below refer to files under the repository root.

## 1. The system

| Part | Code | State | Operations | Talks to |
|---|---|---|---|---|
| Miner identity | `internal/models/miner.go` | none | `StableID`, `DistinctiveHostname`, `NormalizeMAC`, `ApplyStableID` | called by poller and store |
| Fleet store | `internal/store/store.go` | fleet map, rings, `polling`, `lastPollErr` | `Open`, `Upsert`, `MarkPoll`, `Prune`, `List`, `Get`, `History`, `Meta`, `Close` | written by the poll loop, read by HTTP handlers, under one RWMutex |
| History ring | `store.go:48-76` | `buf`, `head`, `full` | `push`, `slice` | one per miner and metric in memory mode |
| SQLite metrics | `internal/store/sqlite.go` | table `metric_samples` | `insertSamples`, `renameMetrics`, `pruneMetricsBefore`, `historyFromDB` | called by the store after it released its lock |
| Poll loop | `internal/poller/poller.go` | ticker, `kick` channel, context | `Run`, `tick`, `prune`, `RequestRescan` | drives source and store; kicked by a handler |
| asic-rs source | `internal/poller/asicrs.go` | `discovered`, `lastScan`, `forceRescan` under a mutex; worker goroutines of a cycle | `Collect`, `resolveIPs`, `RequestRescan`, `Forget`, `pollOne` | asic-rs library, miners |
| Axe temperatures | `internal/axetemp/temps.go` | none | `SameTemp`, `NeedsFallback`, `FetchSystemTemps`, `MinMax` | miner's `/api/system/info` |
| Configuration | `internal/config/config.go` | settings under construction | `Load`: defaults, `applyFile`, `applyEnv`, `clamp` | read once by `main` |
| HTTP API | `internal/api/server.go` | none | health, meta, miners, miner, history, rescan | store, poll loop |
| Page: fetches | `web/static/app.js`: `refresh`, `loadDetail`, `loadHistory`, `bind` | `state`: fleet, selection, history, filters, hide flags, Rescan button | refresh, rescan, load detail and history; handlers of rows, filters, metric, range, legend | HTTP API; every handler shares `state` |
| Page: series | `app.js`: `enrichSeriesFromLive`, `mergeSeriesByMiner`, `aggregateHashrateByType` | none | match series with rows, merge by miner, aggregate by type, name lines | called by `loadHistory` and the chart |
| Page: chart | `app.js`: `chartSegments`, `drawChart` | canvas | segments, gap threshold, buckets, axes | called after every load |
| Page: table | `app.js`: `applyFilters`, `isWarm`, `sortList` | none | filter, warm rows, sort | called by every render |
| Page: settings | `app.js`: the `load...` and `set...` functions, `historyTimeParams`, `chartWindowBounds` | columns, order, range, panel width, sections, each with a copy in `localStorage` | load, save, drag, resize, reload | decides what table and chart show and what is asked of the API |
| Start and shutdown | `cmd/hasherdash/main.go` | context | start everything, wait for the signal, shut HTTP down, close the store | all |

What is hard, and what makes each part correct:

* **Identity over time.** A miner shows different subsets of hostname, MAC and serial from
  poll to poll and changes its IP address. Its row and history must follow it, one row per
  box, and never mix with another box's. Rows are found by whichever field matches, rekeyed,
  folded, and marked by polls that failed and know only the address.
* **Crash and failure.** The fleet map changes under the lock, the SQLite rows afterwards,
  one transaction per older key, then the insert. A process may stop between any two; a
  transaction may fail and is only logged. No sample may be lost or strand for good.
* **Interleaving.** Handlers request rescans with a flag and then a token while the loop
  takes tokens, ticks and cancellation, and reads the flag later. Workers share a semaphore.
  The `polling` badge has to be honest, and the browser guesses from it.
* **Limits.** Ring capacity, the TTL and retention cutoffs, the one-token channel, durations
  that overflow.
* **Overlapping fetches.** Timer, buttons and inputs start fetch chains that write the page's
  one state when they answer; nothing ties an answer to the newest request, each may fail.
* **Names that are not identities.** The page merges series by names it derives from labels;
  one miner may have history under several ids, two miners may have one name.
* **Saved state of another version.** Columns, keys, ranges and widths come from storage that
  may be damaged, and must still agree with each other after any sequence of clicks.
* **Missing data.** The chart must break exactly where samples are missing, whatever order
  they come in, and never where the server polled on time.
* **Sources that fill in for each other.** Chip, chain and regulator sensors and a second
  HTTP source are merged field by field.

PROJECT.json lists every component with its status, and under `hazards` each of these at
its line with the properties that cover it.

## 2. Modules

| Module | Models | State ↔ code |
|---|---|---|
| `MinerIdentity` | identity functions | ids are records `[kind, name]`: the kind plays the part of the prefixes `host:`, `sn:` ... Strings are members of small sets, a normalisation is a function from spelling to canonical spelling |
| `Store` | `Upsert`, `MarkPoll`, `Prune`, restart, DHCP | `miners` is `Store.miners`; `samples` is `Store.history` or the SQLite table; `renames` and `unsaved` are the locals `rekeys` and `samples` of the `Upsert` between its unlock and its last transaction |
| `Fleet` | abstract: the list of the miners that answered lately and one log of samples per miner; what `Store` promises of miners with names and addresses of their own | `Store` implements it with `listed` and `named` read off the ids of rows, `log` and `filing` off the ids of samples |
| `RecentPoints` | abstract: the log of the last `Capacity` points | |
| `Ring` | the ring buffer | `buf`, `head`, `full`; implements `RecentPoints` with `log <- Slice` |
| `Poller` | `Run`, `tick`, `Collect`, `RequestRescan`, `waitUntilIdle` | `pc` is the place of the loop's goroutine; `worker[a]` that of the goroutine of an address in `Collect`, `result[a]` what it put into the channel of results, `sem` and `wg` the semaphore and the WaitGroup of the cycle; the two deferred calls of a goroutine are steps of their own; `client[c]` is a browser's click handler |
| `Config` | `Load` | one action per layer; durations in wrapping integers |
| `Readings` | temperatures in `detailFromMinerData`, `axetemp` | operators; `FromBoards` is the loop over the boards, `Filled` the fallback |
| `Dashboard` | `refresh`, `loadDetail`, `loadHistory`, the rescan handler and the handlers that start them | the variables are fields of `state` and the filter's `<select>`; `task[s]` is one run of an async function with the fetch it awaits; `seen` are the fleets its answer may show |
| `Settings` | what the page keeps in `localStorage` | each setting and its saved copy `{v}` or `{}`; a reload is the load functions run on the copies |
| `Series` | `enrichSeriesFromLive`, `mergeSeriesByMiner`, `mergePoints`, `hostnameLabel`, `aggregateHashrateByType` | operators; `Merge` is one turn of the loop that merges, `Bucketed` and `BucketedSeries` of the two nested loops by type |
| `Chart` | `chartSegments`, `chartGapThresholdMs`, `typeAggBucketMs`, the axes of `drawChart` | operators; `Taken` is one turn of the loop of `chartSegments`, `Closed` what follows it, `Scale` the two axes |
| `Table` | `applyFilters`, `isWarm`, `sortValue`, `sortList` | operators over rows with `Missing` fields |
| `Pure` | the pure parts and the ring together | `input` is an input of one of the operators: one step picks it, or pushes a point into the ring. `PureAssumption` says what inputs the program can get |

`MC*` modules give constants their values, `*Proofs` modules hold the theorems. `FoldLemmas`
holds the lemmas about loops over sequences that `ConfigProofs`, `PureProofs` and
`SeriesProofs` use.

How they compose:

* `Store` and `Poller` are two views of one loop. `Poller` has every step of the cycle and
  treats the store as the addresses `Prune` returns; `Store` has everything a call does to rows
  and history and lets the calls come in any order, which includes the one `Poller` gives.
  All writers run on the loop's goroutine, so `Store` has at most one `Upsert` under way.
* `Poller` has the browser's wait for the end of a cycle against the real loop; `Dashboard`
  has the same handler against everything else on the page, and there the wait just ends.
* `Series` extends `MinerIdentity`, whose ids and labels its inputs carry, and `Chart`, whose
  lines it produces. `Dashboard` says which series and rows meet, `Series` what becomes of them.

Abstractions that a reader should know:

* `Store` keeps one metric per poll; a sample carries the device it was measured on, which
  the code does not know. The properties compare it with the id the sample is filed under.
* In `Store` a report and its `Upsert` are one step. In the code the reports of a cycle are
  collected before the first is stored.
* `Poller` takes `resolveIPs` as one step: it holds the source's mutex throughout.
* `Poller` leaves `pollMu` out: only the loop's goroutine calls `tick`, so `TryLock` never fails.
* The target lists of `Config` are treated alike and modelled as one.
* Cancelled workers deliver an empty detail that is upserted as a row without an address
  (*cut short* in section 3); `Store` has no such row.
* `Dashboard` has one filter, the make, for the four selects, which `fillSelect` treats alike;
  metric and range are one value, the view. `/api/meta` and `/api/miners` are one answer,
  since `refresh` awaits both. A fetch that times out is one that fails.
* In `Settings` instants and widths are small integers; a saved column list is its set,
  because every writer filters `COLUMNS` and so keeps the table's order.
* In `Series` make and model are one name, in `Table` texts are numbered in collation order.

History variables, which no guard reads: `lastOk` (Store) and `covered` (Poller).

## 3. Runs

Passing runs:

| Run | Question | Bounds, and why they are enough |
|---|---|---|
| `memory` | in memory mode rows keep their identity and live until their TTL and no longer, one miner is one row, and the store is the list and the logs of `Fleet` | two devices, one with good names in two spellings and one with a factory hostname, zero MAC and a serial; three addresses with reserved leases, so that one device can move; polls that show all, only the hostname or only the MAC, so that keys change to and fro; three instants with TTL 1, so that a row can be fresh, at its TTL and past it |
| `sqlite` | history across crashes: under the row after the next `Upsert`, and the logs of `Fleet` at every step | one device, two addresses, all steps of `Upsert` separate, a restart between any two |
| `takeover` | the fleet map when miners take over each other's addresses and SQLite fails | two devices that may lease either of two addresses, any rename or insert may fail, one instant |
| `loop` | badge, flag and token; slots, polls in flight and what `Collect` goes on with; requests are served even if every poll of a cycle fails, the loop ends | three addresses for one slot, so that one goroutine polls, one would take a slot that came back too early, and one a slot that came back twice; none configured, so that cycles fail too; one browser, which can press again while its first token is still in the channel |
| `load` | layers and clamp | texts of every kind for every pair of settings that interact; a unit of half a second and modulus 256, so that seconds are scaled and "for ever" overflows |
| `page` | answers out of order, failures, a fleet that changes: filters and flags fit the lines, the button comes back, the page settles on what its user chose | two fetch chains at once, which is what it takes for one to overtake the other; two miners of two makes, of which one leaves; a view whose lines are miners and one whose lines are makes, in which only one miner has samples, so that lines, options and flags appear and go |
| `settings` | settings and their copies agree, the panel fits, the request covers the chart, the order is visible | three columns (locked, on, off at first); copies absent, partly foreign or valid; windows with room for every width and for the least; ranges of one and two units and custom ones with both, one or no bound, asked at two instants; drags to both sides of the bounds |
| `inputs` | the pure parts and the ring | a ring of four slots past the first wrap and round again; series of three points, which is a hole before, between and after, in any order, with equal times and values that are no numbers; steady miners with the real numbers: the windows of the menu, poll intervals from 5 s to just above the widest bucket, each answer on time or late by up to half an interval, so that they come half an interval to one and a half apart, phases on both sides of a bucket's edge; two miners with histories under every subset of their ids (hostname, MAC, serial, address), listed or departed, with own, factory or no hostnames, the second perhaps known by a failed poll of its address only; rows around the warm limit with every field missing; columns of up to four values; miners of up to two boards with every mix of absent, equal, close and distinct readings |

`CHECK_DEADLOCK FALSE` is set where the modelled part really stops: the loop after the
signal, a finished load, and the one step of `Pure`.

Every property has a mutant (an operator defined before the definition it replaces) that a
plausible slip would produce, and TLC finds the property violated under it.

Runs that show where the code differs from what the repository says (`findings` in
PROJECT.json quote the lines):

| Run | What it shows |
|---|---|
| `steals` | a miner polled at an address that DHCP took from another takes over its history (`store.go:184-196`); the other one's row is gone long before its TTL, so `RowsLiveTTL` fails there too |
| `split` | in SQLite mode rows under a miner's older keys are not folded, because the loop asks `s.history`, which is empty there (`store.go:204`) |
| `early` | the page can report a rescan that has not begun (`app.js:440-455`) |
| `collapse` | miners of one model without hostnames, or with a factory hostname that only the server refuses, are merged into one line (`app.js:1531`) |

Divergences seen while modelling that no run of their own shows:

* *cut short*: "Partial success is OK; only fail hard if we got nothing usable"
  (`asicrs.go:100`), but a cycle whose polls were all cut short by the context reports
  success: a cancelled worker delivers an empty detail, which counts as usable because its
  error text is empty, so the return of the first error (`asicrs.go:107`) is never reached. A
  cycle in which every poll failed reports success, too: a failed poll delivers a detail and
  no error. `CycleComplete` has what does hold: a cycle with an answer never fails.
* *mirror*: `NeedsFallback` asks for a second source when the regulator reading mirrors the
  chip's, but the reading fetched is not used (`asicrs.go:436`).
* In memory mode, too, one box may have two rows, if it has a distinctive hostname, a MAC and
  a serial and its polls hide them in turn: hostname and serial at one address, then the MAC
  alone at another, then MAC and serial. The last poll finds the MAC's row and does not look
  for the hostname's, which has the same serial (`store.go:277-306`). The devices of run
  `memory` have two names at most, for which `OneRowPerIdentity` holds; `StoreOneRow` gives
  the exact condition on what polls may hide.
* *zero*: the API leaves out zero numbers (`omitempty`, `miner.go:27`); a real 0 reaches the
  page as undefined, passes every minimum filter and sorts as missing. `Table` has it so.
* *departed*: a miner that left the fleet and is known by MAC, serial or address gets no
  label and its line is dropped (`filter((s) => s.label)`), although README.md:95 says charts
  keep the series. So is the line of a miner without name, MAC and serial that has not
  answered since the program started. `LegendNames` says that these are all: a series whose
  model is known, from its row or from the API, is never left out.
* *serials*: the page looks a series up by hostname, MAC and address (`app.js:1455-1485`). A
  history that is still under a serial number while the row is under another id finds no row,
  and is dropped like a departed one. `IdsCollapse` is about the ids the page looks for
  (`PageIds`); the store renames such a history at the miner's next answer
  (`HistoryUnderRow`).
* A selection that `fillSelect` drops after a change of metric or range still filters the
  table until the next refresh: the table is rendered again after a refresh only.
  `PageSettles` says that it is then.
* A failed fetch of the history empties the filter's options from the series, the lines, and
  with them every hide flag and every selection the rows do not offer.
* A custom range with only an end sends no start, and the server answers without one; the
  comment at `app.js:321` speaks of a default window.
* README.md:99 says that Refresh kicks the backend; it only fetches again.
* A saved map of sections that is an array passes the check of `loadFilterSectionsCollapsed`
  (`app.js:99`) and is used as the map; its keys are not saved, so no section stays collapsed
  over a reload until the copy is removed. `keyless` of `Settings` is that case, which
  `ReloadRestores` leaves out.
* The saved refresh interval is not checked when it is loaded (`app.js:347`).
* `hasherdash.example.yaml:19` calls `history_points` a hard cap; `clamp` treats it as a
  minimum, which is what `RingCoversRetention` rests on.
* `UnbrokenWhileSampled` is about polls that fill the buckets (`PollsFill`): in the by-type
  view of windows above a day the interval must not be longer than the bucket, which is 5
  minutes, and 15 above three days. The buckets there, and the threshold of 2.5 of them, do
  not follow the interval (`app.js:1386`), which `config.go` bounds from below only: with a
  longer one the line of a miner that answers every poll breaks.
* `UnbrokenWhileSampled` allows a poll to be late by half an interval. A miner that misses
  one poll keeps its line in the per-miner view but may lose it in the by-type view, where a
  sample at the end of its bucket is drawn at the start.
* README says the environment wins over the file, but target lists are merged;
  `config_test.go:82` expects that, and `Precedence` checks it.

### Fairness

`loop`: weak fairness of the loop's and the workers' steps, since a goroutine that can run
does and a poll ends because every request has `ScanTimeoutSec`; weak fairness of the second
half of a handler that has done the first; strong fairness of `Stop`, since a ready
`ctx.Done()` competes with ticks and tokens in a `select` and Go picks among ready cases at
random. Nothing makes browsers click, tickers fire, intervals pass or the signal come.

`page`: weak fairness of every task's next answer, since each fetch returns or fails and
`waitUntilIdle` has a deadline. Strong fairness of the refresh timer: `setInterval` fires
again and again, and finds a slot whenever one is free (the slots are the model's bound, not
the page's). Strong fairness of an answered refresh: not every refresh fails for ever, which
`PageSettles` needs and a dead server would deny. Nothing makes users act, and
`PageSettles` claims something only of behaviours in which they, and the fleet, at last
leave the page alone. `RescanReturns` rests on the first kind alone.

## 4. Proofs

| Theorem | Says | Argument |
|---|---|---|
| `StoreType` | `TypeOK` | with lemmas that normalised names stay in their sets and the keys built from them are ids |
| `StoreRowIdentity`, `StoreUniqueAddress` | a row is under its own key; one row per address | one invariant: types, row identity, unique addresses, and that the `Upsert` under way belongs to a row. Neither is inductive alone: a failed poll may rewrite a row's address, and keeps it unique only because it finds by id or by address, which needs every row to be under its own key |
| `StoreSamplesOwned` | no sample under a foreign id, if names are the devices' own and leases reserved (`OwnNames`) | strengthened by: each row belongs to a device all of whose keys it may use, pending renames and the unsaved sample belong to one device, addresses in use are leased. Run `steals` shows that the assumption is needed |
| `StoreSamplesKept` | in SQLite mode no step loses a sample inside the retention window (action property) | needs that the `Upsert` under way belongs to a row that is in the fleet: a rename files its samples under that row, and nothing but a restart, which ends the `Upsert`, can take it away |
| `StoreRowsLive` | `RowsLiveTTL` under `OwnNames`, both storage modes | on top of the invariant above: a device that answered within the TTL has a row as young as its answer (the existence of a row alone is not inductive, `Prune` looks at ages), no row of an identified miner is younger than its device's last answer, and answers are not in the future. An `Upsert` of one device never touches rows of another, because every row it finds shares a key with the report |
| `StoreOneRow` | `OneRowPerIdentity`, if no two devices share a name (`OwnIdentities`; addresses may be shared) and polls are `Coherent` | every row shows what one poll of one device showed; in memory mode a row with a name has history, which is what makes `Upsert` drop rows under older keys; so a row that an `Upsert` keeps has no name of the report: the search would have found it, or an alias led to it. `Coherent` is `Linked` (any two polls that name a device have a name in common) or, in memory mode, `Headed` (of two polls with a common name one shows what the other is filed under). Neither can be dropped: run `split` breaks the first in SQLite mode, and section 3 has the box that breaks the second in memory mode |
| `StoreHistoryUnderRow` | `HistoryUnderRow` under the same conditions, if no transaction fails, in both storage modes | samples under an older key of a row are among those the `Upsert` under way still has to rename, and its own sample is under no older key of any row. The second half is what needs one row per identity: a second row of the box would have the first one's key among its own |
| `StoreIsFleet` | the store implements `Fleet` under `OwnNames`, in both storage modes, with crashes and failing transactions | the refinement mapping reads the abstract state off the ids alone. `OwnInv` makes it exact: the samples under a device's ids are those measured on it, so a rename, which changes ids only, is a stutter, and an `Upsert` adds one time to one log. Rows of other devices are out of its reach. An expiry in `Fleet` spares whoever answered within the TTL and lists nobody by name who did not: that is the invariant of `StoreRowsLive` before the prune. A fold drops rows only of the device it lists |
| `RingType`, `RingRefines` | the index stays in the buffer; the ring implements `RecentPoints` for every capacity | `slice` as a sequence by slots, one lemma before the buffer is full and one after |
| `PollerType`, `PollerHonest`, `PollerBounded`, `PollerComplete`, `PollerNoLostRescan` | the invariants of run `loop` for any finite set of addresses, any browsers and limit | `LoopInv`: types with "results wait for nothing but their upserts"; the exact extent of the badge; `PoolInv`: the semaphore counts the goroutines between taking a slot and giving it back and the WaitGroup those that have not ended, which is what makes an empty WaitGroup mean that all have; `SentInv`: a result is there from the moment it was sent. Each step of a goroutine moves it from one place to the next (`MovesWith`), which adds it to, or takes it from, one of the counted sets or neither. On top of it `NotFailed`: a cycle that has a goroutine or a result has not failed. No lost rescan follows because the flag is set before the token is sent |
| `ConfigPrecedence` | `Precedence`: environment over file over default, target lists added up, for any texts, files and defaults | the loops that split and merge target lists keep order and drop repetitions (`FoldLemmas`), so what is left is one case per layer |
| `ConfigRing`, `ConfigRunnable` | clamp makes a ring cover the retention and the settings runnable, for every text, file and modulus | every step keeps each setting an integer; the rest is arithmetic of `Clamped` |
| `SettingsType`, `SettingsReload` | settings the page can work with; saved copies load as the settings on screen | one invariant per group of settings. What a reload needs is that a load function is idempotent on what it produced, so the invariant keeps each setting equal to its loaded copy, but for sections whose map was found to be an array; steps that change one setting as a consequence of another (a hidden column, a foreign range) are where it could break |
| `SettingsWidth` | the panel fits the window | `Within` is a function into its bounds, also when the window leaves room for less than the least width |
| `SettingsQuery` | the request covers the chart's time axis at every instant | arithmetic of the two windows, for custom bounds in any order and on narrow screens |
| `SettingsSort` | the table stays sorted by a visible column (action property) | follows from the invariant: a step either keeps key and columns, or picks the key from the visible ones |
| `TableWarm` | `WarmMatchesFilters` for every row | the filter with nothing selected passes everything, so the two sides compare the same readings; a missing one is below no bound |
| `TableSorted` | `SortsRows`: the table is a permutation, ordered, stable, for tables of any length | loop invariant `Arranged` of the insertion: rows placed so far, sorted by value with missing ones as zeros, rows of one value in the order they had |
| `ChartSamples`, `ChartBreaks` | `SamplesDrawn`, `BreaksAtHoles` for any samples in any order | two loops: `Timed` says the first yields exactly the finite samples in order of time, `Drawing` says of the second that finished segments and the open one are smooth inside, apart by more than the threshold, at zero at their ends, and draw the samples taken so far |
| `ChartCanvas` | `DrawnInside` | what is drawn is a finite set, so the axes' least and greatest bound it; the margins are arithmetic |
| `ChartUnbroken` | `UnbrokenWhileSampled` for any number of answers, window and poll interval | samples that come in order stay in order, their distances never exceed the threshold (`NoHole`: arithmetic of buckets, at least a poll wide where polls fill them, and thresholds), so no turn of the loop closes a segment |
| `TemperaturesAgree` | `RowsWithinRange` for any number of boards | what a board reports are least and greatest values of sets that the snapshot's range is taken over; the fallback fills either both or neither |
| `SeriesCollapse` | `IdsCollapse` for any fleet and histories | the row that `LiveRow` finds for an id is the row whose id it is, because ids are the miners' own and the maps are asked in the order of the kinds; from there a line's key is the row's hostname, whichever of its ids the history is under. A hostname that `isBadHostLabel` refuses gives a key of another kind, so it cannot meet a good one |
| `SeriesKeep` | `LinesKeepSamples` for any series, samples and bucket width | merging: loop invariant `Gathered` (each line has samples of the series seen so far with its key and of no others, one for every time any of them was sampled at, in time order once there were two), on top of `Mixed` for the merge of two lists of points. That lines have ids of their own needs a key and an id to determine each other, which holds of series matched with the fleet (`Chartable`: whoever goes by a hostname for an id has one that `isBadHostLabel` refuses) and not of arbitrary ones. By type: loop invariant `Exact` of two nested loops (each bucket has the numbers of exactly the samples so far that lie in it). Its sums are sums over a set of places, in whatever order; that a set has one sum, and that one more place adds its value to it, is proved first |
| `SeriesLegend` | `LegendNames` for any fleet, histories and filters | a label is a name by construction of `hostnameLabel` or the model; relabelling a line when a series joins it keeps it so; a line of a known model has a label, so the filter keeps it |
| `PageType`, `PageButton` | filter, flags and lines fit; the button is disabled exactly while a rescan is under way | the invariant says of a task what its next answer needs: details are asked of miners, histories of views, only rescans post or wait, only they and refreshes ask for the fleet. `ButtonKept` and `ButtonEnds` carry the button through every answer |

Loops. The code's loops over slices and arrays are `FoldLeft` in the modules. The
library's induction theorems take the induction hypothesis as an operator, which the
provers cannot instantiate; `FoldLemmas` states induction over a loop for a hypothesis
that is a *set* of pairs (turns done, value so far) instead, and proves it from the
well-foundedness of the naturals. The module is parameterised by the loop's body
(`CONSTANT Op(_, _, _)`) and instantiated once per loop: `PlacedIn` of the table,
`ByTimeIn` and `TakenIn` of the chart, the loops of `Config`, and those of the series:
matching and filtering, merging points, merging series, and by type one loop inside
another. It also has what appending, inserting, and least and greatest elements do to a
sequence and its set.

Assumptions are the named `ASSUME`s of the modules: canonical spellings are canonical
(`IdentityAssumption`), constants are numbers and sets of the right kind (`StoreAssumption`,
`PollerAssumption`, with finitely many addresses, `RingAssumption`, `ConfigAssumption`, `DashboardAssumption`), what the
tables in the page's code satisfy (`SettingsAssumption`: the address column is locked and
sorts by itself, the default range is in the menu), that the marks for a missing field and for
a value that is no number are none of the values they are compared with (`TableAssumption`,
`ChartAssumption`), and what inputs the pure parts get (`PureAssumption`: types, sensors that
are optional, positive poll intervals and answers at most one and a half of them apart; rows and series are those `Upsert` stores and `/api/history` answers with,
`FleetRow` and `FromHistory`), and that lower case is lower case (`SeriesAssumption`). TLC
evaluates each in the runs. The hypotheses of the store's theorems (`OwnNames`,
`OwnIdentities`, `Coherent`) are about fleets: the devices of runs `memory` and `sqlite`
satisfy them.

Only model-checked: liveness (`RescanServed`, `StopsAfterCancel`, `PageSettles`,
`RescanReturns`), which is out of the prover's reach. Every invariant and every action
property of a passing run is the subject of a theorem.

## 5. Not modelled

* The read side (`List`, `Get`, `History`, `Meta`, `historyFromDB`, `handleHistory`): planned.
* Of the page: the theme, the collapsed panel and the refresh interval (one flag or number
  each); cells, totals, summaries and the detail panel's content, tick labels, strokes,
  colours and the legend's markup, which are formatting and drawing.
* Opening and migrating the SQLite file, logging, embedded assets, docs site, packaging.
* asic-rs: external, any answer it can give is a choice of the modules that use it.
* `deleteMetricsForMiners`: nothing calls it.

## 6. Plan

In order:

1. `History`: readers of the store against an `Upsert` between its lock and its transactions;
   windows, down-sampling, `handleHistory`'s parameters.
2. `Shutdown`: `main` closing the database while the loop is in a cycle.
3. `Cycle`: Poller and Store composed, with reports that are stale when they are stored, and
   merged rings (`rekeyLocked` with `Ring`), which need not be in order of time.
4. `Fleet` with leases that DHCP gives to another device while the old row is in the list: which
   device's log the samples go to, and what the identities shown by polls must be for none to stray.
