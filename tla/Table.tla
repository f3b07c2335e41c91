------------------------------- MODULE Table -------------------------------
(***************************************************************************)
(* Filtering and sorting of the fleet table in web/static/app.js            *)
(* (applyFilters, isWarm, sortValue, sortList) over the rows that           *)
(* /api/miners sends.  The server leaves zero numbers and empty texts out   *)
(* of its JSON, so a field may be Missing.  Texts are numbered in the order *)
(* of the collation, from 1.                                                *)
(***************************************************************************)
EXTENDS Integers, SequencesExt

CONSTANT Missing        \* a field that is not there, or a filter that is not set

ASSUME TableAssumption == Missing \notin Int \cup {"ok", "err", "msg"}

OrZero(x) == IF x = Missing THEN 0 ELSE x

\* JavaScript's x < y and x > y: false of a missing number.
Less(x, y) == x # Missing /\ y # Missing /\ x < y

-----------------------------------------------------------------------------
\* The chip temperature to filter and sort by; a miner without sensors has the average.
AsicTemp(m) == IF m.hasAsic THEN m.asic ELSE OrZero(m.avg)
VrTemp(m) == IF m.hasVr THEN m.vr ELSE 0

\* A pair of number inputs: neither bound is set, or the value respects it.
InBounds(x, bounds) == ~Less(x, bounds.min) /\ ~Less(bounds.max, x)

\* The filters over numbers; the VR filter asks for a sensor, the others do not.
PassesNumbers(m, f) ==
    /\ InBounds(m.hashrate, f.hashrate)
    /\ InBounds(AsicTemp(m), f.asic)
    /\ \/ f.vr = [min |-> Missing, max |-> Missing]
       \/ m.hasVr /\ InBounds(VrTemp(m), f.vr)
    /\ \A k \in {"wattage", "chips", "efficiency"} : InBounds(OrZero(m[k]), f[k])

\* applyFilters for one row: the words that contain the search text, the selects, of
\* which each passes all if nothing is selected, the two menus and the numbers.
Passes(m, f) ==
    /\ f.search = Missing \/ f.search \in m.words
    /\ \A k \in DOMAIN f.picked : f.picked[k] = {} \/ m.facet[k] \in f.picked[k]
    /\ f.mining = Missing \/ m.mining = f.mining
    /\ f.status = "ok" => ~m.error
    /\ f.status = "err" => m.error
    /\ f.status = "msg" => m.messages
    /\ PassesNumbers(m, f)

Warm == 70

\* Mutant: a miner that only reports an average is never warm.
IsWarmBySensor(m) ==
    \/ m.hasAsic /\ m.asic # Missing /\ m.asic >= Warm
    \/ m.hasVr /\ m.vr # Missing /\ m.vr >= Warm

\* isWarm: the rows in red.
IsWarm(m) ==
    \/ m.hasAsic /\ m.asic # Missing /\ m.asic >= Warm
    \/ m.hasVr /\ m.vr # Missing /\ m.vr >= Warm
    \/ ~m.hasAsic /\ OrZero(m.avg) >= Warm

-----------------------------------------------------------------------------
\* Mutant: a missing value stays undefined, and compares as equal to every other.
CompareUndefined(texts, a, b) == IF Missing \in {a, b} THEN 0 ELSE a - b

\* The comparator of sortList on two values: a missing one becomes the empty text.  Texts
\* are compared as texts, and so is whatever stands on the right of one; else the right
\* one is taken as a number, which the empty text is zero as.
Compare(texts, a, b) ==
    IF a = Missing THEN (IF b = Missing THEN 0 ELSE -1)
    ELSE IF texts /\ b = Missing THEN 1 ELSE a - OrZero(b)

\* sortList: Array.sort is stable; a row goes behind those it does not precede.
Placed(s, m, texts, dir) ==
    InsertAt(s, 1 + SelectLastInSeq(s, LAMBDA o : Compare(texts, o.value, m.value) * dir <= 0), m)
Sorted(rows, texts, dir) == FoldLeft(LAMBDA s, m : Placed(s, m, texts, dir), <<>>, rows)

-----------------------------------------------------------------------------
NoBounds == [min |-> Missing, max |-> Missing]
NoFilter(m) ==
    [search |-> Missing, picked |-> [k \in DOMAIN m.facet |-> {}], mining |-> Missing,
     status |-> Missing, hashrate |-> NoBounds, asic |-> NoBounds, vr |-> NoBounds,
     wattage |-> NoBounds, chips |-> NoBounds, efficiency |-> NoBounds]
FromWarm == [min |-> Warm, max |-> Missing]

\* The temperature filters find the rows that are red from 70 degrees on, and besides them
\* only those with a sensor that reads exactly zero: that reaches the page as a missing
\* number, which is below no bound.
WarmIsFiltered(m) ==
    LET unread == (m.hasAsic /\ m.asic = Missing) \/ (m.hasVr /\ m.vr = Missing)
    IN  (IsWarm(m) \/ unread) <=> \/ Passes(m, [NoFilter(m) EXCEPT !.asic = FromWarm])
                                  \/ Passes(m, [NoFilter(m) EXCEPT !.vr = FromWarm])

\* Rows come out in order, each once, a missing number among the zeros and a missing
\* text first, and rows of one value in the order they had.
InOrder(rows, texts, dir) ==
    LET out == Sorted(rows, texts, dir)
    IN  /\ ToSet(out) = ToSet(rows) /\ Len(out) = Len(rows)
        /\ \A i, j \in DOMAIN out : i < j =>
             /\ dir * OrZero(out[i].value) <= dir * OrZero(out[j].value)
             /\ out[i].value = out[j].value => out[i].place < out[j].place

=============================================================================
