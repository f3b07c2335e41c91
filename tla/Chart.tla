------------------------------- MODULE Chart -------------------------------
(***************************************************************************)
(* How web/static/app.js turns the samples of a series into lines: buckets  *)
(* of the hashrate-by-type view (typeAggBucketMs), the distance above which *)
(* samples count as missing (chartGapThresholdMs), the split into lines     *)
(* (chartSegments) and the axes around them (drawChart).  Where samples are *)
(* missing a line must fall to zero instead of bridging the hole.  Times    *)
(* are half seconds, so that the factor 2.5 of the code gives integers; a   *)
(* value may be NotFinite.                                                  *)
(***************************************************************************)
EXTENDS Integers, SequencesExt

CONSTANT NotFinite      \* the value of a sample that is no number

ASSUME ChartAssumption == NotFinite \notin Nat

Seconds(n) == 2 * n
Hour == Seconds(3600)

\* windowMs: 4 and 12 hours, 1, 3 and 7 days.
Windows == {4 * Hour, 12 * Hour, 24 * Hour, 72 * Hour, 168 * Hour}

AtLeast(n, m) == IF n > m THEN n ELSE m

-----------------------------------------------------------------------------
\* Mutant: the buckets of short windows do not follow the poll interval.
TypeAggBucketFixed(span, poll) ==
    IF span <= 4 * Hour THEN Seconds(30)
    ELSE IF span <= 24 * Hour THEN Seconds(60)
    ELSE IF span <= 72 * Hour THEN Seconds(300) ELSE Seconds(900)

\* Width of a bucket for a window of the given span and the server's poll interval.
TypeAggBucket(span, poll) ==
    IF span <= 4 * Hour THEN AtLeast(AtLeast(Seconds(15), poll), Seconds(30))
    ELSE IF span <= 24 * Hour THEN AtLeast(AtLeast(Seconds(15), poll), Seconds(60))
    ELSE IF span <= 72 * Hour THEN Seconds(300) ELSE Seconds(900)

\* Buckets of windows above a day do not follow the poll interval: polls fill every one only
\* up to their width.
PollsFill(span, poll) ==
    \/ span <= 24 * Hour
    \/ poll <= IF span <= 72 * Hour THEN Seconds(300) ELSE Seconds(900)

\* 2.5 intervals of what is drawn, but at least 90 s for single miners.
GapThreshold(view, span, poll) ==
    IF view = "type" THEN (5 * TypeAggBucket(span, poll)) \div 2
    ELSE AtLeast((5 * poll) \div 2, Seconds(90))

\* Where a sample is drawn: by type, at the start of its bucket.
DrawnAt(view, span, poll, t) ==
    IF view = "type" THEN t - (t % TypeAggBucket(span, poll)) ELSE t

-----------------------------------------------------------------------------
\* One more finite sample of a list in order of time; Array.sort is stable, so it goes
\* behind those it is not earlier than.
ByTime(s, p) ==
    IF p.v = NotFinite THEN s
    ELSE InsertAt(s, 1 + SelectLastInSeq(s, LAMBDA o : o.t <= p.t), p)

\* The finite points in order of time.
Pts(raw) == FoldLeft(ByTime, <<>>, raw)

\* The extra point that takes the line to or from zero at a sample.
Stub(p) == IF p.v = 0 THEN <<>> ELSE <<[t |-> p.t, v |-> 0]>>

\* Mutant: a hole counts from twice the threshold.
HoleAtTwice(seg, t, gap) == seg # <<>> /\ t - Last(seg).t > 2 * gap

\* A hole between the last point of a segment and time t.
Hole(seg, t, gap) == seg # <<>> /\ t - Last(seg).t > gap

\* One turn of the loop: the finished segments and the one under construction.
Taken(lines, p, gap) ==
    IF Hole(lines.seg, p.t, gap)
    THEN [done |-> Append(lines.done, lines.seg \o Stub(Last(lines.seg))),
          seg  |-> Append(Stub(p), p)]
    ELSE [lines EXCEPT !.seg = Append(@, p)]

\* Mutant: the last segment is pushed only if the window ends with an outage.
ClosedOnOutage(lines, gap, tMax) ==
    IF Hole(lines.seg, tMax, gap) THEN Append(lines.done, lines.seg \o Stub(Last(lines.seg)))
    ELSE lines.done

\* After the loop: an outage that reaches the end of the window, the last segment.
Closed(lines, gap, tMax) ==
    IF lines.seg = <<>> THEN lines.done
    ELSE Append(lines.done,
                lines.seg \o (IF Hole(lines.seg, tMax, gap) THEN Stub(Last(lines.seg)) ELSE <<>>))

\* chartSegments.
Segments(raw, gap, tMax) ==
    LET take(lines, p) == Taken(lines, p, gap)
    IN  Closed(FoldLeft(take, [done |-> <<>>, seg |-> <<>>], Pts(raw)), gap, tMax)

-----------------------------------------------------------------------------
\* Mutant: the time axis is the chosen window, wherever the samples are.
ScaleOfWindow(segments, since, until) ==
    LET values == {p.v : p \in UNION {ToSet(s) : s \in ToSet(segments)}}
    IN  [tMin |-> since, tMax |-> IF since = until THEN since + 1 ELSE until,
         vMin |-> 25 * Min(values) - 25, vMax |-> 25 * Max(values) + 25]

\* The axes of drawChart, values in 25ths: the window, stretched to the samples; the
\* values, down to zero if there is a gap, with 8 % of their span on both sides.
Scale(segments, since, until) ==
    LET points == UNION {ToSet(s) : s \in ToSet(segments)}
        times  == {p.t : p \in points}
        values == {p.v : p \in points}
        outage(s) == Len(s) > 1 /\ Last(s).v = 0 /\ s[Len(s) - 1].v # 0
        gaps   == Len(segments) > 1 \/ \E s \in ToSet(segments) : outage(s)
        tMin   == Min({since} \cup times)
        tMax   == Max({until} \cup times)
        lowest == IF gaps /\ Min(values) > 0 THEN 0 ELSE Min(values)
        low    == IF lowest = Max(values) THEN lowest - 1 ELSE lowest
        high   == IF lowest = Max(values) THEN lowest + 1 ELSE Max(values)
    IN  [tMin |-> tMin, tMax |-> IF tMin = tMax THEN tMin + 1 ELSE tMax,
         vMin |-> 25 * low - 2 * (high - low), vMax |-> 25 * high + 2 * (high - low)]

-----------------------------------------------------------------------------
\* README: "Large gaps in samples break the line (and drop toward zero) instead of
\* drawing a misleading bridge across missing data".  No line runs across a hole, and
\* none is broken where there is no hole, whatever the order of the samples.
BrokenAtHoles(raw, gap, tMax) ==
    LET segments == Segments(raw, gap, tMax)
    IN  /\ \A s \in ToSet(segments) : \A k \in 1 .. Len(s) - 1 : s[k + 1].t - s[k].t \in 0 .. gap
        /\ \A n \in 1 .. Len(segments) - 1 :
             Head(segments[n + 1]).t - Last(segments[n]).t > gap

\* On both sides of a hole, and before an outage that reaches the end of the window,
\* the line is at zero.
ZeroAtHoles(raw, gap, tMax) ==
    LET segments == Segments(raw, gap, tMax)
    IN  \A n \in DOMAIN segments :
          /\ n > 1 => Head(segments[n]).v = 0
          /\ n < Len(segments) \/ tMax - Last(segments[n]).t > gap => Last(segments[n]).v = 0

\* The axes run forwards and every point is between them, for samples outside the window,
\* flat lines and even a custom window whose end is before its start.
OnCanvas(raw, gap, since, until) ==
    LET segments == Segments(raw, gap, until)
        scale    == Scale(segments, since, until)
    IN  segments # <<>> =>
            /\ scale.tMin < scale.tMax
            /\ \A p \in UNION {ToSet(s) : s \in ToSet(segments)} :
                 /\ scale.tMin <= p.t /\ p.t <= scale.tMax
                 /\ scale.vMin < 25 * p.v /\ 25 * p.v < scale.vMax

\* Every finite sample is drawn, and nothing else but a zero at the time of one.
DrawsSamples(raw, gap, tMax) ==
    LET drawn == UNION {ToSet(s) : s \in ToSet(Segments(raw, gap, tMax))}
        real  == {p \in ToSet(raw) : p.v # NotFinite}
    IN  /\ real \subseteq drawn
        /\ \A p \in drawn \ real : p.v = 0 /\ \E q \in real : q.t = p.t

\* The drawn series of a miner with a steady value that was sampled at the given times.
Drawn(view, span, poll, times) ==
    [i \in DOMAIN times |-> [t |-> DrawnAt(view, span, poll, times[i]), v |-> 1]]

\* "Max gap between samples before we treat the hole as missing data": those samples
\* make one unbroken line that does not fall to zero before now.
Unbroken(view, span, poll, times, now) ==
    LET segments == Segments(Drawn(view, span, poll, times), GapThreshold(view, span, poll), now)
    IN  Len(segments) = 1 /\ \A p \in ToSet(segments[1]) : p.v = 1

=============================================================================
