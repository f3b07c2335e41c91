---------------------------- MODULE RecentPoints ----------------------------
(***************************************************************************)
(* What a metric's in-memory history promises the chart: the last Capacity  *)
(* points recorded, oldest first.                                           *)
(***************************************************************************)
EXTENDS Integers, Sequences

CONSTANTS Capacity, Points

VARIABLE recent

\* The sequence after one more point: the oldest makes room when it is full.
Keep(s, p) == IF Len(s) < Capacity THEN Append(s, p) ELSE Append(Tail(s), p)

Init == recent = <<>>

Record(p) == recent' = Keep(recent, p)

Next == \E p \in Points : Record(p)

Spec == Init /\ [][Next]_recent
=============================================================================
