-------------------------------- MODULE Ring --------------------------------
(***************************************************************************)
(* The ring buffer behind one miner's metric in memory mode                 *)
(* (internal/store/store.go, type ring): a fixed buffer, the index of the   *)
(* next write, and a flag that the buffer has wrapped.  slice() rebuilds    *)
(* the points in the order they were pushed.                                *)
(***************************************************************************)
EXTENDS Integers, Sequences

CONSTANTS
    Capacity,       \* len(buf): history_points, at least 10 in production
    Points,         \* the points pushed
    Zero            \* the zero HistoryPoint of a slot never written

ASSUME RingAssumption == Capacity \in Nat \ {0}

VARIABLES buf, head, full
vars == <<buf, head, full>>

\* Go's slots are numbered from 0.
Slots == 0 .. Capacity - 1

Push(p) ==
    /\ buf' = [buf EXCEPT ![head] = p]
    /\ head' = (head + 1) % Capacity
    /\ full' = (full \/ head' = 0)

\* Mutant: a wrapped buffer is returned in slot order.
SliceInSlotOrder(b, h, f) == [i \in 1 .. (IF f THEN Capacity ELSE h) |-> b[i - 1]]

\* slice() of a ring with buffer b, index h and flag f: b[h:] before b[:h] once
\* the buffer has wrapped.
SliceOf(b, h, f) ==
    IF f
    THEN [i \in 1 .. Capacity |-> IF i <= Capacity - h THEN b[h + i - 1]
                                  ELSE b[i - (Capacity - h) - 1]]
    ELSE [i \in 1 .. h |-> b[i - 1]]

Slice == SliceOf(buf, head, full)

Init ==
    /\ buf = [i \in Slots |-> Zero]
    /\ head = 0
    /\ full = FALSE

Next == \E p \in Points : Push(p)

Spec == Init /\ [][Next]_vars

-----------------------------------------------------------------------------
\* The index is a slot and every slot holds a point or the zero point.
TypeOK ==
    /\ buf \in [Slots -> Points \cup {Zero}]
    /\ head \in Slots
    /\ full \in BOOLEAN

Recent == INSTANCE RecentPoints WITH recent <- Slice

\* The ring is a bounded log: whatever has been pushed and however often the index
\* wrapped, slice() is the last Capacity points in order.
IsRecentPoints == Recent!Spec

=============================================================================
