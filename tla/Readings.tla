------------------------------ MODULE Readings ------------------------------
(***************************************************************************)
(* How a poll turns the sensors of a miner into the temperatures of its     *)
(* snapshot and of its board rows: detailFromMinerData in                   *)
(* internal/poller/asicrs.go with internal/axetemp.  asic-rs copies the     *)
(* voltage regulator's temperature of some makes into the inlet and outlet  *)
(* readings; the code tells a copy from a reading by comparing them, and    *)
(* may ask the miner itself.                                                *)
(*                                                                          *)
(* A reading that is absent is the empty set, one that is there a singleton *)
(* (the code's pointers); temperatures are integers, and Tolerance is the   *)
(* comparison's eps in their unit.  The fields that are copied one to one   *)
(* are left out.                                                            *)
(***************************************************************************)
EXTENDS Integers, FiniteSetsExt, SequencesExt

CONSTANT Tolerance      \* SameTemp's eps

\* SameTemp: both readings are there and close.
SameTemp(s, t) == \E x \in s, y \in t : x - y < Tolerance /\ y - x < Tolerance

\* MinMax, as the set of the least and of the greatest.
MinOf(S) == IF S = {} THEN {} ELSE {Min(S)}
MaxOf(S) == IF S = {} THEN {} ELSE {Max(S)}

-----------------------------------------------------------------------------
\* The chain sensors of a board, without one that repeats the board's temperature.
Chain(x, sensor) == IF SameTemp(sensor, x.board) THEN {} ELSE sensor

\* boardASIC: the readings of one board that come from chips.
AsicOf(x) == x.chips \cup Chain(x, x.inlet) \cup Chain(x, x.outlet)

\* The board's row: chip readings stand in for a chain sensor that is missing or a copy.
RowOf(x) ==
    [vr  |-> x.board,
     in  |-> IF Chain(x, x.inlet) # {} THEN x.inlet ELSE MinOf(AsicOf(x)),
     out |-> IF Chain(x, x.outlet) # {} THEN x.outlet ELSE MaxOf(AsicOf(x))]

\* The snapshot and its rows after the loop over the boards.
FromBoards(boards) ==
    [asic |-> UNION {AsicOf(boards[i]) : i \in DOMAIN boards},
     vr   |-> UNION {boards[i].board : i \in DOMAIN boards},
     rows |-> [i \in DOMAIN boards |-> RowOf(boards[i])]]

-----------------------------------------------------------------------------
\* The ASIC range repeats the regulator's.
Mirrored(snap) ==
    SameTemp(MaxOf(snap.asic), MaxOf(snap.vr)) /\ SameTemp(MinOf(snap.asic), MinOf(snap.vr))

\* NeedsFallback: an axe without an ASIC reading, or with one that repeats the VR's.
NeedsFallback(axe, snap) == axe /\ (snap.asic = {} \/ Mirrored(snap))

\* Mutant: the fetched readings go into the first row whatever the snapshot has.
FirstRowAlways(snap, f) ==
    [vr  |-> IF f.vr # {} THEN f.vr ELSE snap.rows[1].vr, in |-> f.chip, out |-> f.chip]

\* The first row with what the fetched readings fill in.
FirstRow(snap, f) ==
    [vr  |-> IF snap.vr = {} /\ f.vr # {} THEN f.vr ELSE snap.rows[1].vr,
     in  |-> IF snap.asic = {} THEN f.chip ELSE snap.rows[1].in,
     out |-> IF snap.asic = {} THEN f.chip ELSE snap.rows[1].out]

\* What FetchSystemTemps answered fills in what the snapshot lacks.
Filled(snap, f) ==
    [asic |-> IF snap.asic = {} THEN f.chip ELSE snap.asic,
     vr   |-> IF snap.vr = {} THEN f.vr ELSE snap.vr,
     rows |-> IF snap.rows = <<>> THEN <<>> ELSE [snap.rows EXCEPT ![1] = FirstRow(snap, f)]]

\* The snapshot of one poll; answers is {} if the miner does not tell, else a singleton.
Snapshot(axe, boards, answers) ==
    LET snap == FromBoards(boards)
    IN  IF NeedsFallback(axe, snap) /\ answers # {}
        THEN Filled(snap, CHOOSE f \in answers : TRUE) ELSE snap

-----------------------------------------------------------------------------
\* The detail page and the fleet table agree: every reading of a board row lies in the
\* range the snapshot reports, whichever of sensors, chips and fallback it came from,
\* and a row has a chip reading only if the snapshot has one.
InRange(snap) ==
    \A r \in ToSet(snap.rows) :
        /\ \A t \in r.in \cup r.out : snap.asic # {} /\ Min(snap.asic) <= t /\ t <= Max(snap.asic)
        /\ \A t \in r.vr : snap.vr # {} /\ Min(snap.vr) <= t /\ t <= Max(snap.vr)

=============================================================================
