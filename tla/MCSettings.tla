----------------------------- MODULE MCSettings -----------------------------
(***************************************************************************)
(* A table of three columns, of which the address is locked and one is off  *)
(* at first; a panel of three widths in a window with room for all of them  *)
(* or for the least; a day of two units, seen from two instants.            *)
(***************************************************************************)
EXTENDS Settings

MCColumns == {"ip", "host", "watts"}
MCSortOf == [c \in MCColumns |-> c]
MCPresets == {"4h", "1d"}
MCSpan == [r \in MCPresets |-> IF r = "1d" THEN 2 ELSE 1]
MCPointers == {-1, 2, 9}
=============================================================================
