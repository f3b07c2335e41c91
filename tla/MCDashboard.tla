---------------------------- MODULE MCDashboard ----------------------------
(***************************************************************************)
(* Two miners of two makes, of which one leaves the fleet; a view in which  *)
(* which both have samples and one of which the lines are makes, in which   *)
(* only one has.                                                            *)
(***************************************************************************)
EXTENDS Dashboard

MCMiners == {"a", "b"}
MCMakeOf == [m \in MCMiners |-> IF m = "a" THEN "antminer" ELSE "bitaxe"]
MCViews == {"power", "type"}
MCSampled == [v \in MCViews |-> IF v = "power" THEN MCMiners ELSE {"a"}]
MCFleets == {{"a"}, {"a", "b"}}
MCFollows == [f \in MCFleets |-> MCFleets \ {f, MCMiners}]
=============================================================================
