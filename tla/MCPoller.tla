------------------------------ MODULE MCPoller ------------------------------
(***************************************************************************)
(* Two addresses, of which one may be configured; browsers that press       *)
(* Rescan while a cycle is under way.                                       *)
(***************************************************************************)
EXTENDS Poller

MCOneStatic == {"ip1"}
MCAddresses == {"ip1", "ip2"}
MCThreeAddresses == {"ip1", "ip2", "ip3"}
MCOneClient == {"c1"}
=============================================================================
