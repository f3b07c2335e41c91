------------------------------ MODULE MCStore ------------------------------
(***************************************************************************)
(* Small fleets for Store.  "rack" has a distinctive hostname and a MAC it  *)
(* spells two ways; "box" has a factory hostname, an all-zero MAC and a     *)
(* serial.                                                                  *)
(***************************************************************************)
EXTENDS Store

MCHostnames == {"Rack-1", "rack-1", "bitaxe"}
MCMacs == {"AA-01", "aa:01", "00:00"}
MCSerials == {"SN2", "sn2"}
MCLowerHost == [h \in MCHostnames |-> IF h = "bitaxe" THEN h ELSE "rack-1"]
MCGenericHosts == {"bitaxe"}
MCColonMac == [m \in {"AA-01", "aa:01"} |-> "aa:01"]
MCLowerSerial == [s \in MCSerials |-> "sn2"]

MCDevices == {"rack", "box"}
MCNameOf == [dev \in MCDevices |->
    IF dev = "rack" THEN [host |-> "Rack-1", mac |-> "AA-01", serial |-> ""]
    ELSE [host |-> "bitaxe", mac |-> "00:00", serial |-> "SN2"]]

\* Polls that show everything, and polls of which a quirk hides some of it: a bare
\* hostname or MAC of "box" identifies nothing, so its row is under its address.
MCAnyShows == SUBSET {"host", "mac", "serial"}
MCSomeShows == {{}, {"mac"}, {"host", "mac", "serial"}}
MCPartShows == {{"host"}, {"mac"}, {"host", "mac", "serial"}}
MCMacShown == {{"mac"}, {"host", "mac"}}

\* Reserved leases: each address belongs to one device.
MCThreeAddresses == {"ip1", "ip2", "ip3"}
MCReserved == [a \in MCThreeAddresses |-> IF a = "ip3" THEN {"box"} ELSE {"rack"}]

\* One device between two addresses.
MCRack == {"rack"}
MCRackName == [dev \in MCRack |-> MCNameOf[dev]]
MCTwoAddresses == {"ip1", "ip2"}
MCRackOnly == [a \in MCTwoAddresses |-> MCRack]

\* Shared leases: any device may get any address.
MCShared == [a \in MCTwoAddresses |-> MCDevices]

=============================================================================
