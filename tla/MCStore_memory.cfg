SPECIFICATION Spec
CONSTANTS
    Hostnames <- MCHostnames
    Macs <- MCMacs
    Serials <- MCSerials
    None = ""
    LowerHost <- MCLowerHost
    GenericHosts <- MCGenericHosts
    ColonMac <- MCColonMac
    LowerSerial <- MCLowerSerial
    Devices <- MCDevices
    NameOf <- MCNameOf
    Addresses <- MCThreeAddresses
    LeasedTo <- MCReserved
    Shows <- MCPartShows
    SQLite = FALSE
    SQLFaults = FALSE
    TTL = 1
    Retention = 1
    MaxTime = 3
INVARIANTS
    RowIdentity
    SamplesOwned
    RowsLiveTTL
    OneRowPerIdentity
PROPERTY
    IsFleet
