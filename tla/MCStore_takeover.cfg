SPECIFICATION Spec
CONSTANTS
    Hostnames <- MCHostnames
    Macs <- MCMacs
    Serials <- MCSerials
    None = ""
    LowerHost <- MCLowerHost
    GenericHosts <- MCGenericHosts
    ColonMac <- MCColonMac
    LowerSerial <- MCLowerSerial
    Devices <- MCDevices
    NameOf <- MCNameOf
    Addresses <- MCTwoAddresses
    LeasedTo <- MCShared
    Shows <- MCMacShown
    SQLite = TRUE
    SQLFaults = TRUE
    TTL = 1
    Retention = 1
    MaxTime = 1
INVARIANTS
    UniqueAddress
PROPERTY
    SamplesKept
