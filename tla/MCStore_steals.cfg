SPECIFICATION Spec
CONSTANTS
    Hostnames <- MCHostnames
    Macs <- MCMacs
    Serials <- MCSerials
    None = ""
    LowerHost <- MCLowerHost
    GenericHosts <- MCGenericHosts
    ColonMac <- MCColonMac
    LowerSerial <- MCLowerSerial
    Devices <- MCDevices
    NameOf <- MCNameOf
    Addresses <- MCTwoAddresses
    LeasedTo <- MCShared
    Shows <- MCMacShown
    SQLite = FALSE
    SQLFaults = FALSE
    TTL = 1
    Retention = 1
    MaxTime = 2
INVARIANTS
    SamplesOwned
