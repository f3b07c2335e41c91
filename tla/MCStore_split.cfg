SPECIFICATION Spec
CONSTANTS
    Hostnames <- MCHostnames
    Macs <- MCMacs
    Serials <- MCSerials
    None = ""
    LowerHost <- MCLowerHost
    GenericHosts <- MCGenericHosts
    ColonMac <- MCColonMac
    LowerSerial <- MCLowerSerial
    Devices <- MCRack
    NameOf <- MCRackName
    Addresses <- MCTwoAddresses
    LeasedTo <- MCRackOnly
    Shows <- MCAnyShows
    SQLite = TRUE
    SQLFaults = FALSE
    TTL = 1
    Retention = 1
    MaxTime = 3
INVARIANTS
    OneRowPerIdentity
