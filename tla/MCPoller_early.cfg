SPECIFICATION Spec
CONSTANTS
    Addresses <- MCAddresses
    Static <- MCOneStatic
    ScanTargets = TRUE
    RescanEvery = TRUE
    Concurrent = 1
    Clients <- MCOneClient
PROPERTIES
    WaitsForRescan
CHECK_DEADLOCK FALSE
