SPECIFICATION FairSpec
CONSTANTS
    Addresses <- MCThreeAddresses
    Static = {}
    ScanTargets = TRUE
    RescanEvery = TRUE
    Concurrent = 1
    Clients <- MCOneClient
INVARIANTS
    TypeOK
    PollingHonest
    PollsBounded
    CycleComplete
    NoLostRescan
PROPERTIES
    RescanServed
    StopsAfterCancel
CHECK_DEADLOCK FALSE
