SPECIFICATION Spec
CONSTANTS
    Second = 2
    MinPoll = 5
    Week = 60
    DefaultPoll = 8
    DefaultRescan = 20
    DefaultTimeout = 8
    DefaultConcurrent = 20
    Modulus = 256
    Files <- MCFiles
    Environments <- MCEnvironments
    DefaultPath = "db"
INVARIANTS
    RingCoversRetention
    Runnable
    Precedence
CHECK_DEADLOCK FALSE
