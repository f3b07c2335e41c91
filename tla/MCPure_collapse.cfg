SPECIFICATION PureSpec
CONSTANTS
    Capacity = 4
    Points <- MCPoints
    Zero = "0"
    Hostnames <- MCHostnames
    Macs <- MCMacs
    Serials <- MCSerials
    Addresses = {"ip1", "ip2"}
    None = ""
    LowerHost <- MCLowerHost
    GenericHosts = {"antminer", "bitaxe"}
    ColonMac <- MCColonMac
    LowerSerial <- MCLowerSerial
    Models = {"gamma"}
    BadLabels = {"bitaxe"}
    MaxLines = 3
    Missing = Missing
    NotFinite <- MCNotFinite
    Tolerance = 2
    SeriesInputs <- MCSeriesInputs
    SteadyInputs <- MCSteadyInputs
    MinerInputs <- MCMinerInputs
    LineInputs <- MCLineInputs
    RowInputs <- MCRowInputs
    SortInputs <- MCSortInputs
INVARIANT
    OneLinePerMiner
CHECK_DEADLOCK FALSE
