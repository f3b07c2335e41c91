SPECIFICATION Spec
CONSTANTS
    Columns <- MCColumns
    Locked = {"ip"}
    DefaultOn = {"host"}
    SortOf <- MCSortOf
    Texty = {"ip", "host"}
    IP = "ip"
    Unknown = "dust"
    Sections = {"temps"}
    Presets <- MCPresets
    Span <- MCSpan
    Clock = {3, 5}
    Inputs = {2}
    NoTime = NoTime
    WidthMin = 1
    WidthMax = 3
    WidthDefault = 2
    Reserved = 4
    Grids = {3, 9}
    Pointers <- MCPointers
INVARIANTS
    TypeOK
    ReloadRestores
    WidthFits
    QueryCoversChart
PROPERTY
    SortStaysVisible
