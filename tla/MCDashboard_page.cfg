SPECIFICATION FairSpec
CONSTANTS
    Miners <- MCMiners
    MakeOf <- MCMakeOf
    Views <- MCViews
    ByType = {"type"}
    Sampled <- MCSampled
    Fleets <- MCFleets
    Follows <- MCFollows
    Slots = {1, 2}
    None = "none"
INVARIANTS
    TypeOK
    RescanButton
PROPERTIES
    PageSettles
    RescanReturns
