SPECIFICATION Spec
CONSTANTS
    load = load
    refresh = refresh
    None = None
    Loads <- MCLoads
    Forced <- MCForced
    MaxRank = 1
    Prereleases <- MCNoRanks
    Malformed <- MCNoRanks
    Uncanonical <- MCNoRanks
    BadModules <- MCNoRanks
    TTL = 2
    MaxTime = 2
    ClockStepsBack = TRUE
INVARIANT ForcedReResolves
