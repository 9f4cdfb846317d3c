SPECIFICATION PartialSpec
CONSTANTS
    load = load
    refresh = refresh
    None = None
    Loads <- MCLoads
    Forced <- MCForced
    MaxRank = 2
    Prereleases <- MCNoRanks
    Malformed <- MCNoRanks
    Uncanonical <- MCNoRanks
    BadModules <- MCNoRanks
    TTL = 2
    MaxTime = 2
    ClockStepsBack = FALSE
INVARIANT LoadsOfflineAfterSuccess
