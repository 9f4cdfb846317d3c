SPECIFICATION Spec
CONSTANTS
    load = load
    refresh = refresh
    None = None
    Loads <- MCLoads
    Forced <- MCForced
    MaxRank = 4
    Prereleases <- MCPrereleases
    Malformed <- MCNoRanks
    Uncanonical <- MCUncanonical
    BadModules <- MCPrereleases
    TTL = 2
    MaxTime = 2
    ClockStepsBack = TRUE
INVARIANTS TypeOK UnflaggedWithinTTL OfflineFallback
PROPERTY ResolutionKept
