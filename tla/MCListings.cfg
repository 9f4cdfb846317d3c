SPECIFICATION MCSpec
CONSTANTS
    Segments = {"/", "~", "$V", "bin", "p", "q", "s", "o", "d", "c", "x", "wd", "home"}
    Agent = "a"
    Catalogued = {"a", "b"}
    Worlds <- MCWorlds
    MaxChanges = 1
    Lower <- MCLower
    Rank <- MCRank
    Calls <- MCCalls
INVARIANTS
    AllTypesOK
    OverridesHonoured
    StayedIsFound
    PathsAreAnchored
    EnrichedFromAgnostic
    OrderedAsAsked
CHECK_DEADLOCK FALSE
