SPECIFICATION Spec
CONSTANTS
    home = home
    wide = wide
    agnostic = agnostic
    stranger = stranger
    sound = sound
    shaky = shaky
    unheard = unheard
    None = None
    Agents <- MCAgents
    Home <- MCHome
    Strangers <- MCStrangers
    Providers <- MCProviders
    ProviderLists <- MCProviderLists
    Contents <- MCContents
    Ops <- Operations
INVARIANTS TypeOK ListingIsUniform DegradedIsExplained StaleDataIsFlagged
    AppliedIsComplete RejectionsAreEarned ListingNeverHidesUnknown
