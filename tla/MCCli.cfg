SPECIFICATION Spec
CONSTANTS
    home = home
    agnostic = agnostic
    stranger = stranger
    sound = sound
    shaky = shaky
    unheard = unheard
    None = None
    Agents <- MCAgents
    Home <- MCHome
    Strangers <- MCStrangers
    Providers <- MCProviders
    ProviderLists <- MCProviderLists
    Contents <- MCContents
    MaxTokens = 3
INVARIANTS TypeOK JsonAsAsked WarningsReachUser SelectionHonoured
    UnselectedIsNotFetched RefreshIsWhole ExitTellsFault
CHECK_DEADLOCK FALSE
