SPECIFICATION FairSpec
CONSTANTS
    reader = reader
    refresher = refresher
    refresher2 = refresher2
    Callers <- OneOfEach
    Refreshers <- OneRefresher
    MaxVersion = 2
    Lazy = Lazy
    None = None
INVARIANTS TypeOK RefreshTakesEffect RefreshReportsWhatItInstalled LoadedOnce FlagIsOfTheData
PROPERTY OperationsReturn
