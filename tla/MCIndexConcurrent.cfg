SPECIFICATION Spec
CONSTANTS
    reader = reader
    refresher = refresher
    refresher2 = refresher2
    Callers <- TwoRefreshers
    Refreshers <- TwoRefreshers
    MaxVersion = 2
    Lazy = Lazy
    None = None
INVARIANT RefreshTakesEffect
