\* The promise of CatalogCell, and liveness with the default HTTP client, for
\* callers without deadlines. No symmetry: it is unsound for liveness.
CONSTANTS
    Callers = {p1, p2}
    Calls = {k1, k2}
    MaxVersion = 1
    ForceRefresh = FALSE
    HttpTimeout = TRUE
    DeadlineChoices = {FALSE}
    None = None
    Unusable = Unusable
SPECIFICATION FairSpec
PROPERTIES KeepsPromise EveryCallReturns
