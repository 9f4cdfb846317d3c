\* A WithForceRefresh client over an HTTP client without a timeout: only the
\* deadline of the context that led the fetch bounds it, also for a later
\* operation that joins the fetch an abandoned one left running.
CONSTANTS
    Callers = {p1}
    Calls = {k1}
    MaxVersion = 2
    ForceRefresh = TRUE
    HttpTimeout = FALSE
    DeadlineChoices = {TRUE}
    None = None
    Unusable = Unusable
SPECIFICATION FairSpec
INVARIANTS ForcedIsCurrent
PROPERTIES EveryCallReturns
