\* Safety: two callers whose contexts carry deadlines that may or may not
\* pass, a cache file of any earlier content, an endpoint that moves once.
CONSTANTS
    Callers = {p1, p2}
    Calls = {k1, k2}
    MaxVersion = 2
    ForceRefresh = FALSE
    HttpTimeout = TRUE
    DeadlineChoices = {TRUE}
    None = None
    Unusable = Unusable
SYMMETRY CallerSymmetry
SPECIFICATION Spec
INVARIANTS TypeOK SingleFlight AnswersAgree UnflaggedIsCurrent NoForeignCancel
PROPERTIES UsableCacheKept
