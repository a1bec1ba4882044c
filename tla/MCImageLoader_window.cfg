SPECIFICATION FairSpec
CONSTANTS
    a = a
    b = b
    c = c
    d = d
    Urls = {a, b, c, d}
    Items <- Several
    CacheMax = 1
    FreshMax = 1
    FailedMax = 2
    Windows <- TwoWindows
CHECK_DEADLOCK FALSE
INVARIANTS TypeOK ReasonMatches
PROPERTIES FetchIsSingleFlight FreshRetried ImageShown
