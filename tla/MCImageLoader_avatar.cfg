SPECIFICATION Spec
CONSTANTS
    a = a
    b = b
    c = c
    d = d
    Urls = {a}
    Items <- Senders
    CacheMax = 1
    FreshMax = 1
    FailedMax = 1
    Windows <- SenderTwo
CHECK_DEADLOCK FALSE
INVARIANTS PendingIsInFlight
