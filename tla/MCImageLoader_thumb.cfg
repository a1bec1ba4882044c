SPECIFICATION FairSpec
CONSTANTS
    a = a
    b = b
    c = c
    d = d
    Urls = {a, b}
    Items <- Thumbnail
    CacheMax = 2
    FreshMax = 2
    FailedMax = 2
    Windows <- ThumbAlone
CHECK_DEADLOCK FALSE
PROPERTIES ThumbShown
