SPECIFICATION FairSpec
CONSTANTS
    A = A
    B = B
    Rooms = {A}
    NoRoom = NoRoom
    MaxJobs = 2
    MaxEvents = 4
    PageSize = 2
    ReplyTo <- OneThread
    Starts <- ThreadStarts
CHECK_DEADLOCK FALSE
PROPERTIES LoadMoreIsSingleFlight MessageShown
