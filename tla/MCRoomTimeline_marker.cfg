SPECIFICATION FairSpec
CONSTANTS
    A = A
    B = B
    Rooms = {A, B}
    NoRoom = NoRoom
    MaxJobs = 3
    MaxEvents = 3
    PageSize = 2
    ReplyTo <- NoThreads
    Starts <- MarkerStarts
CHECK_DEADLOCK FALSE
PROPERTIES MarkerIsOfRoom
