SPECIFICATION Spec
CONSTANTS
    A = A
    B = B
    Rooms = {A, B}
    NoRoom = NoRoom
    MaxJobs = 2
    MaxEvents = 4
    PageSize = 2
    ReplyTo <- NoThreads
    Starts <- FlagStarts
CHECK_DEADLOCK FALSE
INVARIANTS SendsFlipWithRoom
