SPECIFICATION Spec
CONSTANTS
    A = A
    B = B
    Rooms = {A, B}
    NoRoom = NoRoom
    MaxJobs = 3
    MaxEvents = 4
    PageSize = 2
    ReplyTo <- NoThreads
    Starts <- SwitchStarts
CHECK_DEADLOCK FALSE
SYMMETRY AnyRoom
INVARIANTS TypeOK MessageBoxMatchesRoom LoadMoreSingleFlight NoMessageLost
PROPERTIES EncryptionSticky MixedOnlyByStaleCallback
