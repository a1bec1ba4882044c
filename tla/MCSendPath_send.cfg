CONSTANTS
    r1 = r1
    r2 = r2
    NoRoom = NoRoom
    Rooms <- Two
    Kinds <- AllKinds
    MaxJobs = 2
    MaxOpens = 2
SPECIFICATION FairSpec
INVARIANTS
    TypeOK
    KeyBeforeMessage
    EncryptedWhenListed
    MessageShownOnce
    ForeignRowsAreLate
PROPERTY EchoResolved
CHECK_DEADLOCK FALSE
