SPECIFICATION Spec
CONSTANTS
    AccountIds <- TwoAccounts
    NoUser = "nobody"
    Stored0 = {"alice", "bob"}
    QueueMax = 2
    Rooms = {"r1", "r2"}
    NoRoom = "no room"
    Member0 <- OneRoomJoined
    Queries = {"q1", "q2"}
    Pages <- ThreePagesOrOne
    PageCounts = {0, 1, 3}
    Persons = {"u1", "u2"}
    Strangers = {"u2"}
    Searches <- TwoSearches
    LocalSenders = {"u1"}
    WithAvatar = {"u1", "u2"}
    WithDevice = {"u1"}
    MyPower = 50
    Powers <- OneAdmin
    AvatarCacheMax = 1
    Devices = {"d1"}
    NoDevice = "no device"
    Images = {"i1", "i2", "i3"}
    Files = {"f"}
    Broken = {"i3"}
    CacheMax = 1
    Messages = {"m1", "m2"}
    Own = {"m2"}
    Txns = {"t1", "t2"}
    NoTxn = "no transaction"
    MaxEvents = 5
    PageSize = 2
    Starts <- IngestStarts
    Budgets <- SmallBudgets
    DialogBudgets <- SmallDialogBudgets
INVARIANTS
    TypeOK
    RowsOfAccount
    CryptoOfAccount
    SessionIsServed
    ListFollowsServer
    HiddenStaysHidden
    ResultsOfOneSearch
    ResetIsAuthorised
    IdentityIsKnown
    ThreadsListed
    FilterApplied
    StatusSettles
    BusyIffUnderWay
    BackupLabelTrue
    NameIsTheUsers
    EveryClickIsAnswered
    ReactionsShown
    QuestionsAreCurrent
    SkippedIsSurfaced
    ToldIsShown
PROPERTY IdentityKept
CHECK_DEADLOCK FALSE
