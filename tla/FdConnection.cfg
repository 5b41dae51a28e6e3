SPECIFICATION FairSpec
CONSTANTS
    App = App
    Joystick = Joystick
    Callers <- MCCallers
    Stoppers <- MCStoppers
    Read = Read
    Send = Send
    QueueLen = 2
    ChecksClosed = TRUE
    MaxItems = 3
    MaxChunk = 2
INVARIANTS
    TypeOK
    TeardownOnce
    QueueOutlivesSendTask
    ClosedIsInert
    SendsOnlyAfterHandshake
PROPERTIES
    ImplementsChannel
    HasLife
    StopCompletes
    LostLinkIsAnnounced
    BlockedCallerReleased
CHECK_DEADLOCK FALSE
