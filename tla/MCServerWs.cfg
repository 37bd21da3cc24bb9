SPECIFICATION FairSpec
CONSTANTS
    Side = "server"
    None = None
    Ops = {"a", "b"}
    Plain = {"plain"}
    Capacity = 1
    MaxWire = 3
    MaxPushed = 4
    InMessages <- MCInMessages
    OutFrames <- MCOutFrames
CHECK_DEADLOCK FALSE
INVARIANTS
    TypeOK
    OnePumpEach
    NeverTwice
    AssertNotReceiving
    NoCallbackAfterClose
    PeerDecodesPushed
PROPERTIES
    UpRelay
    DownRelay
    DispatchCloseEndsSession
    PeerLossEndsSession
    MalformedEndsSession
    EverythingMoves
