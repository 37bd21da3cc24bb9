SPECIFICATION FairSpec
CONSTANTS
    Side = "client"
    None = None
    Ops = {"a", "b"}
    Plain = {"plain"}
    Capacity = 2
    MaxWire = 4
    MaxPushed = 3
    InMessages <- MCInMessages
    OutFrames <- MCOutFrames
CHECK_DEADLOCK FALSE
PROPERTIES
    UpRelay
    DispatchCloseEndsSession
