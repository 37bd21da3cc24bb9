SPECIFICATION FairServerSpec
CONSTANTS
    Side = "server"
    None = None
    Ops <- MCOps
    Plain <- MCPlain
    Capacity = 1
    MaxWire = 4
    MaxPushed = 6
    InMessages <- MCInMessages
    OutFrames <- MCOutFrames
CHECK_DEADLOCK FALSE
INVARIANTS
    AnswersInOrder
PROPERTIES
    SessionSpec
    ClientIsAnswered
    LossReleasesBoth
