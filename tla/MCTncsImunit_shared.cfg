\* Two endpoints share one IMUnit library, up to two batches in a handshake.
CONSTANTS
    m1 = m1
    c1 = c1
    c2 = c2
    Conn = {c1, c2}
    NoConn = NoConn
    NumIMV = 1
    MaxRound = 2
    MsgType = {m1}
    Handles <- HandlesDef
    Lacks <- LacksNothing
    Batches <- BatchesDef
    Users = {c1}
SPECIFICATION LSpec
INVARIANTS
    LInv
    ErrorsAreMissingInstances
    RoundsAreBatches
PROPERTY
    EveryVerifierIsPresent
