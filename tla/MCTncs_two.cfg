\* Two endpoints and two libraries, each of which may fail for good on behalf
\* of either endpoint and one of which cannot receive messages; no user names,
\* hence no policy decision point.
CONSTANTS
    m1 = m1
    m2 = m2
    c1 = c1
    c2 = c2
    Conn = {c1, c2}
    NoConn = NoConn
    NumIMV = 2
    MsgType = {m1, m2}
    Handles <- HandlesDef
    Lacks <- LacksReceive
    Batches <- BatchesTwo
    Users = {}
SPECIFICATION Spec
INVARIANT
    CallsOnlyLiveImvs
PROPERTIES
    AccessNeedsEveryLibrary
