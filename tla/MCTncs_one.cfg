\* One endpoint, two IMVs, the user name known or not, no optional function
\* missing.
CONSTANTS
    m1 = m1
    m2 = m2
    c1 = c1
    Conn = {c1}
    NoConn = NoConn
    NumIMV = 2
    MsgType = {m1, m2}
    Handles <- HandlesDef
    Lacks <- LacksNothing
    Batches <- BatchesDef
    Users = {c1}
SPECIFICATION FairSpec
INVARIANTS
    TypeOK
    IInv
    NoMessageDropped
PROPERTIES
    DecisionFollowsVoices
    CallsReturn
    ImplementsAccessDecision
