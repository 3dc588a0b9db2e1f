\* An honest and a misbehaving endpoint, with and without fragmentation.
CONSTANTS
    a = a
    b = b
    c1 = c1
    c2 = c2
    Conn = {c1, c2}
    Honest = {c1}
    Unit = {a, b}
    Payloads <- PayloadsTwo
    PeerSizes = {1, 2}
    Junk <- JunkFew
    MaxFragment = 2
    MaxBatches = 2
    Modes = {TRUE, FALSE}
SPECIFICATION Spec
INVARIANTS
    TypeOK
    HandedIsSent
    GotIsAnswered
    HonestIsServed
    Conserved
