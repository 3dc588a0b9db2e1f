\* One honest endpoint and fragmentation: the last batch.
CONSTANTS
    a = a
    b = b
    c1 = c1
    c2 = c2
    Conn = {c1}
    Honest = {c1}
    Unit = {a, b}
    Payloads <- PayloadsDef
    PeerSizes = {1, 2, 3}
    Junk <- JunkDef
    MaxFragment = 2
    MaxBatches = 2
    Modes = {TRUE}
SPECIFICATION Spec
PROPERTY
    MoreFragmentsFollow
