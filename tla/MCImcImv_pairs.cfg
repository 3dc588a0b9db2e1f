CONSTANTS
    Hosts <- HostsOf
    Policies <- PoliciesOf
    Strange <- StrangeOf
    MaxHandshakes = 2
    MaxBatches = 3
    MaxStrange = 1
SPECIFICATION Spec
INVARIANTS
    TypeOK
    
    CompliantIsAllowed
    RoundsAgree
PROPERTIES
    KeepsThePromise
    HandshakeEnds
CHECK_DEADLOCK FALSE
