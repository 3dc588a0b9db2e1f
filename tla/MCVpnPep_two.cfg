\* Two endpoints and an hour of five minutes.
CONSTANTS
    e1 = e1
    e2 = e2
    Endpoint = {e1, e2}
    Hour = 5
    MaxAge = 1
    MaxRules = 1
SPECIFICATION FairSpec
INVARIANTS
    TypeOK
    SInv
PROPERTIES
    RevokesOnlyStale
    StaleIsRevoked
