\* A newer version than the policy asks for.
CONSTANTS
    Hosts <- ClamavHost
    Policies <- ClamavPolicy
    Strange <- NothingStrange
    MaxHandshakes = 1
    MaxBatches = 2
    MaxStrange = 0
SPECIFICATION Spec
INVARIANT DesiredValuesAreAllowed
CHECK_DEADLOCK FALSE
