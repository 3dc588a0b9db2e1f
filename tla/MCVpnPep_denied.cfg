\* One endpoint that is assessed more than once.
CONSTANTS
    e1 = e1
    e2 = e2
    Endpoint = {e1}
    Hour = 5
    MaxAge = 1
    MaxRules = 2
SPECIFICATION Spec
INVARIANTS
    DeniedIsDenied
