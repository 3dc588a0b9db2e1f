SPECIFICATION Spec
CONSTANTS
    any = any
    v = v
    w = w
    s = s
    t = t
    AnyVendor = any
    AnySubtype = any
    Reported <- TypesReported
    Documents <- Contents
    Strange <- StrangeDocuments
    Sayings <- Words
    MaxSessions = 2
    MaxTurns = 2
    MaxInTransit = 2
INVARIANTS
    TypeOK
    Lockstep
    EachImvHearsItsShare
PROPERTIES
    AnswersAreFresh
    HonestIsNotRefused
    ImplementsConversation
