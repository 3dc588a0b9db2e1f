\* Two clients, one of them not vpnclient.
CONSTANTS
    Client = {5, 6}
    Foreign = {6}
    Mapping <- Networks
    AddressBits = 4
    MaxSessions = 2
    MaxForeign = 1
    MaxRounds = 1
    MaxUnread = 1
SPECIFICATION FairSpec
INVARIANTS
    TypeOK
PROPERTIES
    ImplementsGate
    OnlyHoldersBlock
