SPECIFICATION Spec
CONSTANTS
    None = None
    Torn = Torn
    Onion = Onion
    a1 = a1
    a2 = a2
    p1 = p1
    p2 = p2
    Procs <- TwoProcs
    Ids <- OneId
    Nicks <- MCNicks
    Names <- MCNames
    Configs <- MCConfigs
    Addresses <- MCAddresses
    Kinds <- MCKinds
    MaxCommands = 3
    MaxCrashes = 0
    MaxPairings = 2
    MaxMoves = 1
INVARIANTS
    IdentityKept
    FreshTicketTried
PROPERTIES
    FloorKept
CHECK_DEADLOCK FALSE
