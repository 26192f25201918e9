SPECIFICATION Spec
CONSTANTS
    None = None
    Torn = Torn
    Onion = Onion
    a1 = a1
    a2 = a2
    p1 = p1
    p2 = p2
    Procs <- TwoProcs
    Ids <- MCIds
    Nicks <- MCNicks
    Names <- MCNames
    Configs <- MCConfigs
    Addresses <- MCAddresses
    Kinds <- MCKinds
    MaxCommands = 3
    MaxCrashes = 1
    MaxPairings = 2
    MaxMoves = 1
SYMMETRY Symmetry
INVARIANTS
    PairingsKept
    FloorMatchesAddress
    StunOwnAnswer
CHECK_DEADLOCK FALSE
