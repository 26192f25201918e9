SPECIFICATION Spec
CONSTANTS
    Scenarios <- MCScenarios
    MaxConns = 2
    MaxMsgs = 1
    MaxCrashes = 1
INVARIANTS
    MutualPins
    ProofsConsumed
    NoFinalMessageLost
PROPERTIES
    RendezvousEnds
    CloseEnds
CHECK_DEADLOCK FALSE
