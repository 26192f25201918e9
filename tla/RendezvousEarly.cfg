SPECIFICATION Spec
CONSTANTS
    Scenarios <- MCScenarios
    MaxConns = 2
    MaxMsgs = 1
    MaxCrashes = 1
PROPERTIES
    GivesUpOnlyAtDeadline
CHECK_DEADLOCK FALSE
