SPECIFICATION Spec
CONSTANTS
    None = None
    People <- Two
    Sessions <- Two
    Owner <- OwnerSelf
    With <- WithOther
    Windows = {"ann"}
    MaxCodes = 1
    MaxStarts = 4
    MaxMistakes = 0
INVARIANTS
    NeverStuck
    SecretsMatch
CHECK_DEADLOCK FALSE
