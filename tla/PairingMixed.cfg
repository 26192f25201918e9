SPECIFICATION Spec
CONSTANTS
    None = None
    People <- Three
    Sessions <- Conversations
    Owner <- OwnerOf
    With <- WithOf
    Windows = {"ann_bob", "bob"}
    MaxCodes = 2
    MaxStarts = 3
    MaxMistakes = 1
INVARIANTS
    RightPerson
    SecretDerivedByBoth
CHECK_DEADLOCK FALSE
