SPECIFICATION Spec
CONSTANTS
    None = None
    Empty = Empty
    Zero = Zero
    Jobs <- Two
    Name <- SameName
    Modes = {"tmpfs"}
    Spellings = {TRUE}
    Swaps = {TRUE, FALSE}
INVARIANTS
    ViewIntact
    NoPageSurvives
CHECK_DEADLOCK FALSE
