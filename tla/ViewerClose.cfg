SPECIFICATION Spec
CONSTANTS
    None = None
    Empty = Empty
    Zero = Zero
    Jobs <- One
    Name <- OneName
    Modes = {"tmpfs"}
    Spellings = {TRUE}
    Swaps = {TRUE, FALSE}
PROPERTIES ShreddedOnExit
CHECK_DEADLOCK FALSE
