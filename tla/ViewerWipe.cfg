SPECIFICATION Spec
CONSTANTS
    None = None
    Empty = Empty
    Zero = Zero
    Jobs <- Two
    Name <- SameName
    Modes = {"memfd", "tmpfs"}
    Spellings = {TRUE, FALSE}
    Swaps = {TRUE}
INVARIANTS
    NothingLeftBehind
    SignalWipesRegistered
PROPERTIES
    SignalEnds
    ShellShreds
CHECK_DEADLOCK FALSE
