CONSTANTS
    Base = 4
    Content <- MCContent
    NotAfterLen = 1
    PortLen = 1
    SecretLen = 2
    V4Len = 1
    V6Len = 2
    LabelLen = 1
    PinLen = 1
    PqKeyLen = 1
    MAX_HINTS = 2
    MAX_PINS = 2
    MAX_HOST_LEN = 3
    MAX_PREFIX_LEN = 2
    Documents <- MCDocuments
    Sizes <- MCSizes
    None = None
SPECIFICATION Spec
INVARIANTS
    ReadBack
    OneSpelling
CHECK_DEADLOCK FALSE
