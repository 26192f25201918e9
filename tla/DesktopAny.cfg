SPECIFICATION Spec
CONSTANTS
    None = None
    Vaults = {"home", "usb"}
    InData = {"home"}
    InitVaults = {"usb"}
    HostFiles <- Picked
    BaseName <- NameOf
    NewNames = {"f"}
    MaxOpens = 2
    MaxClicks = 4
PROPERTIES
    BytesUnderTheirName
    SessionKeepsItsFiles
CHECK_DEADLOCK FALSE
