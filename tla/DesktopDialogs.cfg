SPECIFICATION Spec
CONSTANTS
    None = None
    Vaults = {"home", "usb"}
    InData = {"home"}
    InitVaults = {"home", "usb"}
    HostFiles <- Picked
    BaseName <- NameOf
    NewNames = {"f"}
    MaxOpens = 0
    MaxClicks = 3
INVARIANTS
    ExportedAsAsked
PROPERTIES
    ImportStaysInVault
CHECK_DEADLOCK FALSE
