SPECIFICATION Spec
CONSTANTS
    radio = radio
    usb = usb
    sat = sat
    Links = {radio, usb, sat}
    NoLink = NoLink
    HighLatency = {sat}
    UsbDirect = {usb}
    MaxVehicles = 3
    Ids = {a, b}
    Bounds <- MCBounds
CHECK_DEADLOCK FALSE
SYMMETRY IdSymmetry
INVARIANTS
    TypeOK
    PrimaryIsUsable
    ListIsSound
    SettledSelection
PROPERTIES
    LinkOpenWhileUsed
