SPECIFICATION Spec
CONSTANTS
    radio = radio
    usb = usb
    sat = sat
    Links = {radio, usb, sat}
    NoLink = NoLink
    HighLatency = {sat}
    UsbDirect = {usb}
    MaxVehicles = 3
    Ids = {a, b}
    Bounds <- TwoLinks
CHECK_DEADLOCK FALSE
INVARIANT CommunicationLostMeansSilent
