\* Users and readers that leave the tasks their time.
SPECIFICATION Spec
CONSTANTS
    NumBuf = 4
    MaxMsg = 4
    KeyBuf = 3
    HID_TIME_OUT = 2
    NumSlots = 1
    Gap = 1
    Types = {0, 1, 2}
    MaxKeys = 4
    MaxPlugs = 2
    Timely = TRUE
INVARIANTS
    ScanWhole
    ScanFits
    ReportsInSession
