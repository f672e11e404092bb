\* Bursts, quick unplugging, tasks delayed at will.
SPECIFICATION FairSpec
CONSTANTS
    NumBuf = 2
    MaxMsg = 2
    KeyBuf = 2
    HID_TIME_OUT = 1
    NumSlots = 2
    Gap = 0
    Types = {0, 1}
    MaxKeys = 2
    MaxPlugs = 2
    Timely = FALSE
INVARIANTS
    TypeOK
    KeysInOrder
    BuffersAccounted
PROPERTIES
    KeysReported
    ReaderServed
