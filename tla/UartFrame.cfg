SPECIFICATION Spec
CONSTANTS
    ByteSize = 8
    HeadByte = 7
    MaxLen = 6
    RecvBuf = 9
    MinLen = 4
    PeerFrames <- MCFrames
    MaxFrames = 3
    MaxFaults = 2
INVARIANTS
    TypeOK
    WithinBuffer
    CleanLine
    InStepAgain
CHECK_DEADLOCK FALSE
