\* Two callers beside uart_recv_tsk; a buffer can be reused while a call is stuck.
SPECIFICATION Spec
CONSTANTS
    main = main
    hid = hid
    Threads <- MCThreads
    NumBuf = 2
    MaxProd = 4
SYMMETRY MCSymmetry
INVARIANTS
    TypeOK
    AloneIntact
    OwnBufferLinked
    AloneNumbersGrow
CHECK_DEADLOCK FALSE
