\* The sender under the timing assumptions, the first times and free_flag being 0.
SPECIFICATION Spec
CONSTANTS
    main = main
    hid = hid
    recv = recv
    Recv = recv
    Producers <- MCProducers
    NumBuf = 2
    MaxMsg = 2
    PollStep = 5
    PollLimit = 10
    MaxTimes = 3
    SnMod = 3
    FreshPoll <- MCLeftover
    PeerSn = {1}
    UploadSn = {9}
    Timely = TRUE
INVARIANTS
    TypeOK
    BufferOwnership
    Discipline
    PollNeverBlocks
PROPERTIES
    NtfFate
    ImplementsDelivery
