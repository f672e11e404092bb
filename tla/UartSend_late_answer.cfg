\* An answer or a colliding command may arrive while its frame is queued.
SPECIFICATION Spec
CONSTANTS
    main = main
    hid = hid
    recv = recv
    Recv = recv
    Producers <- MCOneProducer
    NumBuf = 2
    MaxMsg = 2
    PollStep = 5
    PollLimit = 10
    MaxTimes = 3
    SnMod = 3
    FreshPoll <- MCZeroed
    PeerSn = {1}
    UploadSn = {}
    Timely = FALSE
INVARIANTS
    RepliesOnly
