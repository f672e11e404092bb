\* Liveness, with a mailbox smaller than the pool: the poll task may block on it.
SPECIFICATION FairSpec
CONSTANTS
    main = main
    hid = hid
    recv = recv
    Recv = recv
    Producers <- MCOneProducer
    NumBuf = 2
    MaxMsg = 1
    PollStep = 5
    PollLimit = 10
    MaxTimes = 2
    SnMod = 3
    FreshPoll <- MCZeroed
    PeerSn = {1}
    UploadSn = {}
    Timely = TRUE
PROPERTIES
    BuffersReturn
    FramesMove
