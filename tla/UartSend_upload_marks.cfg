\* The peer numbers its uploads like the gateway's notifications.
SPECIFICATION Spec
CONSTANTS
    main = main
    hid = hid
    recv = recv
    Recv = recv
    Producers <- MCOneProducer
    NumBuf = 2
    MaxMsg = 2
    PollStep = 5
    PollLimit = 10
    MaxTimes = 3
    SnMod = 3
    FreshPoll <- MCZeroed
    PeerSn = {1}
    UploadSn = {0}
    Timely = TRUE
INVARIANTS
    FlagMeansAnswered
