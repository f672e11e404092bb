\* Every answer the server can give.
SPECIFICATION FairSpec
CONSTANTS
    TimeBodies = {"full", "no_zone", "zone_type", "errno", "garbage"}
    PostBodies = {"number", "not_number", "garbage", "empty"}
INVARIANTS
    TypeOK
    OnlineMeansContact
    OfflineMeansFailure
    ResultsHonest
    SyncHonest
PROPERTIES
    UploadAnswered
