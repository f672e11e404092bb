SPECIFICATION NetFairSpec
CONSTANTS
    MaxChanges = 2
INVARIANTS
    NetTypeOK
    SeenMeansTold
PROPERTIES
    LinksReported
