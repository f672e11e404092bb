SPECIFICATION FairSpec
CONSTANTS
    NumSlots = 2
    MaxDisks = 3
INVARIANTS
    TypeOK
    PeerBelieves
PROPERTIES
    DiskServed
    PulloutTold
