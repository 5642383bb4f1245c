SPECIFICATION FairSpec
CONSTANTS
    MaxUpdate = 4
    BatchLimit = 2
    MaxStops = 2
INVARIANTS
    NothingLost
PROPERTIES
    OncePerProcess
    InOrder
    EventuallyServed
