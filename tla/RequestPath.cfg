SPECIFICATION PathSpec
CONSTANTS
    MaxCalls = 2
    HttpAttempts = 2
    GrpcAttempts = 2
INVARIANTS
    NotServingWhileStopping
PROPERTIES
    CallsDrained
    ReadyFollowsDb
    ShutdownEnds
    PressEnds
    NothingLeft

