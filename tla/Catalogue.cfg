CONSTANTS
    Paths = {1, 2, 3}
    Requests <- AllCalls
    MaxRepeats = 1
    MaxId = 3
SPECIFICATION Spec
INVARIANTS SyncComplete EmojiKept PairsResolve BootstrapComplete
PROPERTIES DescribedForGood
CHECK_DEADLOCK FALSE
