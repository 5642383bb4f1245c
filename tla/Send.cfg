\* The policy of telegram's send in ticks of half a second, a short deadline.
CONSTANTS
    Attempts = 3
    Base = 1
    MaxDelay = 10
    Deadline = 12
    CallTimes = {0, 1, 7}
    RetryAfters = {0, 5, 20}
SPECIFICATION FairSpec
INVARIANTS DuplicateOnlyAfterCrash NilMeansDelivered
PROPERTIES FloodWaitKept Returns
