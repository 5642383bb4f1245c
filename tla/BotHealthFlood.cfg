\* The values of the code in ticks of five seconds; retry_after of five minutes.
CONSTANTS
    PollTimeout = 13
    HandlerTimeout = 12
    MaxBackoff = 12
    Window = 36
    Period = 6
    Threshold = 3
    RetryAfters = {0, 60}
    BatchLimit = 4
SPECIFICATION FairSpec
PROPERTIES OutageNeverRestarts
