\* The values of the code in ticks of five seconds; retry_after up to the 90 s of its test.
CONSTANTS
    PollTimeout = 13
    HandlerTimeout = 12
    MaxBackoff = 12
    Window = 36
    Period = 6
    Threshold = 3
    RetryAfters = {0, 18}
    BatchLimit = 4
SPECIFICATION FairSpec
INVARIANT OnlyHungFails
PROPERTIES HungIsReplaced
