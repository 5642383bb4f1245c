SPECIFICATION FairSpec
CONSTANTS
    MaxHour = 3
    MaxAttempts = 6
    Backfills = {}
PROPERTIES
    PreviousPayloadNotStored
