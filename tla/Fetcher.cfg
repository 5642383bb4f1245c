SPECIFICATION FairSpec
CONSTANTS
    MaxHour = 3
    MaxAttempts = 6
    Backfills = {}
INVARIANTS
    LogFollowsStore
PROPERTIES
    RecordedNotStoredAgain
    RecordMatchesStore
    RunsEnd
