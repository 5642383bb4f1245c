SPECIFICATION FairSpec
CONSTANTS
    Divine = Divine
    Chaos = Chaos
    Exalted = Exalted
    Standard = Standard
    Runs = {r1, r2}
    Paths <- MCPaths
    Leagues <- MCLeagues
    Hours <- MCHours
    Amounts <- MCAmounts
    Digests <- MCDigests
INVARIANTS
    NoOrphans
    OneRowPerPair
    SidesMatch
PROPERTIES
    NilMeansStored
    RunsEnd
    ImplementsStore
