CONSTANTS
    MaxVersions = 2
    MaxInstant = 3
    PollInterval = 1
    Validity = 1
    ResolveBy = 1
    MaxCrashes = 1
    Preparers = {p1, p2}
    Events = {e1}
    DeltaLife = 1
    MaxNow = 2
    MaxFacts = 1
    MaxEditions = 2
    MaxHour = 3
    MaxRestarts = 1
    Entries = {n1, n2}
    MaxDay = 3
    Levels = {0, 1, 2}
    LastDate = 4
    MaxSnaps = 3
    Limits <- MCLimits
    FactPool <- MCFactPool
    EventPool <- MCEventPool
    Symbols = {s1, s2}
    Marks = {0, 4}
    Threshold = 4
    Span = 2
    MaxSecond = 2
    MaxBreaks = 1
    Writers = {w1, w2}
    MaxMoment = 3
    MaxCorrected = 1
SPECIFICATION RecordsSpec
INVARIANTS
    LedgerFollowsObservations
    DeltasJoinNeighbours
    EveryPartWasNews
    
    SnapshotsAreReproducible
    PacketKeepsItsBaseline
    ShocksAreSpaced
    ReadsAreStable
CHECK_DEADLOCK FALSE
