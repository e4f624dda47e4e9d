CONSTANTS
    Legs = {spot}
    LargeLeg = spot
    Quantity <- Uneven
    Price <- OneEach
    MaximumUnhedgedNotional = 1
    MaximumUnhedgedTime = 1
    ValidUntil = 1
    MaxTime = 1
    MaxAttempts = 2
    Runners = {r1, r2}
    MaxFaults = 2
SYMMETRY RunnerSymmetry
SPECIFICATION Spec
INVARIANTS
    RaceInvariant
    NeverOverReversed
    HedgedIsHedged
    EndedReversalsAreTrue
