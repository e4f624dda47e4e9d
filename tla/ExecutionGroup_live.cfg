CONSTANTS
    Legs = {spot, perp}
    LargeLeg = none
    Quantity <- Uneven
    Price <- OneEach
    MaximumUnhedgedNotional = 1
    MaximumUnhedgedTime = 1
    ValidUntil = 1
    MaxTime = 1
    MaxAttempts = 2
    Runners = {r1}
    MaxFaults = 1
SPECIFICATION FairSpec
PROPERTIES
    EventuallyEnds
