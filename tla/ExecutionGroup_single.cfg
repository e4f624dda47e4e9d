CONSTANTS
    Legs = {spot, perp}
    LargeLeg = spot
    Quantity <- Uneven
    Price <- OneEach
    MaximumUnhedgedNotional = 1
    MaximumUnhedgedTime = 1
    ValidUntil = 2
    MaxTime = 2
    MaxAttempts = 2
    Runners = {r1}
    MaxFaults = 1
SPECIFICATION Spec
INVARIANTS
    TypeOK
    EndedLegsAreTrue
    
    
PROPERTIES
    ImplementsOutcome
