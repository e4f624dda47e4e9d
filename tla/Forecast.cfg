CONSTANTS
    Routers = {r1, r2}
    Accounts = {a1, a2}
    MaxTries = 2
    LeaseTtl = 2
    Timeout = 1
    Cooldown = 2
    Resets = {1}
    MaxClock = 2
    MaxRuns = 1
    MaxEvents = 3
    NTargets = 2
    MaxAttempts = 2
    MaxExecs = 3
    MaxBatches = 2
    Causes = {"CADENCE"}
    Contracts = {1, 2}
    First = 1
    Deadline = 1
    Horizon = 2
    Grace = 1
    BatchSize = 1
    MaxQuotes = 1
    MaxTime = 3
    Threads = 2
    Matches = {"supports"}
    MinInterval = 2
    Window = 2
    MaxSubmitted = 2
    MaxAbandoned = 1
    MaxMinute = 3
SPECIFICATION ForecastSpec
SYMMETRY Symmetry
INVARIANTS
    LeaseHolds
    
    AcceptedTurnIsWhole
    OneJointAnswer
    NoSlotSkipped
    CallsAreSpaced
    StreaksAreEarned
CHECK_DEADLOCK FALSE
