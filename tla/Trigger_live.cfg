SPECIFICATION FairSpec
CONSTANTS
    Events = {"news"}
    Kind <- MCKind
    Priority <- MCPriority
    Lifetime <- MCLifetime
    FirstPlan <- ReviewPlan
    Rulebook = {}
    Pauses = {}
    Heartbeats = {}
    WakeupPlans = {}
    Requests = {}
    Expiry = 2
    MinInterval = 1
    MaxRevision = 2
    MaxTime = 12
    LastRecording = 1
    LastBusy = 2
    MaxLate = 0
    MaxFaults = 1
    BatchSize = 2
    MaxPending = 3
    Patience = 2
    RetryMaximum = 2
    Deferrals = {1}
    ContinueEvery = 1
PROPERTIES
    EventuallySettled
CHECK_DEADLOCK FALSE
