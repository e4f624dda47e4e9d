SPECIFICATION Spec
CONSTANTS
    Events = {"news", "forecast"}
    Kind <- MCKind
    Priority <- MCPriority
    Lifetime <- MCLifetime
    FirstPlan <- BeatingReviewPlan
    Rulebook = {}
    Pauses = {}
    Heartbeats = {}
    WakeupPlans = {}
    Requests = {}
    Expiry = 2
    MinInterval = 1
    MaxRevision = 1
    MaxTime = 4
    LastRecording = 1
    LastBusy = 9
    MaxLate = 0
    MaxFaults = 1
    BatchSize = 2
    MaxPending = 3
    Patience = 2
    RetryMaximum = 2
    Deferrals = {1}
    ContinueEvery = 2
PROPERTIES FrozenBatchKept
CHECK_DEADLOCK FALSE
