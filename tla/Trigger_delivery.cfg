SPECIFICATION Spec
CONSTANTS
    Events = {"news"}
    Kind <- MCKind
    Priority <- MCPriority
    Lifetime <- MCLifetime
    FirstPlan <- ReviewPlan
    Rulebook <- Rules
    Pauses = {TRUE, FALSE}
    Heartbeats <- Beats
    WakeupPlans <- Wakeups
    Requests = {"now"}
    Expiry = 2
    MinInterval = 1
    MaxRevision = 2
    MaxTime = 3
    LastRecording = 1
    LastBusy = 9
    MaxLate = 1
    MaxFaults = 2
    BatchSize = 2
    MaxPending = 1
    Patience = 2
    RetryMaximum = 2
    Deferrals = {1}
    ContinueEvery = 1
INVARIANTS NothingVanishes DeliveredPlanIsKnown PlanBeforeItsTrigger
PROPERTIES InternalOnce
CHECK_DEADLOCK FALSE
