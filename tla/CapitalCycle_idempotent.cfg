SPECIFICATION Spec
CONSTANTS
    MaxPanel = 2
    PanelLife = 2
    MaxTime = 2
    MaxAdvances = 1
    MaxAttempts = 1
INVARIANT ExecutionIsIdempotent
CHECK_DEADLOCK FALSE
