SPECIFICATION Spec
CONSTANTS
    MaxPanel = 2
    PanelLife = 2
    MaxTime = 2
    MaxAdvances = 1
    MaxAttempts = 1
INVARIANTS
    InRangeUnlessInterrupted
    DecidedOnMeasured
    OneDecisionReceipt
CHECK_DEADLOCK FALSE
