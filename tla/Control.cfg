CONSTANTS
    Products = {1, 2, 3}
    ExposureOf <- MCExposure
    SignOf <- MCSign
    MarginOf <- MCMargin
    Views <- MCViews
    Half = 1
    Fee = 1
    Depth = 2
    Swing = 4
    Equity = 6
    SingleLimit = 3
    TotalLimit = 5
    Limits <- MCLimits
    Supervisors = {u1, u2, u3}
    Releases = {r1, r2}
    NoRelease = NoRelease
    Nobody = Nobody
    MaxKills = 1
    Sources = {1, 2}
    Available <- MCAvailable
    HorizonEnd <- MCHorizonEnd
    Cutoff <- MCCutoff
    Directions = {1}
    Interval = 2
    MaxAge = 3
    MaxRuleAge = 4
    MaxGap = 3
    Grace = 1
    BatchSize = 1
    MaxDecisions = 1
    LastTime = 5
    Slots = {1, 2, 3}
    SlotAt <- MCSlotAt
    Stratum <- MCStratum
    Contracts <- MCContracts
    Lag = 0
    Horizon = 1
    FundingAt = {0}
    Outlooks = {"buy"}
    MaxGaps = 1
    LastInstant = 2
    Keepers = {k1, k2}
    PageSize = 2
    MonthLength = 3
    Bucket = 2
    LastSlot = 3
    MaxCollected = 2
    LegOf <- MCLegOf
    ClientRanks <- MCClientRanks
    BidAt <- MCBids
    Spread = 3
    Commission = 1
    FundingDue = 2
    FundingMoments = {1}
    Capital = 500
    DayLength = 1
    LastMoment = 2
SPECIFICATION ControlSpec
INVARIANTS
    OneProductPerExposure
    ApprovedIsHoldable
    OneRecordedGroup
    FundingIsCounted
    
    FrozenIsTrue
PROPERTIES
    AccountFollowsFacts
CHECK_DEADLOCK FALSE
