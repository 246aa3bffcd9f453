SPECIFICATION FairSpec
CONSTANTS
    d1 = d1
    d2 = d2
    d3 = d3
    Devices = {d1, d2, d3}
    Campaigns = {a}
    Default = v0
    None = None
    Versions = {v0}
    Orders <- OrdersOne
    Sizes <- SizesAll
    Limits <- LimitsAll
INVARIANT FailureBudget
INVARIANT CursorSeparates
PROPERTY CampaignEnds
CHECK_DEADLOCK FALSE
