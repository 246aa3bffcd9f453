SPECIFICATION Spec
CONSTANTS
    d1 = d1
    d2 = d2
    d3 = d3
    Devices = {d1, d2}
    Campaigns = {a, b}
    Default = v0
    None = None
    Versions = {v0, v1}
    Orders <- OrdersTwo
    Sizes <- SizesTwo
    Limits <- LimitsTwo
INVARIANT TypeOK
 
 
PROPERTY FinalIsFinal
CHECK_DEADLOCK FALSE
SYMMETRY CampaignSymmetry
