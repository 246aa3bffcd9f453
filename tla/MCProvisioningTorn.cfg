SPECIFICATION Spec
CONSTANTS
    d1 = d1
    s1 = s1
    b1 = b1
    r1 = r1
    k1 = k1
    NoKey = NoKey
    None = None
    Devices = {d1}
    Samples = {}
    Builds = {}
    Keys = {k1}
    Rollouts = {}
    SignedBy <- OneKey
    Outcomes <- TornSaves
    Wipes = {FALSE}
    MaxKeys = 3
    MaxCommands = 1
    MaxSteps = 0
INVARIANT TrustRootSurvives
CHECK_DEADLOCK FALSE
