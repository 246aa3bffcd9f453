SPECIFICATION CalmSpec
CONSTANTS
    d1 = d1
    s1 = s1
    b1 = b1
    r1 = r1
    k1 = k1
    NoKey = NoKey
    None = None
    Devices = {d1}
    Samples = {}
    Builds = {}
    Keys = {k1}
    Rollouts = {}
    SignedBy <- OneKey
    Outcomes <- LostAnswers
    Wipes = {FALSE}
    MaxKeys = 4
    MaxCommands = 0
    MaxSteps = 0
CHECK_DEADLOCK FALSE
PROPERTY EventuallyVerified
