SPECIFICATION Spec
CONSTANTS
    d1 = d1
    s1 = s1
    b1 = b1
    r1 = r1
    k1 = k1
    NoKey = NoKey
    None = None
    Devices = {d1}
    Samples = {s1}
    Builds = {b1}
    Keys = {k1}
    Rollouts = {r1}
    SignedBy <- OneKey
    Outcomes <- WholeSaves
    Wipes = {FALSE, TRUE}
    MaxKeys = 3
    MaxCommands = 2
    MaxSteps = 1
INVARIANT TypeOK
INVARIANT IdentityAgrees
INVARIANT AcknowledgedSurvives
INVARIANT IdentitiesStayValid
INVARIANT DeliveredOnceInOrder
PROPERTY FirstIdentityLasts
CHECK_DEADLOCK FALSE
