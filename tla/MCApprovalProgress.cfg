SPECIFICATION FairSpec
CONSTANTS
    m1 = m1
    m2 = m2
    w1 = w1
    w2 = w2
    Manager = {m1, m2}
    Worker = {w1, w2}
    Nobody = Nobody
    Origins = {"message"}
    Policies <- MCExtremes
    FirstPolicies <- MCExtremes
    MaxPolicyChanges = 0
    Arg = {"good"}
    IngressConfidence <- MCDoubtful
    Faults = {"cancel"}
PROPERTIES ApprovalIsHandled RequestIsHandled CancellationIsHonoured
CHECK_DEADLOCK FALSE
