SPECIFICATION Spec
CONSTANTS
    m1 = m1
    m2 = m2
    w1 = w1
    w2 = w2
    Manager = {m1}
    Worker = {w1}
    Nobody = Nobody
    Origins = {"message"}
    Policies <- MCRequireApproval
    FirstPolicies <- MCRequireApproval
    MaxPolicyChanges = 0
    Arg = {"good"}
    IngressConfidence <- MCConfidence
    Faults = {}
INVARIANT ApprovalSatisfiesGate
CHECK_DEADLOCK FALSE
