SPECIFICATION Spec
CONSTANTS
    m1 = m1
    m2 = m2
    w1 = w1
    w2 = w2
    Manager = {m1}
    Worker = {w1, w2}
    Nobody = Nobody
    Origins = {"message", "manual", "suggestion"}
    Policies <- MCAllPolicies
    FirstPolicies <- MCModes
    MaxPolicyChanges = 1
    Arg = {"good", "outside"}
    IngressConfidence <- MCConfidence
    Faults = {"crash", "redeliver"}
INVARIANTS TypeOK RunsAreAuthorised
SYMMETRY MCSymmetry
CHECK_DEADLOCK FALSE
