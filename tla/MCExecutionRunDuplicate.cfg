SPECIFICATION Spec
CONSTANTS
    w1 = w1
    w2 = w2
    c1 = c1
    Worker = {w1, w2}
    Nobody = Nobody
    Gone = Gone
    Call = {c1}
    NoCall = NoCall
    Loops = {"autonomous"}
    MaxEffects = 2
    MaxMishaps = 1
    FaultSets <- MCDuplicate
INVARIANT NoDuplicateEffect
CHECK_DEADLOCK FALSE
