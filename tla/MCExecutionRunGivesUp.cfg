SPECIFICATION Spec
CONSTANTS
    w1 = w1
    w2 = w2
    c1 = c1
    Worker = {w1, w2}
    Nobody = Nobody
    Gone = Gone
    Call = {c1}
    NoCall = NoCall
    Loops = {"persistent"}
    MaxEffects = 2
    MaxMishaps = 0
    FaultSets <- MCNoFault
INVARIANT GaveUpForAReason
CHECK_DEADLOCK FALSE
