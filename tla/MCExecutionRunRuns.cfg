SPECIFICATION FairSpec
CONSTANTS
    w1 = w1
    w2 = w2
    c1 = c1
    Worker = {w1, w2}
    Nobody = Nobody
    Gone = Gone
    Call = {c1}
    NoCall = NoCall
    Loops = {"autonomous", "persistent"}
    MaxEffects = 2
    MaxMishaps = 3
    FaultSets <- MCFaultSets
INVARIANTS TypeOK SuccessIsReal LeaseExcludes OneReservation EffectAtMostOnce
PROPERTIES SucceededIsFinal WorkIsDone
CHECK_DEADLOCK FALSE
