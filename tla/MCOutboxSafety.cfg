SPECIFICATION Spec
CONSTANTS
    e1 = e1
    e2 = e2
    w1 = w1
    w2 = w2
    Event = {e1, e2}
    Worker = {w1, w2}
    NoEvent = NoEvent
    Nobody = Nobody
    Gone = Gone
    Deferrable = {e1}
    Requeueable = {e2}
    Share <- MCShare
    BatchSize = 1
    MaxAttempts = 2
    UseRedis = TRUE
    Faults = {"crash", "dbError"}
    MaxMishaps = 1
    MaxSuccesses = 2
SYMMETRY MCSymmetry
INVARIANTS AttemptsCountSpentClaims OneHandlerPerEvent
PROPERTIES CompletedIsFinal MarkedIsNotRepeated DeliversAtLeastOnce
CHECK_DEADLOCK FALSE
