SPECIFICATION Spec
CONSTANTS
    e1 = e1
    e2 = e2
    w1 = w1
    w2 = w2
    Event = {e1}
    Worker = {w1, w2}
    NoEvent = NoEvent
    Nobody = Nobody
    Gone = Gone
    Deferrable = {}
    Requeueable = {}
    Share <- MCShare
    BatchSize = 2
    MaxAttempts = 2
    UseRedis = TRUE
    Faults = {"graceExpiry"}
    MaxMishaps = 1
    MaxSuccesses = 1
PROPERTY StopNeverReopens
CHECK_DEADLOCK FALSE
