\* Two workers, a request and, without mishaps, a second one, every kind of
\* mishap once, both kinds of database and both remedies of the detector
SPECIFICATION Spec
CONSTANTS
  Worker = {w1, w2}
  Nobody = Nobody
  Gone = Gone
  MaxRetries = 1
  MaxIterations = 2
  Requests = {"first", "again"}
  Remediations = {"fail", "retry"}
  Databases = {TRUE, FALSE}
  Faults = {"crash", "slow", "emit", "web", "refuse", "overtake"}
  MaxMishaps = 1
SYMMETRY Alike
CONSTRAINT Few
INVARIANTS TypeOK FreshKnowsKind RetryWithinBudget RetryKeyIsUnused
PROPERTIES FollowsFSM CancelIsFinal
\* a task that needs no more work stops
CHECK_DEADLOCK FALSE
