\* Six kinds of behaviours, each with mishaps of the kinds it is about
SPECIFICATION Spec
CONSTANTS
  Call = {c1, c2, c3}
  Row = {r1, r2}
  Message = {m1, m2}
  Worker = {w1, w2}
  Entry = {e1, e2}
  Mount = {k1, k2}
  FirstMount = k1
  NoTask = NoTask
  NoRow = NoRow
  NoMessage = NoMessage
  NoEntry = NoEntry
  MaxAttempts = 2
  Limits <- Scenes
SYMMETRY Alike
INVARIANTS TypeOK ConvertedHasTask NoOrphanTask OneVerdict AcceptIsComplete
INVARIANTS QueueLosesNothing NothingIsDropped
PROPERTIES DecidedOnce
\* what is decided, sent and handled stays so
CHECK_DEADLOCK FALSE
