--------------------------- MODULE MCExecutionRun ---------------------------
(* Small instances of ExecutionRun for TLC.                                  *)
EXTENDS ExecutionRun

CONSTANTS w1, w2, c1

(* Two workers may be at the task together, and nothing throws before the    *)
(* reservation; one at most is, and whatever may throw throws; both.         *)
MCHandoff == {"crash", "slow", "db", "throw", "timeout", "books"}
MCAlone == FaultKinds \ {"slow", "db", "disconnect", "reply"}

MCFaultSets == {MCHandoff, MCAlone, FaultKinds}
MCDuplicate == {{"slow", "prepare"}}
MCNoFault == {{}}

=============================================================================
