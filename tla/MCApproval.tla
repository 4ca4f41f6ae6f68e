----------------------------- MODULE MCApproval -----------------------------
(* Small instances of Approval for TLC.                                      *)
EXTENDS Approval, TLC

CONSTANTS m1, m2, w1, w2

(* an organization with nothing special but its mode                         *)
Plain(mode) ==
    [mode |-> mode, active |-> TRUE, granted |-> TRUE, deny |-> {}, ask |-> {},
     threshold |-> 1]

SuggestOnly == Plain("suggest_only")
RequireApproval == Plain("require_approval")
AutoExecute == Plain("auto_execute")
Suspended == [AutoExecute EXCEPT !.active = FALSE]
Ungranted == [AutoExecute EXCEPT !.granted = FALSE]
Denying == [AutoExecute EXCEPT !.deny = {"tool"}]
Asking == [AutoExecute EXCEPT !.ask = Kinds]

MCAllPolicies == {SuggestOnly, RequireApproval, AutoExecute, Suspended, Ungranted, Denying, Asking}
MCModes == {SuggestOnly, RequireApproval, AutoExecute}
MCRequireApproval == {RequireApproval}
MCExtremes == {SuggestOnly, AutoExecute}
MCConfidence == {0, 2}
MCDoubtful == {0}

MCSymmetry == Permutations(Manager) \cup Permutations(Worker)

=============================================================================
