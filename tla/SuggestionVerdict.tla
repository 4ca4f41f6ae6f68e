-------------------------- MODULE SuggestionVerdict -------------------------
(***************************************************************************)
(* What the people around a suggestion may rely on, whatever requests      *)
(* decide about it at the same time and wherever they stop: it is decided  *)
(* once, by being converted into one task or by being dismissed, and what  *)
(* is announced of it is the decision that stands.                         *)
(***************************************************************************)
CONSTANTS Row, Task, NoTask

VARIABLES
    verdict,  \* verdict[r]: "none" (not there), "proposed", "converted", "dismissed"
    into,     \* into[r]: the task it was converted into
    heard     \* heard[r]: the verdicts that have been announced

vars == <<verdict, into, heard>>

Init ==
    /\ verdict = [r \in Row |-> "none"]
    /\ into = [r \in Row |-> NoTask]
    /\ heard = [r \in Row |-> {}]

Suggest(r) ==
    /\ verdict[r] = "none"
    /\ verdict' = [verdict EXCEPT ![r] = "proposed"]
    /\ UNCHANGED <<into, heard>>

Convert(r, t) ==
    /\ verdict[r] = "proposed"
    /\ verdict' = [verdict EXCEPT ![r] = "converted"]
    /\ into' = [into EXCEPT ![r] = t]
    /\ UNCHANGED heard

Dismiss(r) ==
    /\ verdict[r] = "proposed"
    /\ verdict' = [verdict EXCEPT ![r] = "dismissed"]
    /\ UNCHANGED <<into, heard>>

Announce(r) ==
    /\ verdict[r] \in {"converted", "dismissed"}
    /\ heard' = [heard EXCEPT ![r] = {verdict[r]}]
    /\ UNCHANGED <<verdict, into>>

Next ==
    \E r \in Row :
        \/ Suggest(r) \/ Dismiss(r) \/ Announce(r)
        \/ \E t \in Task : Convert(r, t)

Spec == Init /\ [][Next]_vars
=============================================================================
