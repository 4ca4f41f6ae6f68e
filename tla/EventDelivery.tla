---------------------------- MODULE EventDelivery ----------------------------
(***************************************************************************)
(* What the outbox promises to a producer: at-least-once delivery.  An     *)
(* event that was submitted stays queued until it is finished, which only  *)
(* a delivered event can be, or given up, after which an operator may      *)
(* revive it.  A finished event is never delivered again before it is      *)
(* forgotten.                                                              *)
(***************************************************************************)
CONSTANT Event

VARIABLES
    state,     \* state[e]: where e is in its life
    delivered  \* events whose handler has succeeded at least once

vars == <<state, delivered>>

Init ==
    /\ state = [e \in Event |-> "none"]
    /\ delivered = {}

Move(e, from, to) ==
    /\ state[e] = from
    /\ state' = [state EXCEPT ![e] = to]

Submit(e)  == Move(e, "none", "queued")      /\ UNCHANGED delivered
Deliver(e) == state[e] = "queued"            /\ delivered' = delivered \cup {e}
                                             /\ UNCHANGED state
Finish(e)  == Move(e, "queued", "finished")  /\ e \in delivered /\ UNCHANGED delivered
GiveUp(e)  == Move(e, "queued", "dead")      /\ UNCHANGED delivered
Revive(e)  == Move(e, "dead", "queued")      /\ UNCHANGED delivered
Forget(e)  == \/ Move(e, "finished", "none") /\ delivered' = delivered \ {e}
              \/ Move(e, "dead", "none")     /\ delivered' = delivered \ {e}

Next == \E e \in Event : \/ Submit(e) \/ Deliver(e) \/ Finish(e)
                         \/ GiveUp(e) \/ Revive(e) \/ Forget(e)

Spec == Init /\ [][Next]_vars

=============================================================================
