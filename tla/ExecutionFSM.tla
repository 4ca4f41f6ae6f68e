---------------------------- MODULE ExecutionFSM ----------------------------
(***************************************************************************)
(* The execution state machine of a task (execution-state-machine.ts): its *)
(* events, its legal transitions, and the legacy lifecycle and status that *)
(* are projected from it.  As a specification it says how the stored state *)
(* may move: a save applies one event or two to the state it was read in.  *)
(***************************************************************************)
VARIABLE kind       \* task.executionState.kind

Kinds == {"queued", "policy_evaluating", "policy_blocked", "awaiting_approval",
          "planning", "ready_to_execute", "reasoning", "tool_executing",
          "observing", "verifying", "step_complete", "blocked", "paused",
          "retry_scheduled", "cancelling", "cancelled", "succeeded", "failed"}

Terminal == {"succeeded", "failed", "cancelled"}

(* LEGAL_EXECUTION_TRANSITIONS, by the state they leave *)
LegalFrom(k) ==
    CASE k = "queued"            -> {"policy_evaluating", "cancelling"}
      [] k = "policy_evaluating" -> {"policy_blocked", "awaiting_approval", "planning",
                                     "cancelling"}
      [] k = "awaiting_approval" -> {"planning", "failed", "blocked", "cancelling"}
      [] k = "policy_blocked"    -> {"queued", "cancelled"}
      [] k = "planning"          -> {"ready_to_execute", "blocked", "failed", "cancelling"}
      [] k = "ready_to_execute"  -> {"reasoning", "blocked", "cancelling"}
      [] k = "reasoning"         -> {"tool_executing", "paused", "retry_scheduled",
                                     "succeeded", "failed", "cancelling"}
      [] k = "tool_executing"    -> {"observing", "paused", "retry_scheduled", "failed",
                                     "cancelling"}
      [] k = "observing"         -> {"verifying", "retry_scheduled", "failed", "cancelling"}
      [] k = "verifying"         -> {"step_complete", "reasoning", "retry_scheduled",
                                     "failed", "cancelling"}
      [] k = "step_complete"     -> {"reasoning", "succeeded", "cancelling"}
      [] k = "blocked"           -> {"queued", "failed", "cancelled"}
      [] k = "paused"            -> {"reasoning", "failed", "cancelling"}
      [] k = "retry_scheduled"   -> {"queued", "failed", "cancelling"}
      [] k = "cancelling"        -> {"cancelled", "failed"}
      [] OTHER                   -> {}

(* ERROR_OCCURRED is two events: whether it is retryable, within the       *)
(* budget and has a date decides its target.                               *)
Events == {"POLICY_EVALUATE", "POLICY_BLOCKED", "POLICY_APPROVAL_REQUIRED",
           "APPROVAL_GRANTED", "APPROVAL_REJECTED", "LEASE_ACQUIRED", "PLAN_READY",
           "ITERATION_START", "TOOL_STARTED", "TOOL_OBSERVED", "TOOL_VERIFIED",
           "STEP_COMPLETED", "GOAL_ACHIEVED", "CLARIFICATION_REQUIRED",
           "CLARIFICATION_RESOLVED", "BLOCKED", "ERROR_RETRYABLE", "ERROR_FATAL",
           "RETRY_DUE", "RETRY_BUDGET_EXHAUSTED", "CANCEL_REQUESTED", "CANCEL_FINALIZED"}

(* the states in which the reducer takes an event *)
Sources(e) ==
    CASE e = "POLICY_EVALUATE"          -> {"queued"}
      [] e = "POLICY_BLOCKED"           -> {"policy_evaluating"}
      [] e = "POLICY_APPROVAL_REQUIRED" -> {"policy_evaluating"}
      [] e = "APPROVAL_GRANTED"         -> {"awaiting_approval"}
      [] e = "APPROVAL_REJECTED"        -> {"awaiting_approval"}
      [] e = "LEASE_ACQUIRED"           -> {"policy_evaluating", "awaiting_approval"}
      [] e = "PLAN_READY"               -> {"planning"}
      [] e = "ITERATION_START"          -> {"ready_to_execute", "step_complete", "verifying"}
      [] e = "TOOL_STARTED"             -> {"reasoning"}
      [] e = "TOOL_OBSERVED"            -> {"tool_executing"}
      [] e = "TOOL_VERIFIED"            -> {"observing"}
      [] e = "STEP_COMPLETED"           -> {"verifying"}
      [] e = "GOAL_ACHIEVED"            -> {"reasoning", "step_complete"}
      [] e = "CLARIFICATION_RESOLVED"   -> {"paused"}
      [] e = "RETRY_DUE"                -> {"retry_scheduled"}
      [] e = "RETRY_BUDGET_EXHAUSTED"   -> {"retry_scheduled"}
      [] e = "CANCEL_FINALIZED"         -> {"cancelling"}
      [] OTHER                          -> Kinds

Target(e) ==
    CASE e = "POLICY_EVALUATE"          -> "policy_evaluating"
      [] e = "POLICY_BLOCKED"           -> "policy_blocked"
      [] e = "POLICY_APPROVAL_REQUIRED" -> "awaiting_approval"
      [] e \in {"APPROVAL_GRANTED", "LEASE_ACQUIRED"} -> "planning"
      [] e = "PLAN_READY"               -> "ready_to_execute"
      [] e \in {"ITERATION_START", "CLARIFICATION_RESOLVED"} -> "reasoning"
      [] e = "TOOL_STARTED"             -> "tool_executing"
      [] e = "TOOL_OBSERVED"            -> "observing"
      [] e = "TOOL_VERIFIED"            -> "verifying"
      [] e = "STEP_COMPLETED"           -> "step_complete"
      [] e = "GOAL_ACHIEVED"            -> "succeeded"
      [] e = "CLARIFICATION_REQUIRED"   -> "paused"
      [] e = "BLOCKED"                  -> "blocked"
      [] e = "ERROR_RETRYABLE"          -> "retry_scheduled"
      [] e = "RETRY_DUE"                -> "queued"
      [] e = "CANCEL_REQUESTED"         -> "cancelling"
      [] e = "CANCEL_FINALIZED"         -> "cancelled"
      [] OTHER                          -> "failed"

(* reduceShadowExecutionEvent: an event the reducer refuses is logged and  *)
(* leaves the state alone                                                  *)
Reduce(k, e) ==
    IF k \in Sources(e) /\ Target(e) \in LegalFrom(k) THEN Target(e) ELSE k

(* variant: a state without a case of its own is its own lifecycle *)
LifeOf_Itself(k) ==
    CASE k \in {"queued", "policy_evaluating"}             -> "ready"
      [] k \in {"policy_blocked", "cancelled", "failed"}   -> "failed"
      [] k = "succeeded"                                   -> "completed"
      [] OTHER                                             -> k

(* deriveLegacyLifecycleState *)
LifeOf(k) ==
    CASE k \in {"queued", "policy_evaluating"}             -> "ready"
      [] k \in {"policy_blocked", "cancelled", "failed"}   -> "failed"
      [] k = "awaiting_approval"                           -> "waiting_for_approval"
      [] k \in {"planning", "blocked", "paused", "retry_scheduled"} -> k
      [] k = "succeeded"                                   -> "completed"
      [] OTHER                                             -> "executing"

(* deriveLegacyTaskStatus *)
StatusOf(k) ==
    CASE k \in {"queued", "policy_evaluating", "planning", "ready_to_execute"} -> "pending"
      [] k \in {"awaiting_approval", "blocked", "retry_scheduled"} -> "partial"
      [] k = "paused"                                    -> "waiting_for_input"
      [] k \in {"policy_blocked", "cancelled", "failed"} -> "failed"
      [] k = "succeeded"                                 -> "completed"
      [] OTHER                                           -> "executing"

(* startShadowExecutionRun begins a terminal state anew *)
Baseline(k) == IF k \in Terminal THEN "queued" ELSE k

-----------------------------------------------------------------------------
Init == kind = "queued"

(* An event of a run, of a cancellation or of the retry scanner *)
Happens(e) == kind' = Reduce(kind, e)

(* The first save of a run *)
StartRun == \E e \in {"POLICY_EVALUATE", "LEASE_ACQUIRED", "APPROVAL_GRANTED"} :
                \/ kind' = Reduce(Baseline(kind), e)
                \/ kind' = Reduce(Reduce(Baseline(kind), "POLICY_EVALUATE"), e)

(* The policy judges every request from a fresh state, whatever was stored *)
Judge == \E e \in {"POLICY_BLOCKED", "POLICY_APPROVAL_REQUIRED"} :
             kind' = Reduce(Reduce("queued", "POLICY_EVALUATE"), e)

(* finalizeTaskCancellation saves both of its events at once *)
Cancel == kind' = Reduce(Reduce(kind, "CANCEL_REQUESTED"), "CANCEL_FINALIZED")

(* Events that come one after the other, with nothing in between that      *)
(* another process could see *)
Then(e, f) == kind' = Reduce(Reduce(kind, e), f)

Next ==
    \/ \E e \in Events : Happens(e)
    \/ StartRun \/ Judge \/ Cancel
    \/ Then("TOOL_OBSERVED", "TOOL_VERIFIED")

Spec == Init /\ [][Next]_kind
=============================================================================
