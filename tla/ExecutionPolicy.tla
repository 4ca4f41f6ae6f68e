--------------------------- MODULE ExecutionPolicy ---------------------------
(***************************************************************************)
(* The decision a worker takes about an execution event: the policy of the *)
(* organization, the mode gate and the suggest_only exceptions, as         *)
(* functions of the payload of the event and of the policy in force.       *)
(***************************************************************************)
EXTENDS Integers

Modes == {"suggest_only", "require_approval", "auto_execute"}

(* "none" leaves the choice of the tool to the agent; "tool" stands for the *)
(* high-risk tools, whose use needs a grant.                                *)
Kinds == {"none", "tool"}

(* 0: below the baseline of 0.7; 1: the baseline; 2: certain                *)
Confidence == 0..2

(* What the parameters of a tool look like to the policy: in order; lacking *)
(* something a human may accept; addressed outside the allowed domains;     *)
(* lacking what the tool cannot do without, or refused by the prompt guard. *)
Arguments == {"good", "vague", "outside", "unusable"}

(* OrganizationPolicy, with the state of the organization and the grants    *)
Policy ==
    [mode      : Modes,
     active    : BOOLEAN,        \* not suspended, within its execution quotas
     granted   : BOOLEAN,        \* the owner of the task may use the tool
     deny      : SUBSET Kinds,   \* toolDenyList
     ask       : SUBSET Kinds,   \* requireApprovalFor
     threshold : Confidence]

(* NormalizedTaskExecutionRequestedPayload                                  *)
Payload ==
    [kind : Kinds, arguments : Arguments, confidence : Confidence,
     needsApproval : BOOLEAN, explicit : BOOLEAN, humanApproved : BOOLEAN]

(* What evaluateExecutionPolicy holds against executing p at once            *)
Reasons(p, pol) ==
    {r \in {"upstream", "asked", "confidence", "vague", "outside"} :
        \/ r = "upstream" /\ p.needsApproval
        \/ r = "asked" /\ p.kind \in pol.ask
        \/ r = "confidence" /\ p.confidence < pol.threshold
        \/ r \in {"vague", "outside"} /\ p.kind = "tool" /\ p.arguments = r}

ModeDenied(pol) == pol.mode = "suggest_only"

HardBlocked(p, pol) ==
    p.kind \in pol.deny \/ (p.kind = "tool" /\ p.arguments = "unusable")

(* variant: a request that is otherwise in order is not capped by the mode   *)
OutcomeUncapped(p, pol) ==
    IF ModeDenied(pol) \/ HardBlocked(p, pol) THEN "blocked"
    ELSE IF Reasons(p, pol) # {} THEN "approval_required"
    ELSE "auto_execute"

(* evaluateExecutionPolicy with applyExecutionModeGate                       *)
Outcome(p, pol) ==
    IF ModeDenied(pol) \/ HardBlocked(p, pol) THEN "blocked"
    ELSE IF Reasons(p, pol) # {} \/ pol.mode = "require_approval" THEN "approval_required"
    ELSE "auto_execute"

(* riskLevel is high for a reason that processTaskExecutionRequested names   *)
Unsafe(p, pol) ==
    /\ ~ModeDenied(pol)
    /\ p.kind \notin pol.deny
    /\ p.kind = "tool" /\ p.arguments \in {"outside", "unusable"}

(* shouldSkipSuggestOnlyIngressFailClosed                                    *)
SkipsFailClosed(p) == p.humanApproved \/ p.explicit

(* resolveSuggestOnlyPolicyOverride                                          *)
ForcesApproval(p, pol) == ModeDenied(pol) /\ p.explicit /\ ~p.humanApproved

BypassesModeDenial(p, pol) ==
    ModeDenied(pol) /\ p.explicit /\ p.humanApproved /\ ~Unsafe(p, pol)

(* What processTaskExecutionRequested does with an event: refuse it, ask a   *)
(* reviewer, or run it. The guards come in the order of the code.            *)
Verdict(p, pol) ==
    IF \/ ~pol.active
       \/ ModeDenied(pol) /\ ~SkipsFailClosed(p)
       \/ p.kind = "tool" /\ ~pol.granted
       \/ /\ Outcome(p, pol) = "blocked" \/ Unsafe(p, pol)
          /\ ~ForcesApproval(p, pol)
          /\ ~BypassesModeDenial(p, pol)
    THEN "refuse"
    ELSE IF Outcome(p, pol) = "approval_required" \/ ForcesApproval(p, pol) THEN "ask"
    ELSE "run"

=============================================================================
