------------------------------ MODULE Approval ------------------------------
(***************************************************************************)
(* One task between the people who may decide about it and the workers     *)
(* that execute it: requests for execution, the rows of TaskAction a       *)
(* reviewer sees, the decision, and the ingress chain of an execution      *)
(* event up to the start and the end of a run.                             *)
(*                                                                         *)
(* Every request handler and every event handler is cut where it awaits    *)
(* the database. The outbox is reduced to what Outbox shows of it: one row *)
(* per dedupe key, handled by one worker at a time, handled again when the *)
(* handler fails, dies, or is not heard of.                                *)
(***************************************************************************)
EXTENDS ExecutionPolicy, FiniteSets

CONSTANTS
    Manager,           \* users who may decide about the task
    Worker,
    Nobody,            \* no event, no row, no lease
    Origins,           \* how the task may come to be: "message", "manual", "suggestion"
    Policies,          \* the policies the organization may have
    FirstPolicies,     \* the ones it may have at first
    MaxPolicyChanges,  \* bound on the changes of the policy
    Arg,               \* the arguments a proposal or a reviewer may come up with
    IngressConfidence, \* what the classifier may be confident of
    Faults             \* what the environment may do, a subset of FaultKinds

(***************************************************************************)
(* "crash"     a worker, or the process of a web request, dies             *)
(* "throw"     a handler fails before the run, or the run throws           *)
(* "redeliver" an event is handled to the end and delivered again          *)
(* "cancel"    a user cancels the task                                     *)
(***************************************************************************)
FaultKinds == {"crash", "throw", "redeliver", "cancel"}

(* A row is named by its idempotencyKey: the explicit request of a manager, *)
(* the pending action a worker writes for a kind of action, the proposal    *)
(* that comes with an accepted suggestion. The message that triggers a task *)
(* is the same for all of its events, so it is left out of the names.       *)
Request(m) == <<"request", m>>
Gate(k) == <<"gate", k>>
Proposal == <<"proposal", "tool">>

Requests == {Request(m) : m \in Manager}
Askable == {Gate(k) : k \in Kinds} \cup {Proposal}
Row == Requests \cup Askable

(* An event is named by its dedupeKey: the one a message or the task panel  *)
(* causes, that of an explicit request, that of an approved row, that of a  *)
(* cancellation.                                                            *)
Ingress == <<"requested", "ingress">>
Requested(m) == <<"requested", m>>
Approved(r) == <<"approved", r>>
Cancellation == <<"cancel", "task">>

Event == {Ingress, Cancellation} \cup {Requested(m) : m \in Manager} \cup {Approved(r) : r \in Askable}

KindOf(r) == IF r \in {Gate("tool"), Proposal} THEN "tool" ELSE "none"

RowStates == {"absent", "requested", "approval_pending", "approved", "rejected", "blocked"}

ASSUME ApprovalAssumption ==
    /\ "ingress" \notin Manager
    /\ Nobody \notin Row \cup Event \cup Worker
    /\ Origins \subseteq {"message", "manual", "suggestion"}
    /\ Policies \subseteq Policy
    /\ FirstPolicies \subseteq Policies
    /\ MaxPolicyChanges \in Nat
    /\ Arg \subseteq Arguments /\ "good" \in Arg
    /\ IngressConfidence \subseteq Confidence
    /\ Faults \subseteq FaultKinds

VARIABLES
    policy,      \* the policy in force
    changes,     \* how often it changed
    origin,      \* how the task came to be, or "none"
    sure,        \* the confidence of the classifier in the message of the task
    status,      \* task.status; "none" before the task is created
    ended,       \* task.lifecycleState is completed or failed
    cancelled,   \* "no", or "set" since task.cancelRequestedAt is set, or "published"
    lease,       \* the worker that runs the task
    row,         \* row[r]: the TaskAction named r
    event,       \* event[e]: "absent", "queued" or "done"
    hand,        \* hand[m]: what the request of manager m does next, and the row it is about
    pc,          \* pc[w]: where worker w is with its event
    job,         \* job[w]: the event worker w handles
    verdict,     \* verdict[w]: the policy that w read and the payload it read it for
    approvals,   \* history: rows some reviewer has approved
    lapsed       \* history: a cancellation was left to a run that did not end the task

task == <<origin, sure, status, ended, cancelled, lease>>
worker == <<pc, job, verdict>>
history == <<approvals, lapsed>>
vars == <<policy, changes, task, row, event, hand, worker, history>>

(* ITaskAction; of patch.after only explicitManagerRequest and confidence    *)
TaskAction == [state : RowStates, explicit : BOOLEAN, confidence : Confidence,
               arguments : Arguments]

(* What a worker acts on                                                     *)
Decisions == [payload : Payload, policy : Policies]

Steps == {"idle", "decide", "enqueue", "create", "publish"}

(* Types of all variables.                                                   *)
TypeOK ==
    /\ policy \in Policies
    /\ changes \in 0..MaxPolicyChanges
    /\ origin \in Origins \cup {"none"}
    /\ sure \in Confidence
    /\ status \in {"none", "pending", "partial", "waiting_for_input", "failed", "completed"}
    /\ ended \in BOOLEAN
    /\ cancelled \in {"no", "set", "published"}
    /\ lease \in Worker \cup {Nobody}
    /\ row \in [Row -> TaskAction]
    /\ event \in [Event -> {"absent", "queued", "done"}]
    /\ hand \in [Manager -> [does : Steps, about : Row \cup {Nobody}]]
    /\ pc \in [Worker -> {"idle", "reenter", "decide", "act", "mark", "run"}]
    /\ job \in [Worker -> Event \cup {Nobody}]
    /\ verdict \in [Worker -> Decisions \cup {Nobody}]
    /\ approvals \subseteq Askable
    /\ lapsed \in BOOLEAN

NewRow(s, x, a) == [state |-> s, explicit |-> x, confidence |-> 2, arguments |-> a]
NoRow == NewRow("absent", FALSE, "good")
Idle == [does |-> "idle", about |-> Nobody]

Init ==
    /\ policy \in FirstPolicies
    /\ changes = 0
    /\ origin = "none"
    /\ sure \in IngressConfidence
    /\ status = "none"
    /\ ended = FALSE
    /\ cancelled = "no"
    /\ lease = Nobody
    /\ row = [r \in Row |-> NoRow]
    /\ event = [e \in Event |-> "absent"]
    /\ hand = [m \in Manager |-> Idle]
    /\ pc = [w \in Worker |-> "idle"]
    /\ job = [w \in Worker |-> Nobody]
    /\ verdict = [w \in Worker |-> Nobody]
    /\ approvals = {}
    /\ lapsed = FALSE

-----------------------------------------------------------------------------
(* The outbox, as the producers see it                                       *)

(* A second event with the same dedupe key is a duplicate-key error.         *)
Enqueue(e) == event' = [event EXCEPT ![e] = IF @ = "absent" THEN "queued" ELSE @]

(* variant: the refusal of suggest_only forgets the exception of a manager   *)
EnqueueExecutionForAnyone(e, explicit) ==
    IF ModeDenied(policy) THEN UNCHANGED event ELSE Enqueue(e)

(* enqueueTaskExecutionRequested                                             *)
EnqueueExecution(e, explicit) ==
    IF ~explicit /\ ModeDenied(policy) THEN UNCHANGED event ELSE Enqueue(e)

-----------------------------------------------------------------------------
(* The organization and the task                                             *)

SetPolicy(p) ==
    /\ changes < MaxPolicyChanges
    /\ p # policy
    /\ policy' = p
    /\ changes' = changes + 1
    /\ UNCHANGED <<task, row, event, hand, worker, history>>

(* Only a message meets the refusal at the enqueue: the task panel writes    *)
(* the outbox itself, and an accepted suggestion does not execute.           *)
CreateTask(o) ==
    /\ status = "none"
    /\ origin' = o
    /\ status' = "pending"
    /\ CASE o = "message" -> EnqueueExecution(Ingress, FALSE)
         [] o = "manual" -> Enqueue(Ingress)
         [] o = "suggestion" -> UNCHANGED event
    /\ UNCHANGED <<policy, changes, sure, ended, cancelled, lease, row, hand, worker, history>>

(* proposeExecutionFromSuggestion; repeating it finds the row. The policy    *)
(* about the tool is the one of the moment the suggestion was made.          *)
Propose(a) ==
    /\ origin = "suggestion"
    /\ row[Proposal].state = "absent"
    /\ \E s \in {"approval_pending", "blocked"} :
          row' = [row EXCEPT ![Proposal] = NewRow(s, FALSE, a)]
    /\ UNCHANGED <<policy, changes, task, event, hand, worker, history>>

(* isTaskTerminal                                                            *)
Terminal == ended \/ status \in {"failed", "completed"}

(* POST /api/tasks/[id]/cancel, in two statements                            *)
Cancel ==
    /\ "cancel" \in Faults
    /\ status # "none" /\ ~Terminal
    /\ cancelled = "no"
    /\ cancelled' = "set"
    /\ UNCHANGED <<policy, changes, origin, sure, status, ended, lease, row, event, hand, worker, history>>

PublishCancel ==
    /\ cancelled = "set"
    /\ cancelled' = "published"
    /\ Enqueue(Cancellation)
    /\ UNCHANGED <<policy, changes, origin, sure, status, ended, lease, row, hand, worker, history>>

-----------------------------------------------------------------------------
(* requestTaskExecution, statement by statement                              *)

(* getInFlightExplicitRequestTaskAction                                      *)
InFlight ==
    \E r \in Row : row[r].explicit /\ row[r].state \in {"requested", "approval_pending"}

Turn(m, does, about) == hand' = [hand EXCEPT ![m] = [does |-> does, about |-> about]]

StartRequest(m) ==
    /\ hand[m] = Idle
    /\ status # "none"
    /\ ~InFlight
    /\ Turn(m, "create", Request(m))
    /\ UNCHANGED <<policy, changes, task, row, event, worker, history>>

(* createTaskAction; the row is there if the same manager asked twice        *)
CreateRequest(m) ==
    /\ hand[m].does = "create"
    /\ IF row[Request(m)].state = "absent"
       THEN /\ row' = [row EXCEPT ![Request(m)] = NewRow("requested", TRUE, "good")]
            /\ Turn(m, "publish", Request(m))
       ELSE /\ UNCHANGED row
            /\ hand' = [hand EXCEPT ![m] = Idle]
    /\ UNCHANGED <<policy, changes, task, event, worker, history>>

PublishRequest(m) ==
    /\ hand[m].does = "publish"
    /\ EnqueueExecution(Requested(m), TRUE)
    /\ hand' = [hand EXCEPT ![m] = Idle]
    /\ UNCHANGED <<policy, changes, task, row, worker, history>>

-----------------------------------------------------------------------------
(* POST /api/task-approvals, statement by statement                          *)

ReadPending(m, r) ==
    /\ hand[m] = Idle
    /\ row[r].state = "approval_pending"
    /\ Turn(m, "decide", r)
    /\ UNCHANGED <<policy, changes, task, row, event, worker, history>>

Reject(m) ==
    /\ hand[m].does = "decide"
    /\ row' = [row EXCEPT ![hand[m].about].state = "rejected"]
    /\ hand' = [hand EXCEPT ![m] = Idle]
    /\ UNCHANGED <<policy, changes, task, event, worker, history>>

(* variant: the outbox event is left to somebody else                        *)
ApproveSilently(m, a) ==
    /\ hand[m].does = "decide"
    /\ row' = [row EXCEPT ![hand[m].about].state = "approved"]
    /\ approvals' = approvals \cup {hand[m].about}
    /\ hand' = [hand EXCEPT ![m] = Idle]
    /\ UNCHANGED <<policy, changes, task, event, worker, lapsed>>

(* The reviewer may correct the parameters.                                  *)
Approve(m, a) ==
    /\ hand[m].does = "decide"
    /\ row' = [row EXCEPT ![hand[m].about] =
                  [@ EXCEPT !.state = "approved", !.arguments = a]]
    /\ approvals' = approvals \cup {hand[m].about}
    /\ Turn(m, "enqueue", hand[m].about)
    /\ UNCHANGED <<policy, changes, task, event, worker, lapsed>>

EnqueueApproved(m) ==
    /\ hand[m].does = "enqueue"
    /\ Enqueue(Approved(hand[m].about))
    /\ hand' = [hand EXCEPT ![m] = Idle]
    /\ UNCHANGED <<policy, changes, task, row, worker, history>>

RequestDies(m) ==
    /\ "crash" \in Faults
    /\ hand[m] # Idle
    /\ hand' = [hand EXCEPT ![m] = Idle]
    /\ UNCHANGED <<policy, changes, task, row, event, worker, history>>

-----------------------------------------------------------------------------
(* The worker: processTaskExecutionApproved and processTaskExecutionRequested *)

IsApproval(e) == \E r \in Askable : e = Approved(r)

PayloadOf(e) ==
    IF IsApproval(e) THEN
        LET r == e[2] IN
        [kind |-> KindOf(r), arguments |-> row[r].arguments,
         confidence |-> IF row[r].confidence = 0 THEN 1 ELSE row[r].confidence,
         needsApproval |-> FALSE,
         explicit |-> row[r].explicit, humanApproved |-> row[r].explicit]
    ELSE
        [kind |-> "none", arguments |-> "good",
         confidence |-> IF e = Ingress /\ origin = "message" THEN sure ELSE 2,
         needsApproval |-> e # Ingress, explicit |-> e # Ingress, humanApproved |-> FALSE]

Judgement(w) == Verdict(verdict[w].payload, verdict[w].policy)

Goto(w, where) == pc' = [pc EXCEPT ![w] = where]

Rest(w) ==
    /\ Goto(w, "idle")
    /\ job' = [job EXCEPT ![w] = Nobody]
    /\ verdict' = [verdict EXCEPT ![w] = Nobody]

(* The end of a handler, and what the outbox makes of it                     *)
Finish(w) ==
    /\ Rest(w)
    /\ \E s \in IF "redeliver" \in Faults THEN {"queued", "done"} ELSE {"done"} :
          event' = [event EXCEPT ![job[w]] = s]

Take(w, e) ==
    /\ pc[w] = "idle"
    /\ event[e] = "queued"
    /\ \A v \in Worker : job[v] # e
    /\ job' = [job EXCEPT ![w] = e]
    /\ Goto(w, IF IsApproval(e) THEN "reenter" ELSE "decide")
    /\ UNCHANGED <<policy, changes, task, row, event, hand, verdict, history>>

(* What else the handler reads of the row does not change any more.          *)
Reenter(w) ==
    /\ pc[w] = "reenter"
    /\ row' = [row EXCEPT ![job[w][2]].state = "approved"]
    /\ Goto(w, "decide")
    /\ UNCHANGED <<policy, changes, task, event, hand, job, verdict, history>>

(* variant: a task that waits for a reviewer is taken for ended              *)
FinalizeUnlessPartial(w) ==
    /\ pc[w] = "decide"
    /\ cancelled # "no"
    /\ IF Terminal \/ status = "partial" \/ lease # Nobody
       THEN UNCHANGED <<status, ended>>
       ELSE status' = "failed" /\ ended' = TRUE
    /\ Finish(w)
    /\ UNCHANGED <<policy, changes, origin, sure, cancelled, lease, row, hand, history>>

(* processTaskCancelRequested: nothing to do for a task that has ended, and  *)
(* left to the run for a task that is leased                                 *)
FinalizeCancellation(w) ==
    /\ pc[w] = "decide"
    /\ cancelled # "no"
    /\ IF Terminal \/ lease # Nobody
       THEN UNCHANGED <<status, ended>>
       ELSE status' = "failed" /\ ended' = TRUE
    /\ Finish(w)
    /\ UNCHANGED <<policy, changes, origin, sure, cancelled, lease, row, hand, history>>

Decide(w) ==
    /\ pc[w] = "decide"
    /\ cancelled = "no"
    /\ verdict' = [verdict EXCEPT ![w] =
                      [payload |-> PayloadOf(job[w]), policy |-> policy]]
    /\ Goto(w, "act")
    /\ UNCHANGED <<policy, changes, task, row, event, hand, job, history>>

Refuse(w) ==
    /\ pc[w] = "act"
    /\ Judgement(w) = "refuse"
    /\ status' = "failed"
    /\ Finish(w)
    /\ UNCHANGED <<policy, changes, origin, sure, ended, cancelled, lease, row, hand, history>>

(* variant: the row the worker writes has the state of the task              *)
AskWithStatus(w) ==
    /\ pc[w] = "act"
    /\ Judgement(w) = "ask"
    /\ LET r == Gate(verdict[w].payload.kind) IN
          row' = [row EXCEPT ![r] = IF @.state # "absent" THEN @
                     ELSE NewRow("partial", FALSE, "good")]
    /\ Goto(w, "mark")
    /\ UNCHANGED <<policy, changes, task, event, hand, job, verdict, history>>

(* The row keeps the confidence and the parameters of the payload, and not   *)
(* that a manager asked for it. If the row is there the error is swallowed.  *)
AskReviewer(w) ==
    /\ pc[w] = "act"
    /\ Judgement(w) = "ask"
    /\ LET p == verdict[w].payload
           r == Gate(p.kind)
       IN row' = [row EXCEPT ![r] = IF @.state # "absent" THEN @
                     ELSE [state |-> "approval_pending", explicit |-> FALSE,
                           confidence |-> p.confidence, arguments |-> p.arguments]]
    /\ Goto(w, "mark")
    /\ UNCHANGED <<policy, changes, task, event, hand, job, verdict, history>>

MarkPartial(w) ==
    /\ pc[w] = "mark"
    /\ status' = "partial"
    /\ Finish(w)
    /\ UNCHANGED <<policy, changes, origin, sure, ended, cancelled, lease, row, hand, history>>

Run(w) ==
    /\ pc[w] = "act"
    /\ Judgement(w) = "run"
    /\ lease = Nobody
    /\ lease' = w
    /\ Goto(w, "run")
    /\ UNCHANGED <<policy, changes, origin, sure, status, ended, cancelled, row, event, hand,
                   job, verdict, history>>

(* The event is deferred, and delivered again.                               *)
MeetBusyLease(w) ==
    /\ pc[w] = "act"
    /\ Judgement(w) = "run"
    /\ lease # Nobody
    /\ Rest(w)
    /\ UNCHANGED <<policy, changes, task, row, event, hand, history>>

(* What a run does is left open, but for the state of the task afterwards;   *)
(* updateTaskLifecycle, above, does not touch lifecycleState.                *)
RunEnds(w, s) ==
    /\ pc[w] = "run"
    /\ status' = s
    /\ ended' = TRUE
    /\ lease' = Nobody
    /\ Finish(w)
    /\ UNCHANGED <<policy, changes, origin, sure, cancelled, row, hand, history>>

(* A run may also leave the task to wait for an answer (paused), or for a    *)
(* retry (retry_scheduled). It has looked for a cancellation before, and     *)
(* does not look again: one that processTaskCancellation has left to it by   *)
(* now is carried out by nobody.                                             *)
RunPauses(w, s) ==
    /\ pc[w] = "run"
    /\ status' = s
    /\ ended' = FALSE
    /\ lease' = Nobody
    /\ lapsed' = (lapsed \/ event[Cancellation] = "done")
    /\ Finish(w)
    /\ UNCHANGED <<policy, changes, origin, sure, cancelled, row, hand, approvals>>

(* The handler throws, or its process dies. A dead worker's lease runs out   *)
(* before the event is delivered again.                                      *)
HandlerEnds(w) ==
    /\ {"throw", "crash"} \cap Faults # {}
    /\ pc[w] # "idle"
    /\ Rest(w)
    /\ lease' = IF lease = w THEN Nobody ELSE lease
    /\ UNCHANGED <<policy, changes, origin, sure, status, ended, cancelled, row, event, hand, history>>

-----------------------------------------------------------------------------

Environment ==
    \/ \E p \in Policies : SetPolicy(p)
    \/ \E o \in Origins : CreateTask(o)
    \/ \E a \in Arg : Propose(a)
    \/ Cancel \/ PublishCancel

RequestStep(m) == CreateRequest(m) \/ PublishRequest(m) \/ EnqueueApproved(m)

ManagerStep(m) ==
    \/ StartRequest(m)
    \/ \E r \in Askable : ReadPending(m, r)
    \/ Reject(m)
    \/ \E a \in Arg : Approve(m, a)
    \/ RequestStep(m)
    \/ RequestDies(m)

WorkerStep(w) ==
    \/ \E e \in Event : Take(w, e)
    \/ Reenter(w) \/ FinalizeCancellation(w) \/ Decide(w)
    \/ Refuse(w) \/ AskReviewer(w) \/ MarkPartial(w)
    \/ Run(w) \/ MeetBusyLease(w)
    \/ \E s \in {"completed", "failed"} : RunEnds(w, s)
    \/ \E s \in {"waiting_for_input", "partial"} : RunPauses(w, s)

Next ==
    \/ Environment
    \/ \E m \in Manager : ManagerStep(m)
    \/ \E w \in Worker : WorkerStep(w) \/ HandlerEnds(w)

(* A web request that has started runs on, and so does a worker; nobody is   *)
(* bound to ask for an execution or to decide about one.                     *)
Fairness ==
    /\ WF_vars(PublishCancel)
    /\ \A m \in Manager : WF_vars(RequestStep(m))
    /\ \A w \in Worker : WF_vars(WorkerStep(w))

Spec == Init /\ [][Next]_vars

FairSpec == Spec /\ Fairness

-----------------------------------------------------------------------------
(* Properties                                                                *)

HumanApproved(w) == IsApproval(job[w]) /\ job[w][2] \in approvals

(* What the policy a worker read allows is all that runs: not in a suspended *)
(* organization, no denied tool, no high-risk tool without a grant; where a  *)
(* reviewer has to be asked, because the mode, the organization or the       *)
(* manager who asked for the run says so, a reviewer has approved; and under *)
(* suggest_only nothing but an approved request of a manager.                *)
(* (processTaskExecutionRequested, index.ts 548-1060; ADR-005, 3)            *)
RunsAreAuthorised ==
    \A w \in Worker : pc[w] = "run" =>
        LET d == verdict[w] IN
        /\ d.policy.active
        /\ d.payload.kind \notin d.policy.deny
        /\ d.payload.kind = "tool" => d.policy.granted /\ HumanApproved(w)
        /\ \/ d.policy.mode = "require_approval"
           \/ d.payload.kind \in d.policy.ask
           \/ job[w] # Ingress
           => HumanApproved(w)
        /\ d.policy.mode = "suggest_only" => d.payload.explicit /\ HumanApproved(w)

(* A request that a manager has made, and the web application has recorded,  *)
(* is handled by a worker, whatever the mode; so it does not stay "requested" *)
(* unseen. (requestTaskExecution, the exception in                           *)
(* enqueueTaskExecutionRequested)                                            *)
RequestIsHandled ==
    \A m \in Manager :
        row[Request(m)].state = "requested" ~> event[Requested(m)] = "done"

(* What a reviewer approves reaches a worker, even if another reviewer       *)
(* decides about the same row at the same time. (POST /api/task-approvals)   *)
ApprovalIsHandled ==
    \A r \in Askable : r \in approvals ~> event[Approved(r)] = "done"

(* A cancellation is carried out, whoever holds the lease and wherever the   *)
(* task's events are: the task comes to an end, unless the cancellation was  *)
(* left to a run that then waits for an answer or for a retry. That the task *)
(* stays at its end is more than the code sees to. (processTaskCancellation, *)
(* the cancel branch of processTaskExecutionRequested)                       *)
CancellationIsHonoured ==
    cancelled = "set" ~> Terminal \/ lapsed

(* The worker does not ask for an approval it was just given.                *)
(* (processTaskExecutionApproved, the comment on needsApproval)              *)
ApprovalSatisfiesGate ==
    \A w \in Worker :
        pc[w] = "act" /\ IsApproval(job[w]) => Judgement(w) # "ask"

=============================================================================
