-------------------------- MODULE Approval_proofs --------------------------
(***************************************************************************)
(* Proofs about Approval, for every set of managers and workers, every set *)
(* of policies and every combination of faults.                            *)
(***************************************************************************)
EXTENDS Approval, TLAPS

USE ApprovalAssumption

-----------------------------------------------------------------------------
(* The invariant                                                             *)

(* A manager has decided about a row a worker or an acceptance has written,  *)
(* and enqueues only what was approved.                                      *)
HandsOK ==
    \A m \in Manager :
        /\ hand[m].does \in {"decide", "enqueue"} => hand[m].about \in Askable
        /\ hand[m].does = "enqueue" => hand[m].about \in approvals

(* An approval event stands for an approval, a cancellation event for a      *)
(* cancellation, on the way and in the hands of a worker.                    *)
EventsOK ==
    /\ \A r \in Askable : event[Approved(r)] # "absent" => r \in approvals
    /\ event[Cancellation] # "absent" => cancelled = "published"

(* No row that a reviewer can approve carries the flag of a manager.         *)
FlagsOK == \A r \in Askable : row[r].explicit = FALSE

(* The payload of an event that comes from a reviewer                        *)
FromReviewer(e, p) ==
    /\ IsApproval(e) /\ e[2] \in approvals
    /\ p.explicit = FALSE /\ p.humanApproved = FALSE

(* The payload of an event that needs one                                    *)
FromManager(p) == p.kind = "none" /\ p.needsApproval = TRUE /\ p.humanApproved = FALSE

FromIngress(p) == p.kind = "none" /\ p.explicit = FALSE /\ p.humanApproved = FALSE

PayloadOK(e, p) == FromReviewer(e, p) \/ FromManager(p) \/ (e = Ingress /\ FromIngress(p))

JobOK(w) ==
    /\ pc[w] # "idle" =>
          /\ job[w] \in Event
          /\ IsApproval(job[w]) => job[w][2] \in approvals
          /\ job[w] = Cancellation => cancelled = "published"
    /\ pc[w] = "reenter" => IsApproval(job[w])
    /\ pc[w] \in {"act", "mark", "run"} =>
          /\ verdict[w] \in Decisions
          /\ PayloadOK(job[w], verdict[w].payload)
    /\ pc[w] = "run" => Judgement(w) = "run"

JobsOK == \A w \in Worker : JobOK(w)

IndInv == TypeOK /\ HandsOK /\ EventsOK /\ FlagsOK /\ JobsOK

-----------------------------------------------------------------------------
(* The decision                                                              *)

(* An event without the approval of a manager's request runs only where the  *)
(* policy has nothing against it.                                            *)
LEMMA RunVerdict ==
    ASSUME NEW p \in Payload, NEW pol \in Policy,
           p.humanApproved = FALSE, Verdict(p, pol) = "run"
    PROVE  /\ pol.active /\ pol.mode = "auto_execute"
           /\ p.kind \notin pol.deny /\ p.kind \notin pol.ask
           /\ p.kind = "tool" => pol.granted
           /\ p.needsApproval # TRUE
<1>1. ~BypassesModeDenial(p, pol)
  BY DEF BypassesModeDenial
<1>2. ~ForcesApproval(p, pol)
  BY DEF Verdict
<1>3. /\ pol.active
      /\ p.kind = "tool" => pol.granted
      /\ Outcome(p, pol) # "blocked" /\ Outcome(p, pol) # "approval_required"
  BY <1>1, <1>2 DEF Verdict
<1>4. /\ ~ModeDenied(pol) /\ ~HardBlocked(p, pol)
      /\ Reasons(p, pol) = {} /\ pol.mode # "require_approval"
  BY <1>3 DEF Outcome
<1>5. pol.mode \in Modes
  BY DEF Policy
<1>6. p.needsApproval # TRUE /\ p.kind \notin pol.ask
  <2>1. "upstream" \notin Reasons(p, pol) /\ "asked" \notin Reasons(p, pol)
    BY <1>4
  <2>2. QED
    BY <2>1 DEF Reasons
<1>7. QED
  BY <1>3, <1>4, <1>5, <1>6 DEF ModeDenied, HardBlocked, Modes

-----------------------------------------------------------------------------
(* Names of rows and events                                                  *)

LEMMA Names ==
    /\ Askable \subseteq Row /\ \A m \in Manager : Request(m) \in Row /\ Request(m) \notin Askable
    /\ \A k \in Kinds : Gate(k) \in Askable
    /\ Proposal \in Askable
BY DEF Askable, Row, Requests, Request, Gate, Proposal

LEMMA ApprovalEvents ==
    /\ \A r \in Askable : Approved(r) \in Event /\ IsApproval(Approved(r)) /\ Approved(r)[2] = r
    /\ \A e \in Event : IsApproval(e) => e[2] \in Askable /\ e = Approved(e[2])
    /\ ~IsApproval(Ingress) /\ ~IsApproval(Cancellation)
    /\ Ingress \in Event /\ Cancellation \in Event /\ Ingress # Cancellation
    /\ \A m \in Manager : /\ Requested(m) \in Event /\ ~IsApproval(Requested(m))
                          /\ Requested(m) # Ingress /\ Requested(m) # Cancellation
BY DEF Event, IsApproval, Approved, Ingress, Cancellation, Requested

LEMMA KindOfRow == \A r \in Row : KindOf(r) \in Kinds
BY DEF KindOf, Kinds

LEMMA NewRows ==
    /\ \A s \in RowStates, x \in BOOLEAN, c \in Confidence, a \in Arguments :
          [state |-> s, explicit |-> x, confidence |-> c, arguments |-> a] \in TaskAction
    /\ \A s \in RowStates, x \in BOOLEAN, a \in Arguments :
          NewRow(s, x, a) \in TaskAction /\ NewRow(s, x, a).explicit = x
BY DEF NewRow, TaskAction, Confidence

(* Updates of one row keep its flag.                                         *)
LEMMA ReplaceRow ==
    ASSUME row \in [Row -> TaskAction], NEW x \in Row, NEW t \in TaskAction,
           t.explicit = row[x].explicit, row' = [row EXCEPT ![x] = t]
    PROVE  /\ row' \in [Row -> TaskAction]
           /\ \A r \in Row : row'[r].explicit = row[r].explicit
OBVIOUS

LEMMA SetState ==
    ASSUME row \in [Row -> TaskAction], NEW x \in Row, NEW s \in RowStates,
           row' = [row EXCEPT ![x].state = s]
    PROVE  /\ row' \in [Row -> TaskAction]
           /\ \A r \in Row : row'[r].explicit = row[r].explicit
<1>1. ASSUME NEW t \in TaskAction
      PROVE  [t EXCEPT !.state = s] \in TaskAction /\ [t EXCEPT !.state = s].explicit = t.explicit
  BY DEF TaskAction
<1>2. PICK u : u = [row[x] EXCEPT !.state = s]
  OBVIOUS
<1>3. u \in TaskAction /\ u.explicit = row[x].explicit
  BY <1>1, <1>2
<1>4. row' = [row EXCEPT ![x] = u]
  BY <1>2
<1>5. QED
  BY <1>3, <1>4, ReplaceRow

LEMMA SetStateAndArguments ==
    ASSUME row \in [Row -> TaskAction], NEW x \in Row, NEW s \in RowStates, NEW a \in Arguments,
           row' = [row EXCEPT ![x] = [@ EXCEPT !.state = s, !.arguments = a]]
    PROVE  /\ row' \in [Row -> TaskAction]
           /\ \A r \in Row : row'[r].explicit = row[r].explicit
<1>1. ASSUME NEW t \in TaskAction
      PROVE  /\ [t EXCEPT !.state = s, !.arguments = a] \in TaskAction
             /\ [t EXCEPT !.state = s, !.arguments = a].explicit = t.explicit
  BY DEF TaskAction
<1>2. PICK u : u = [row[x] EXCEPT !.state = s, !.arguments = a]
  OBVIOUS
<1>3. u \in TaskAction /\ u.explicit = row[x].explicit
  BY <1>1, <1>2
<1>4. row' = [row EXCEPT ![x] = u]
  BY <1>2
<1>5. QED
  BY <1>3, <1>4, ReplaceRow

LEMMA PayloadType ==
    ASSUME TypeOK, FlagsOK, NEW e \in Event, e # Cancellation,
           IsApproval(e) => e[2] \in approvals
    PROVE  /\ PayloadOf(e) \in Payload
           /\ \/ FromReviewer(e, PayloadOf(e))
              \/ FromManager(PayloadOf(e))
              \/ e = Ingress /\ FromIngress(PayloadOf(e))
<1>1. CASE IsApproval(e)
  <2> DEFINE r == e[2]
  <2>1. r \in Askable
    BY <1>1, ApprovalEvents
  <2>2. /\ row[r] \in TaskAction /\ row[r].explicit = FALSE
    BY <2>1, Names DEF TypeOK, FlagsOK
  <2>3. /\ row[r].arguments \in Arguments
        /\ (IF row[r].confidence = 0 THEN 1 ELSE row[r].confidence) \in Confidence
        /\ KindOf(r) \in Kinds
    BY <2>1, <2>2, Names, KindOfRow DEF TaskAction, Confidence
  <2>4. PayloadOf(e) = [kind |-> KindOf(r), arguments |-> row[r].arguments,
             confidence |-> IF row[r].confidence = 0 THEN 1 ELSE row[r].confidence,
             needsApproval |-> FALSE, explicit |-> FALSE, humanApproved |-> FALSE]
    BY <1>1, <2>2 DEF PayloadOf
  <2>5. PayloadOf(e) \in Payload /\ FromReviewer(e, PayloadOf(e))
    <3> HIDE DEF r
    <3>1. PayloadOf(e) \in Payload
      BY <2>3, <2>4 DEF Payload
    <3>2. PayloadOf(e).explicit = FALSE /\ PayloadOf(e).humanApproved = FALSE
      BY <2>4
    <3>3. QED
      BY <1>1, <3>1, <3>2 DEF FromReviewer
  <2>6. QED
    BY <2>5
<1>2. CASE ~IsApproval(e) /\ e = Ingress
  <2>1. PICK c \in Confidence : PayloadOf(e) =
           [kind |-> "none", arguments |-> "good", confidence |-> c,
            needsApproval |-> FALSE, explicit |-> FALSE, humanApproved |-> FALSE]
    <3>1. (IF e = Ingress /\ origin = "message" THEN sure ELSE 2) \in Confidence
      BY DEF TypeOK, Confidence
    <3>2. QED
      BY <1>2, <3>1 DEF PayloadOf
  <2>2. QED
    BY <1>2, <2>1 DEF Payload, FromIngress, Kinds, Arguments
<1>3. CASE ~IsApproval(e) /\ e # Ingress
  <2>1. PayloadOf(e) =
           [kind |-> "none", arguments |-> "good", confidence |-> 2,
            needsApproval |-> TRUE, explicit |-> TRUE, humanApproved |-> FALSE]
    BY <1>3 DEF PayloadOf
  <2>2. QED
    BY <2>1 DEF Payload, FromManager, Kinds, Arguments, Confidence
<1>4. QED
  BY <1>1, <1>2, <1>3

-----------------------------------------------------------------------------
(* Initially                                                                 *)

LEMMA InitInv == Init => IndInv
<1> SUFFICES ASSUME Init PROVE IndInv
  OBVIOUS
<1>1. NoRow \in TaskAction /\ NoRow.explicit = FALSE
  BY NewRows DEF NoRow, RowStates, Arguments
<1>2. TypeOK
  <2>1. /\ policy \in Policies /\ changes \in 0..MaxPolicyChanges
        /\ origin \in Origins \cup {"none"} /\ sure \in Confidence
        /\ status \in {"none", "pending", "partial", "waiting_for_input", "failed", "completed"}
        /\ cancelled \in {"no", "set", "published"}
        /\ lease \in Worker \cup {Nobody} /\ approvals \subseteq Askable
    BY DEF Init
  <2>5. ended \in BOOLEAN /\ lapsed \in BOOLEAN
    BY Zenon DEF Init
  <2>2. /\ row \in [Row -> TaskAction]
        /\ event \in [Event -> {"absent", "queued", "done"}]
        /\ hand \in [Manager -> [does : Steps, about : Row \cup {Nobody}]]
    BY <1>1 DEF Init, Idle, Steps
  <2>3. /\ pc \in [Worker -> {"idle", "reenter", "decide", "act", "mark", "run"}]
        /\ job \in [Worker -> Event \cup {Nobody}]
        /\ verdict \in [Worker -> Decisions \cup {Nobody}]
    BY DEF Init
  <2>4. QED
    BY <2>1, <2>2, <2>3, <2>5, Zenon DEF TypeOK
<1>3. HandsOK
  BY DEF Init, HandsOK, Idle
<1>4. EventsOK
  BY ApprovalEvents DEF Init, EventsOK
<1>5. FlagsOK
  BY <1>1, Names DEF Init, FlagsOK
<1>6. JobsOK
  BY DEF Init, JobsOK, JobOK
<1>7. QED
  BY <1>2, <1>3, <1>4, <1>5, <1>6 DEF IndInv

-----------------------------------------------------------------------------
(* Pieces of actions                                                         *)

LEMMA TurnType ==
    ASSUME TypeOK, NEW m \in Manager, NEW d \in Steps, NEW r \in Row \cup {Nobody},
           Turn(m, d, r) \/ (d = "idle" /\ hand' = [hand EXCEPT ![m] = Idle])
    PROVE  hand' \in [Manager -> [does : Steps, about : Row \cup {Nobody}]]
BY DEF TypeOK, Turn, Idle, Steps

LEMMA EnqueueType ==
    ASSUME TypeOK, NEW e \in Event, Enqueue(e)
    PROVE  /\ event' \in [Event -> {"absent", "queued", "done"}]
           /\ \A x \in Event : x # e => event'[x] = event[x]
BY DEF TypeOK, Enqueue

LEMMA EnqueueExecutionType ==
    ASSUME TypeOK, NEW e \in Event, NEW x \in BOOLEAN, EnqueueExecution(e, x)
    PROVE  /\ event' \in [Event -> {"absent", "queued", "done"}]
           /\ \A y \in Event : y # e => event'[y] = event[y]
<1>1. CASE Enqueue(e)
  BY <1>1, EnqueueType
<1>2. CASE UNCHANGED event
  BY <1>2 DEF TypeOK
<1>3. QED
  BY <1>1, <1>2 DEF EnqueueExecution

LEMMA GotoType ==
    ASSUME TypeOK, NEW w \in Worker, NEW x \in {"idle", "reenter", "decide", "act", "mark", "run"},
           Goto(w, x)
    PROVE  /\ pc' \in [Worker -> {"idle", "reenter", "decide", "act", "mark", "run"}]
           /\ pc'[w] = x
           /\ \A v \in Worker : v # w => pc'[v] = pc[v]
BY DEF TypeOK, Goto

LEMMA RestType ==
    ASSUME TypeOK, NEW w \in Worker, Rest(w)
    PROVE  /\ pc' \in [Worker -> {"idle", "reenter", "decide", "act", "mark", "run"}]
           /\ job' \in [Worker -> Event \cup {Nobody}]
           /\ verdict' \in [Worker -> Decisions \cup {Nobody}]
           /\ pc'[w] = "idle"
           /\ \A v \in Worker : v # w =>
                 pc'[v] = pc[v] /\ job'[v] = job[v] /\ verdict'[v] = verdict[v]
<1>1. Goto(w, "idle")
  BY DEF Rest
<1>2. QED
  BY <1>1, GotoType DEF Rest, TypeOK

LEMMA FinishType ==
    ASSUME TypeOK, NEW w \in Worker, job[w] \in Event, Finish(w)
    PROVE  /\ Rest(w)
           /\ event' \in [Event -> {"absent", "queued", "done"}]
           /\ \A e \in Event : e # job[w] => event'[e] = event[e]
<1>1. PICK s \in {"queued", "done"} : event' = [event EXCEPT ![job[w]] = s]
  BY DEF Finish
<1>2. QED
  BY <1>1 DEF Finish, TypeOK

(* A worker that acts has read the policy and the payload.                   *)
LEMMA ActingType ==
    ASSUME IndInv, NEW w \in Worker, pc[w] \in {"act", "mark", "run"}
    PROVE  /\ job[w] \in Event /\ verdict[w] \in Decisions
           /\ verdict[w].payload \in Payload /\ verdict[w].policy \in Policy
BY DEF IndInv, JobsOK, JobOK, Decisions

-----------------------------------------------------------------------------
(* Types                                                                     *)

(* One step is one action.                                                   *)
LEMMA NextCases ==
    ASSUME [Next]_vars
    PROVE  \/ UNCHANGED vars
           \/ \E p \in Policies : SetPolicy(p)
           \/ \E o \in Origins : CreateTask(o)
           \/ \E a \in Arg : Propose(a)
           \/ Cancel
           \/ PublishCancel
           \/ \E m \in Manager :
                 \/ StartRequest(m) \/ CreateRequest(m) \/ PublishRequest(m)
                 \/ \E r \in Askable : ReadPending(m, r)
                 \/ Reject(m) \/ EnqueueApproved(m) \/ RequestDies(m)
                 \/ \E a \in Arg : Approve(m, a)
           \/ \E w \in Worker :
                 \/ \E e \in Event : Take(w, e)
                 \/ Reenter(w) \/ FinalizeCancellation(w) \/ Decide(w)
                 \/ Refuse(w) \/ AskReviewer(w) \/ MarkPartial(w)
                 \/ Run(w) \/ MeetBusyLease(w) \/ HandlerEnds(w)
                 \/ \E s \in {"completed", "failed"} : RunEnds(w, s)
                 \/ \E s \in {"waiting_for_input", "partial"} : RunPauses(w, s)
BY DEF Next, Environment, ManagerStep, RequestStep, WorkerStep

LEMMA FlagTypes ==
    ASSUME TypeOK, [Next]_vars
    PROVE  ended' \in BOOLEAN /\ lapsed' \in BOOLEAN
<1>1. ended \in BOOLEAN /\ lapsed \in BOOLEAN
  BY DEF TypeOK
<1>2. ended' = ended \/ ended' = TRUE \/ ended' = FALSE
  BY NextCases DEF vars, task, history, worker, SetPolicy, CreateTask, Propose, Cancel, PublishCancel,
     StartRequest, CreateRequest, PublishRequest, ReadPending, Reject, EnqueueApproved, RequestDies,
     Approve, Take, Reenter, FinalizeCancellation, Decide, Refuse, AskReviewer, MarkPartial,
     Run, MeetBusyLease, HandlerEnds, RunEnds, RunPauses
<1>3. lapsed' = lapsed \/ lapsed' = (lapsed \/ event[Cancellation] = "done")
  BY NextCases DEF vars, task, history, worker, SetPolicy, CreateTask, Propose, Cancel, PublishCancel,
     StartRequest, CreateRequest, PublishRequest, ReadPending, Reject, EnqueueApproved, RequestDies,
     Approve, Take, Reenter, FinalizeCancellation, Decide, Refuse, AskReviewer, MarkPartial,
     Run, MeetBusyLease, HandlerEnds, RunEnds, RunPauses
<1>4. QED
  BY <1>1, <1>2, <1>3, Zenon

LEMMA ScalarStep ==
    ASSUME TypeOK, [Next]_vars
    PROVE  /\ policy' \in Policies
           /\ changes' \in 0..MaxPolicyChanges
           /\ origin' \in Origins \cup {"none"}
           /\ sure' \in Confidence
           /\ status' \in {"none", "pending", "partial", "waiting_for_input", "failed", "completed"}
           /\ cancelled' \in {"no", "set", "published"}
           /\ lease' \in Worker \cup {Nobody}
           /\ cancelled = "published" => cancelled' = "published"
<1>1. /\ policy' \in Policies /\ changes' \in 0..MaxPolicyChanges
  <2>1. CASE \E p \in Policies : SetPolicy(p)
    BY <2>1 DEF SetPolicy, TypeOK
  <2>2. CASE policy' = policy /\ changes' = changes
    BY <2>2 DEF TypeOK
  <2>3. QED
    BY <2>1, <2>2, NextCases DEF vars, task, history, worker, CreateTask, Propose, Cancel, PublishCancel, StartRequest,
     CreateRequest, PublishRequest, ReadPending, Reject, EnqueueApproved,
     RequestDies, Approve, Take, Reenter, FinalizeCancellation, Decide, Refuse,
     AskReviewer, MarkPartial, Run, MeetBusyLease, HandlerEnds, RunEnds, RunPauses
<1>2. origin' \in Origins \cup {"none"} /\ sure' \in Confidence
  <2>1. CASE \E o \in Origins : CreateTask(o)
    BY <2>1 DEF CreateTask, TypeOK
  <2>2. CASE origin' = origin /\ sure' = sure
    BY <2>2 DEF TypeOK
  <2>3. QED
    BY <2>1, <2>2, NextCases DEF vars, task, history, worker, SetPolicy, Propose, Cancel, PublishCancel, StartRequest,
     CreateRequest, PublishRequest, ReadPending, Reject, EnqueueApproved,
     RequestDies, Approve, Take, Reenter, FinalizeCancellation, Decide, Refuse,
     AskReviewer, MarkPartial, Run, MeetBusyLease, HandlerEnds, RunEnds, RunPauses
<1>3. status' \in {"none", "pending", "partial", "waiting_for_input", "failed", "completed"}
  <2>1. status' = status \/ status' \in {"pending", "partial", "waiting_for_input", "failed", "completed"}
    BY NextCases DEF vars, task, history, worker, SetPolicy, CreateTask, Propose, Cancel, PublishCancel,
     StartRequest, CreateRequest, PublishRequest, ReadPending, Reject,
     EnqueueApproved, RequestDies, Approve, Take, Reenter, FinalizeCancellation,
     Decide, Refuse, AskReviewer, MarkPartial, Run, MeetBusyLease, HandlerEnds,
     RunEnds, RunPauses
  <2>2. QED
    BY <2>1 DEF TypeOK
<1>4. /\ cancelled' \in {"no", "set", "published"}
      /\ cancelled = "published" => cancelled' = "published"
  <2>1. CASE Cancel \/ PublishCancel
    BY <2>1 DEF Cancel, PublishCancel
  <2>2. CASE cancelled' = cancelled
    BY <2>2 DEF TypeOK
  <2>3. QED
    BY <2>1, <2>2, NextCases DEF vars, task, history, worker, SetPolicy, CreateTask, Propose, StartRequest, CreateRequest,
     PublishRequest, ReadPending, Reject, EnqueueApproved, RequestDies, Approve,
     Take, Reenter, FinalizeCancellation, Decide, Refuse, AskReviewer, MarkPartial,
     Run, MeetBusyLease, HandlerEnds, RunEnds, RunPauses
<1>5. lease' \in Worker \cup {Nobody}
  <2>1. lease' \in Worker \cup {lease, Nobody}
    BY NextCases DEF vars, task, history, worker, SetPolicy, CreateTask, Propose, Cancel, PublishCancel,
     StartRequest, CreateRequest, PublishRequest, ReadPending, Reject,
     EnqueueApproved, RequestDies, Approve, Take, Reenter, FinalizeCancellation,
     Decide, Refuse, AskReviewer, MarkPartial, Run, MeetBusyLease, HandlerEnds,
     RunEnds, RunPauses
  <2>2. QED
    BY <2>1 DEF TypeOK
<1>6. QED
  BY <1>1, <1>2, <1>3, <1>4, <1>5

(* Rows are written with the states of a row, and no flag is set on one that *)
(* a reviewer may see.                                                       *)
LEMMA RowStep ==
    ASSUME IndInv, [Next]_vars
    PROVE  row' \in [Row -> TaskAction] /\ FlagsOK'
<1>1. row \in [Row -> TaskAction] /\ \A r \in Askable : row[r].explicit = FALSE
  BY DEF IndInv, TypeOK, FlagsOK
<1>2. CASE \E a \in Arg : Propose(a)
  <2>1. PICK a \in Arg, s \in {"approval_pending", "blocked"} :
          row' = [row EXCEPT ![Proposal] = NewRow(s, FALSE, a)]
    BY <1>2 DEF Propose
  <2>2. NewRow(s, FALSE, a) \in TaskAction /\ NewRow(s, FALSE, a).explicit = FALSE
    BY NewRows DEF RowStates
  <2>3. QED
    BY <1>1, <2>1, <2>2, Names DEF FlagsOK
<1>3. CASE \E m \in Manager : CreateRequest(m)
  <2>1. PICK m \in Manager : CreateRequest(m)
    BY <1>3
  <2>2. CASE row' = row
    BY <1>1, <2>2 DEF FlagsOK
  <2>3. CASE row' = [row EXCEPT ![Request(m)] = NewRow("requested", TRUE, "good")]
    <3>1. NewRow("requested", TRUE, "good") \in TaskAction
      BY NewRows DEF RowStates, Arguments
    <3>2. QED
      BY <1>1, <2>3, <3>1, Names DEF FlagsOK
  <2>4. QED
    BY <2>1, <2>2, <2>3 DEF CreateRequest
<1>4. CASE \E m \in Manager : Reject(m)
  <2>1. PICK m \in Manager : Reject(m)
    BY <1>4
  <2>2. hand[m].about \in Askable
    BY <2>1 DEF IndInv, HandsOK, Reject
  <2>3. row' = [row EXCEPT ![hand[m].about].state = "rejected"]
    BY <2>1 DEF Reject
  <2>4. "rejected" \in RowStates /\ "good" \in Arguments
    BY DEF RowStates, Arguments
  <2>5. /\ row' \in [Row -> TaskAction]
        /\ \A r \in Row : row'[r].explicit = row[r].explicit
    <3>1. hand[m].about \in Row
      BY <2>2, Names
    <3>2. QED
      BY <1>1, <2>3, <2>4, <3>1, SetState
  <2>6. QED
    BY <1>1, <2>5, Names DEF FlagsOK
<1>5. CASE \E m \in Manager : \E a \in Arg : Approve(m, a)
  <2>1. PICK m \in Manager, a \in Arg : Approve(m, a)
    BY <1>5
  <2>2. hand[m].about \in Askable
    BY <2>1 DEF IndInv, HandsOK, Approve
  <2>3. row' = [row EXCEPT ![hand[m].about] = [@ EXCEPT !.state = "approved", !.arguments = a]]
    BY <2>1 DEF Approve
  <2>4. "approved" \in RowStates /\ a \in Arguments
    BY DEF RowStates
  <2>5. /\ row' \in [Row -> TaskAction]
        /\ \A r \in Row : row'[r].explicit = row[r].explicit
    <3>1. hand[m].about \in Row
      BY <2>2, Names
    <3>2. QED
      BY <1>1, <2>3, <2>4, <3>1, SetStateAndArguments
  <2>6. QED
    BY <1>1, <2>5, Names DEF FlagsOK
<1>6. CASE \E w \in Worker : Reenter(w)
  <2>1. PICK w \in Worker : Reenter(w)
    BY <1>6
  <2>2. job[w][2] \in Askable
    BY <2>1, ApprovalEvents DEF IndInv, JobsOK, JobOK, Reenter
  <2>3. row' = [row EXCEPT ![job[w][2]].state = "approved"]
    BY <2>1 DEF Reenter
  <2>4. "approved" \in RowStates /\ "good" \in Arguments
    BY DEF RowStates, Arguments
  <2>5. /\ row' \in [Row -> TaskAction]
        /\ \A r \in Row : row'[r].explicit = row[r].explicit
    <3>1. job[w][2] \in Row
      BY <2>2, Names
    <3>2. QED
      BY <1>1, <2>3, <2>4, <3>1, SetState
  <2>6. QED
    BY <1>1, <2>5, Names DEF FlagsOK
<1>7. CASE \E w \in Worker : AskReviewer(w)
  <2>1. PICK w \in Worker : AskReviewer(w)
    BY <1>7
  <2> DEFINE p == verdict[w].payload
             new == [state |-> "approval_pending", explicit |-> FALSE,
                     confidence |-> p.confidence, arguments |-> p.arguments]
             t == IF row[Gate(p.kind)].state # "absent" THEN row[Gate(p.kind)] ELSE new
  <2>2. p \in Payload
    BY <2>1, ActingType DEF AskReviewer
  <2>3. p.confidence \in Confidence /\ p.arguments \in Arguments /\ Gate(p.kind) \in Askable
    BY <2>2, Names DEF Payload
  <2>4. new \in TaskAction /\ new.explicit = FALSE
    BY <2>3, NewRows DEF RowStates
  <2>5. t \in TaskAction /\ t.explicit = FALSE
    BY <1>1, <2>3, <2>4, Names
  <2>6. row' = [row EXCEPT ![Gate(p.kind)] = t]
    BY <2>1 DEF AskReviewer
  <2>7. QED
    <3> HIDE DEF t, p
    <3>1. QED
      BY <1>1, <2>3, <2>5, <2>6, Names DEF FlagsOK
<1>8. CASE row' = row
  BY <1>1, <1>8 DEF FlagsOK
<1>9. QED
  BY <1>2, <1>3, <1>4, <1>5, <1>6, <1>7, <1>8, NextCases DEF vars, task, history, worker, SetPolicy, CreateTask, Cancel, PublishCancel, StartRequest,
     PublishRequest, ReadPending, EnqueueApproved, RequestDies, Take,
     FinalizeCancellation, Decide, Refuse, MarkPartial, Run, MeetBusyLease,
     HandlerEnds, RunEnds, RunPauses

(* An event of an approval is only written for what was approved, and that   *)
(* of a cancellation after the cancellation.                                 *)
LEMMA EventStep ==
    ASSUME IndInv, [Next]_vars
    PROVE  event' \in [Event -> {"absent", "queued", "done"}] /\ EventsOK'
<1>1. TypeOK /\ EventsOK
  BY DEF IndInv
<1>2. approvals \subseteq approvals' /\ (cancelled = "published" => cancelled' = "published")
  <2>1. approvals \subseteq approvals'
    BY NextCases DEF vars, task, history, worker, SetPolicy, CreateTask, Propose, Cancel, PublishCancel,
     StartRequest, CreateRequest, PublishRequest, ReadPending, Reject,
     EnqueueApproved, RequestDies, Approve, Take, Reenter, FinalizeCancellation,
     Decide, Refuse, AskReviewer, MarkPartial, Run, MeetBusyLease, HandlerEnds,
     RunEnds, RunPauses
  <2>2. QED
    BY <1>1, <2>1, ScalarStep
<1>3. ASSUME NEW x \in Event,
             IsApproval(x) => x[2] \in approvals,
             x = Cancellation => cancelled' = "published",
             event' \in [Event -> {"absent", "queued", "done"}],
             \A y \in Event : y # x => event'[y] = event[y]
      PROVE  EventsOK'
  <2>1. ASSUME NEW r \in Askable, event'[Approved(r)] # "absent"
        PROVE  r \in approvals'
    BY <1>1, <1>2, <1>3, <2>1, ApprovalEvents DEF EventsOK
  <2>2. event'[Cancellation] # "absent" => cancelled' = "published"
    BY <1>1, <1>2, <1>3, ApprovalEvents DEF EventsOK
  <2>3. QED
    BY <2>1, <2>2 DEF EventsOK
<1>4. CASE \E o \in Origins : CreateTask(o)
  <2>1. \/ UNCHANGED event
        \/ Enqueue(Ingress)
        \/ EnqueueExecution(Ingress, FALSE)
    BY <1>4 DEF CreateTask
  <2>2. /\ event' \in [Event -> {"absent", "queued", "done"}]
        /\ \A y \in Event : y # Ingress => event'[y] = event[y]
    <3>1. Ingress \in Event
      BY ApprovalEvents
    <3>2. CASE UNCHANGED event
      BY <1>1, <3>2 DEF TypeOK
    <3>3. CASE Enqueue(Ingress)
      BY <1>1, <3>1, <3>3, EnqueueType
    <3>4. CASE EnqueueExecution(Ingress, FALSE)
      BY <1>1, <3>1, <3>4, EnqueueExecutionType
    <3>5. QED
      BY <2>1, <3>2, <3>3, <3>4
  <2>3. QED
    BY <1>3, <2>2, ApprovalEvents
<1>5. CASE PublishCancel
  BY <1>1, <1>3, <1>5, EnqueueType, ApprovalEvents DEF PublishCancel
<1>6. CASE \E m \in Manager : PublishRequest(m)
  <2>1. PICK m \in Manager : PublishRequest(m)
    BY <1>6
  <2>2. EnqueueExecution(Requested(m), TRUE)
    BY <2>1 DEF PublishRequest
  <2>3. QED
    BY <1>1, <1>3, <2>2, EnqueueExecutionType, ApprovalEvents
<1>7. CASE \E m \in Manager : EnqueueApproved(m)
  <2>1. PICK m \in Manager : EnqueueApproved(m)
    BY <1>7
  <2>2. hand[m].about \in Askable /\ hand[m].about \in approvals
    BY <2>1 DEF IndInv, HandsOK, EnqueueApproved
  <2>3. Enqueue(Approved(hand[m].about))
    BY <2>1 DEF EnqueueApproved
  <2>4. QED
    BY <1>1, <1>3, <2>2, <2>3, EnqueueType, ApprovalEvents
<1>8. CASE \E w \in Worker :
              /\ pc[w] # "idle"
              /\ Finish(w)
  <2>1. PICK w \in Worker : pc[w] # "idle" /\ Finish(w)
    BY <1>8
  <2>2. /\ job[w] \in Event
        /\ IsApproval(job[w]) => job[w][2] \in approvals
        /\ job[w] = Cancellation => cancelled' = "published"
    BY <1>2, <2>1 DEF IndInv, JobsOK, JobOK
  <2>3. QED
    BY <1>1, <1>3, <2>1, <2>2, FinishType
<1>9. CASE event' = event
  BY <1>1, <1>2, <1>9 DEF TypeOK, EventsOK
<1>10. QED
  BY <1>4, <1>5, <1>6, <1>7, <1>8, <1>9, NextCases DEF vars, task, history, worker, SetPolicy, Propose, Cancel, StartRequest, CreateRequest,
     ReadPending, Reject, RequestDies, Approve, Take, Reenter, FinalizeCancellation,
     Decide, Refuse, AskReviewer, MarkPartial, Run, MeetBusyLease, HandlerEnds,
     RunEnds, RunPauses

LEMMA HandRecord ==
    ASSUME NEW d \in Steps, NEW r \in Row \cup {Nobody}
    PROVE  \E k : /\ k \in [does : Steps, about : Row \cup {Nobody}]
                  /\ k = [does |-> d, about |-> r] /\ k.does = d /\ k.about = r
<1> DEFINE k == [does |-> d, about |-> r]
<1>1. k \in [does : Steps, about : Row \cup {Nobody}] /\ k.does = d /\ k.about = r
  OBVIOUS
<1>2. k = [does |-> d, about |-> r]
  OBVIOUS
<1> HIDE DEF k
<1>3. QED
  BY <1>1, <1>2

(* A request holds a row that may be decided about, and an approved one when *)
(* it goes on to the outbox.                                                 *)
LEMMA HandStep ==
    ASSUME IndInv, [Next]_vars
    PROVE  /\ hand' \in [Manager -> [does : Steps, about : Row \cup {Nobody}]]
           /\ HandsOK'
           /\ approvals' \subseteq Askable
<1>1. TypeOK /\ HandsOK
  BY DEF IndInv
<1>2. ASSUME NEW m \in Manager, NEW h \in [does : Steps, about : Row \cup {Nobody}],
             hand' = [hand EXCEPT ![m] = h],
             h.does \in {"decide", "enqueue"} => h.about \in Askable,
             h.does = "enqueue" => h.about \in approvals',
             approvals \subseteq approvals', approvals' \subseteq Askable
      PROVE  /\ hand' \in [Manager -> [does : Steps, about : Row \cup {Nobody}]]
             /\ HandsOK'
             /\ approvals' \subseteq Askable
  <2>1. hand' \in [Manager -> [does : Steps, about : Row \cup {Nobody}]]
    BY <1>1, <1>2 DEF TypeOK
  <2>2. ASSUME NEW n \in Manager
        PROVE  /\ hand'[n].does \in {"decide", "enqueue"} => hand'[n].about \in Askable
               /\ hand'[n].does = "enqueue" => hand'[n].about \in approvals'
    <3>1. CASE n = m
      BY <1>1, <1>2, <3>1 DEF TypeOK
    <3>2. CASE n # m
      BY <1>1, <1>2, <3>2 DEF TypeOK, HandsOK
    <3>3. QED
      BY <3>1, <3>2
  <2>3. QED
    BY <1>2, <2>1, <2>2 DEF HandsOK
<1>3. PICK h : h = Idle /\ h \in [does : Steps, about : Row \cup {Nobody}] /\ h.does = "idle"
  <2>1. "idle" \in Steps
    BY DEF Steps
  <2>2. QED
    BY <2>1, HandRecord DEF Idle
<1>4. ASSUME NEW d \in Steps, NEW r \in Row
      PROVE  \E k : /\ k \in [does : Steps, about : Row \cup {Nobody}]
                    /\ k = [does |-> d, about |-> r] /\ k.does = d /\ k.about = r
  BY HandRecord
<1>5. CASE \E m \in Manager :
              /\ hand' = [hand EXCEPT ![m] = Idle] \/ Turn(m, "create", Request(m))
                                                   \/ Turn(m, "publish", Request(m))
              /\ approvals' = approvals
  <2>1. PICK m \in Manager :
           /\ hand' = [hand EXCEPT ![m] = Idle] \/ Turn(m, "create", Request(m))
                                                \/ Turn(m, "publish", Request(m))
           /\ approvals' = approvals
    BY <1>5
  <2>2. PICK k :
           /\ k \in [does : Steps, about : Row \cup {Nobody}]
           /\ hand' = [hand EXCEPT ![m] = k] /\ k.does \in {"idle", "create", "publish"}
    <3>1. CASE hand' = [hand EXCEPT ![m] = Idle]
      BY <1>3, <3>1
    <3>2. CASE \E d \in {"create", "publish"} : Turn(m, d, Request(m))
      <4>1. PICK d \in {"create", "publish"} : hand' = [hand EXCEPT ![m] = [does |-> d, about |-> Request(m)]]
        BY <3>2 DEF Turn
      <4>2. d \in Steps /\ Request(m) \in Row
        BY Names DEF Steps
      <4>3. PICK k :
               /\ k \in [does : Steps, about : Row \cup {Nobody}]
               /\ k = [does |-> d, about |-> Request(m)] /\ k.does = d /\ k.about = Request(m)
        BY <1>4, <4>2
      <4>4. hand' = [hand EXCEPT ![m] = k]
        BY <4>1, <4>3
      <4>5. QED
        BY <4>3, <4>4
    <3>3. QED
      BY <2>1, <3>1, <3>2
  <2>3. approvals' = approvals /\ approvals \subseteq Askable
    BY <1>1, <2>1 DEF TypeOK
  <2>4. QED
    BY <1>2, <2>2, <2>3
<1>6. CASE \E m \in Manager : \E r \in Askable : ReadPending(m, r)
  <2>1. PICK m \in Manager, r \in Askable :
           hand' = [hand EXCEPT ![m] = [does |-> "decide", about |-> r]] /\ approvals' = approvals
    BY <1>6 DEF ReadPending, Turn, history
  <2>2. r \in Row /\ "decide" \in Steps
    BY Names DEF Steps
  <2>3. PICK k :
           /\ k \in [does : Steps, about : Row \cup {Nobody}]
           /\ hand' = [hand EXCEPT ![m] = k] /\ k.does = "decide" /\ k.about = r
    <3>1. PICK k :
             /\ k \in [does : Steps, about : Row \cup {Nobody}]
             /\ k = [does |-> "decide", about |-> r] /\ k.does = "decide" /\ k.about = r
      BY <1>4, <2>2
    <3>2. hand' = [hand EXCEPT ![m] = k]
      BY <2>1, <3>1
    <3>3. QED
      BY <3>1, <3>2
  <2>4. approvals' = approvals /\ approvals \subseteq Askable
    BY <1>1, <2>1 DEF TypeOK
  <2>5. QED
    BY <1>2, <2>3, <2>4
<1>7. CASE \E m \in Manager : \E a \in Arg : Approve(m, a)
  <2>1. PICK m \in Manager :
           /\ hand[m].does = "decide"
           /\ hand' = [hand EXCEPT ![m] = [does |-> "enqueue", about |-> hand[m].about]]
           /\ approvals' = approvals \cup {hand[m].about}
    BY <1>7 DEF Approve, Turn
  <2>2. hand[m].about \in Askable
    BY <1>1, <2>1 DEF HandsOK
  <2>3. hand[m].about \in Row /\ "enqueue" \in Steps
    BY <2>2, Names DEF Steps
  <2>4. PICK k :
           /\ k \in [does : Steps, about : Row \cup {Nobody}]
           /\ hand' = [hand EXCEPT ![m] = k] /\ k.does = "enqueue" /\ k.about = hand[m].about
    <3>1. PICK k :
             /\ k \in [does : Steps, about : Row \cup {Nobody}]
             /\ k = [does |-> "enqueue", about |-> hand[m].about]
             /\ k.does = "enqueue" /\ k.about = hand[m].about
      BY <1>4, <2>3
    <3>2. hand' = [hand EXCEPT ![m] = k]
      BY <2>1, <3>1
    <3>3. QED
      BY <3>1, <3>2
  <2>5. /\ approvals \subseteq approvals' /\ approvals' \subseteq Askable
        /\ hand[m].about \in approvals'
    BY <1>1, <2>1, <2>2 DEF TypeOK
  <2>6. QED
    BY <1>2, <2>2, <2>4, <2>5
<1>8. CASE hand' = hand /\ approvals' = approvals
  BY <1>1, <1>8 DEF TypeOK, HandsOK
<1>9. QED
  BY <1>5, <1>6, <1>7, <1>8, NextCases DEF vars, task, history, worker, SetPolicy, CreateTask, Propose, Cancel, PublishCancel,
     StartRequest, CreateRequest, PublishRequest, Reject, EnqueueApproved,
     RequestDies, Take, Reenter, FinalizeCancellation, Decide, Refuse, AskReviewer,
     MarkPartial, Run, MeetBusyLease, HandlerEnds, RunEnds, RunPauses

(* A worker whose part of the state does not change keeps its part of the    *)
(* invariant: approvals are not taken back, nor is a cancellation.           *)
LEMMA JobFrame ==
    ASSUME NEW w \in Worker, JobOK(w),
           pc'[w] = pc[w], job'[w] = job[w], verdict'[w] = verdict[w],
           approvals \subseteq approvals',
           cancelled = "published" => cancelled' = "published"
    PROVE  JobOK(w)'
<1>1. pc'[w] # "idle" =>
          /\ job'[w] \in Event
          /\ IsApproval(job'[w]) => job'[w][2] \in approvals'
          /\ job'[w] = Cancellation => cancelled' = "published"
  BY DEF JobOK
<1>2. pc'[w] = "reenter" => IsApproval(job'[w])
  BY DEF JobOK
<1>3. pc'[w] \in {"act", "mark", "run"} =>
          verdict'[w] \in Decisions /\ PayloadOK(job[w], verdict[w].payload)'
  <2>1. PayloadOK(job[w], verdict[w].payload) => PayloadOK(job[w], verdict[w].payload)'
    <3> DEFINE p == verdict[w].payload
    <3>1. p' = p
      OBVIOUS
    <3> HIDE DEF p
    <3>2. PayloadOK(job[w], p) => PayloadOK(job[w], p)'
      BY <3>1, Zenon DEF PayloadOK, FromReviewer, FromManager, FromIngress, IsApproval
    <3>3. QED
      BY <3>2 DEF p
  <2>2. pc[w] \in {"act", "mark", "run"} =>
          verdict[w] \in Decisions /\ PayloadOK(job[w], verdict[w].payload)
    BY DEF JobOK
  <2>3. QED
    BY <2>1, <2>2, Zenon
<1>4. pc'[w] = "run" => Judgement(w)' = "run"
  <2>1. pc[w] = "run" => Judgement(w) = "run"
    BY DEF JobOK
  <2>2. Judgement(w)' = Judgement(w)
    BY Zenon DEF Judgement
  <2>3. QED
    BY <2>1, <2>2
<1>5. QED
  BY <1>1, <1>2, <1>3, <1>4 DEF JobOK

LEMMA JobStep ==
    ASSUME IndInv, [Next]_vars
    PROVE  /\ pc' \in [Worker -> {"idle", "reenter", "decide", "act", "mark", "run"}]
           /\ job' \in [Worker -> Event \cup {Nobody}]
           /\ verdict' \in [Worker -> Decisions \cup {Nobody}]
           /\ JobsOK'
<1>1. TypeOK /\ EventsOK /\ FlagsOK /\ \A w \in Worker : JobOK(w)
  BY DEF IndInv, JobsOK
<1>2. approvals \subseteq approvals' /\ (cancelled = "published" => cancelled' = "published")
  <2>1. approvals \subseteq approvals'
    BY NextCases DEF vars, task, history, worker, SetPolicy, CreateTask, Propose, Cancel, PublishCancel,
     StartRequest, CreateRequest, PublishRequest, ReadPending, Reject,
     EnqueueApproved, RequestDies, Approve, Take, Reenter, FinalizeCancellation,
     Decide, Refuse, AskReviewer, MarkPartial, Run, MeetBusyLease, HandlerEnds,
     RunEnds, RunPauses
  <2>2. QED
    BY <1>1, <2>1, ScalarStep
<1>3. ASSUME NEW w \in Worker, JobOK(w)',
             \A v \in Worker : v # w =>
                 pc'[v] = pc[v] /\ job'[v] = job[v] /\ verdict'[v] = verdict[v]
      PROVE  JobsOK'
  <2>1. ASSUME NEW v \in Worker, v # w PROVE JobOK(v)'
    BY <1>1, <1>2, <1>3, <2>1, JobFrame
  <2>2. QED
    BY <1>3, <2>1 DEF JobsOK
<1>4. CASE \E w \in Worker : \E e \in Event : Take(w, e)
  <2>1. PICK w \in Worker, e \in Event : Take(w, e)
    BY <1>4
  <2> DEFINE x == IF IsApproval(e) THEN "reenter" ELSE "decide"
  <2>2. /\ pc' \in [Worker -> {"idle", "reenter", "decide", "act", "mark", "run"}]
        /\ pc'[w] = x
        /\ \A v \in Worker : v # w => pc'[v] = pc[v]
    <3>1. Goto(w, x) /\ x \in {"idle", "reenter", "decide", "act", "mark", "run"}
      BY <2>1 DEF Take
    <3>2. QED
      BY <1>1, <3>1, GotoType
  <2>3. /\ job' \in [Worker -> Event \cup {Nobody}] /\ job'[w] = e
        /\ \A v \in Worker : v # w => job'[v] = job[v]
        /\ verdict' = verdict
    BY <1>1, <2>1 DEF Take, TypeOK
  <2>4. /\ IsApproval(e) => e[2] \in approvals'
        /\ e = Cancellation => cancelled' = "published"
    <3>1. event[e] = "queued"
      BY <2>1 DEF Take
    <3>2. QED
      BY <1>1, <1>2, <3>1, ApprovalEvents DEF EventsOK
  <2>5. JobOK(w)'
    BY <2>2, <2>3, <2>4 DEF JobOK
  <2>6. QED
    BY <1>1, <1>3, <2>2, <2>3, <2>5 DEF TypeOK
<1>5. CASE \E w \in Worker : Reenter(w)
  <2>1. PICK w \in Worker : Reenter(w)
    BY <1>5
  <2>2. /\ pc' \in [Worker -> {"idle", "reenter", "decide", "act", "mark", "run"}]
        /\ pc'[w] = "decide"
        /\ \A v \in Worker : v # w => pc'[v] = pc[v]
    <3>1. Goto(w, "decide")
      BY <2>1 DEF Reenter
    <3>2. QED
      BY <1>1, <3>1, GotoType
  <2>3. job' = job /\ verdict' = verdict /\ pc[w] = "reenter"
    BY <2>1 DEF Reenter
  <2>4. JobOK(w)'
    BY <1>1, <1>2, <2>2, <2>3 DEF JobOK
  <2>5. QED
    BY <1>1, <1>3, <2>2, <2>3, <2>4 DEF TypeOK
<1>6. CASE \E w \in Worker : Decide(w)
  <2>1. PICK w \in Worker : Decide(w)
    BY <1>6
  <2> DEFINE p == PayloadOf(job[w])
  <2>2. /\ pc' \in [Worker -> {"idle", "reenter", "decide", "act", "mark", "run"}]
        /\ pc'[w] = "act"
        /\ \A v \in Worker : v # w => pc'[v] = pc[v]
    <3>1. Goto(w, "act")
      BY <2>1 DEF Decide
    <3>2. QED
      BY <1>1, <3>1, GotoType
  <2>3. /\ job[w] \in Event /\ job[w] # Cancellation
        /\ IsApproval(job[w]) => job[w][2] \in approvals
    BY <1>1, <2>1 DEF JobOK, Decide
  <2>4. /\ p \in Payload
        /\ PayloadOK(job[w], p)
    BY <1>1, <2>3, PayloadType DEF PayloadOK
  <2>5. PICK d : /\ d = [payload |-> p, policy |-> policy]
                 /\ d \in Decisions /\ d.payload = p
    <3>1. policy \in Policies
      BY <1>1 DEF TypeOK
    <3> DEFINE r == [payload |-> p, policy |-> policy]
    <3> HIDE DEF p
    <3>2. r \in Decisions /\ r.payload = p
      BY <2>4, <3>1 DEF Decisions
    <3>3. r = [payload |-> p, policy |-> policy]
      OBVIOUS
    <3> HIDE DEF r
    <3>4. QED
      BY <3>2, <3>3
  <2>6. job' = job /\ verdict' = [verdict EXCEPT ![w] = d] /\ approvals' = approvals
    BY <2>1, <2>5 DEF Decide, history
  <2>7. /\ verdict' \in [Worker -> Decisions \cup {Nobody}] /\ verdict'[w] = d
        /\ \A v \in Worker : v # w => verdict'[v] = verdict[v]
    BY <1>1, <2>5, <2>6 DEF TypeOK
  <2>8. JobOK(w)'
    <3> HIDE DEF p
    <3>1. verdict'[w] \in Decisions /\ verdict'[w].payload = p
      BY <2>5, <2>7
    <3>2. PayloadOK(job[w], verdict[w].payload)'
      <4>1. PICK q : q = p /\ PayloadOK(job[w], q)
        BY <2>4
      <4>2. PayloadOK(job[w], q)'
        BY <2>6, <4>1, Zenon DEF PayloadOK, FromReviewer, FromManager, FromIngress, IsApproval
      <4>3. QED
        BY <3>1, <4>1, <4>2
    <3>3. QED
      BY <2>2, <2>3, <2>6, <3>1, <3>2 DEF JobOK
  <2>9. QED
    BY <1>1, <1>3, <2>2, <2>6, <2>7, <2>8 DEF TypeOK
<1>7. CASE \E w \in Worker : AskReviewer(w) \/ Run(w)
  <2>1. PICK w \in Worker : AskReviewer(w) \/ Run(w)
    BY <1>7
  <2>2. PICK x \in {"mark", "run"} : Goto(w, x) /\ (x = "run" => Judgement(w) = "run")
    BY <2>1 DEF AskReviewer, Run
  <2>3. /\ pc' \in [Worker -> {"idle", "reenter", "decide", "act", "mark", "run"}]
        /\ pc'[w] = x
        /\ \A v \in Worker : v # w => pc'[v] = pc[v]
    BY <1>1, <2>2, GotoType
  <2>4. job' = job /\ verdict' = verdict /\ pc[w] = "act" /\ approvals' = approvals
    BY <2>1 DEF AskReviewer, Run, history
  <2>5. JobOK(w)'
    <3>1. Judgement(w)' = Judgement(w)
      BY <2>4, Zenon DEF Judgement
    <3>2. verdict'[w] \in Decisions /\ PayloadOK(job[w], verdict[w].payload)'
      <4>1. verdict[w] \in Decisions /\ PayloadOK(job[w], verdict[w].payload)
        BY <1>1, <2>4 DEF JobOK
      <4>2. QED
        BY <2>4, <4>1, Zenon DEF PayloadOK, FromReviewer, FromManager, FromIngress, IsApproval
    <3>3. QED
      BY <1>1, <1>2, <2>2, <2>3, <2>4, <3>1, <3>2 DEF JobOK
  <2>6. QED
    BY <1>1, <1>3, <2>3, <2>4, <2>5 DEF TypeOK
<1>8. CASE \E w \in Worker : Rest(w)
  <2>1. PICK w \in Worker : Rest(w)
    BY <1>8
  <2>2. JobOK(w)'
    BY <1>1, <2>1, RestType DEF JobOK
  <2>3. QED
    BY <1>1, <1>3, <2>1, <2>2, RestType
<1>9. CASE UNCHANGED worker
  <2>1. \A w \in Worker : JobOK(w)'
    BY <1>1, <1>2, <1>9, JobFrame DEF worker
  <2>2. QED
    BY <1>1, <1>9, <2>1 DEF worker, TypeOK, JobsOK
<1>10. QED
  BY <1>4, <1>5, <1>6, <1>7, <1>8, <1>9, NextCases DEF vars, Finish, task, history, worker, SetPolicy, CreateTask, Propose, Cancel, PublishCancel,
     StartRequest, CreateRequest, PublishRequest, ReadPending, Reject,
     EnqueueApproved, RequestDies, Approve, FinalizeCancellation, Refuse,
     MarkPartial, MeetBusyLease, HandlerEnds, RunEnds, RunPauses

LEMMA IndInvStep == IndInv /\ [Next]_vars => IndInv'
<1> SUFFICES ASSUME IndInv, [Next]_vars PROVE IndInv'
  OBVIOUS
<1>1. TypeOK
  BY DEF IndInv
<1>2. TypeOK'
  BY <1>1, FlagTypes, ScalarStep, RowStep, EventStep, HandStep, JobStep DEF TypeOK
<1>3. QED
  BY <1>2, RowStep, EventStep, HandStep, JobStep DEF IndInv

-----------------------------------------------------------------------------
(* Theorems                                                                  *)

LEMMA Inductive == Spec => []IndInv
<1> HIDE DEF IndInv
<1>1. QED
  BY InitInv, IndInvStep, PTL DEF Spec

(* The variables of Approval keep their types.                               *)
THEOREM TypeCorrect == Spec => []TypeOK
<1>1. IndInv => TypeOK
  BY DEF IndInv
<1> HIDE DEF IndInv, TypeOK
<1>2. QED
  BY <1>1, Inductive, PTL

(* Whatever people and workers do, in any order, with any policies and any   *)
(* faults: a run was allowed by the policy its worker read, and where a      *)
(* reviewer has to be asked one has approved.                                *)
THEOREM OnlyAuthorisedRuns == Spec => []RunsAreAuthorised
<1>1. IndInv => RunsAreAuthorised
  <2> SUFFICES ASSUME IndInv, NEW w \in Worker, pc[w] = "run"
      PROVE LET d == verdict[w] IN
            /\ d.policy.active
            /\ d.payload.kind \notin d.policy.deny
            /\ d.payload.kind = "tool" => d.policy.granted /\ HumanApproved(w)
            /\ \/ d.policy.mode = "require_approval"
               \/ d.payload.kind \in d.policy.ask
               \/ job[w] # Ingress
               => HumanApproved(w)
            /\ d.policy.mode = "suggest_only" => d.payload.explicit /\ HumanApproved(w)
    BY DEF RunsAreAuthorised
  <2> DEFINE p == verdict[w].payload
             pol == verdict[w].policy
  <2>1. p \in Payload /\ pol \in Policy
    BY ActingType
  <2>2. /\ Verdict(p, pol) = "run"
        /\ \/ FromReviewer(job[w], p)
           \/ FromManager(p)
           \/ job[w] = Ingress /\ FromIngress(p)
    BY DEF IndInv, JobsOK, JobOK, Judgement, PayloadOK
  <2> HIDE DEF p, pol
  <2>3. p.humanApproved = FALSE
    BY <2>2 DEF FromReviewer, FromManager, FromIngress
  <2>4. /\ pol.active /\ pol.mode = "auto_execute"
        /\ p.kind \notin pol.deny /\ p.kind \notin pol.ask
        /\ p.kind = "tool" => pol.granted
        /\ p.needsApproval # TRUE
    BY <2>1, <2>2, <2>3, RunVerdict
  <2>5. \/ HumanApproved(w)
        \/ job[w] = Ingress /\ p.kind = "none"
    BY <2>2, <2>4 DEF FromReviewer, FromManager, FromIngress, HumanApproved
  <2>6. QED
    BY <2>4, <2>5 DEF p, pol
<1> HIDE DEF IndInv, RunsAreAuthorised
<1>2. QED
  BY <1>1, Inductive, PTL

=============================================================================
