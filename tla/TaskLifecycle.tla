--------------------------- MODULE TaskLifecycle ---------------------------
(***************************************************************************)
(* The life of one task: what the runs of the autonomous agent loop, the   *)
(* policy, the retry scanner, the detector of stuck tasks and              *)
(* cancellation store in its four state fields, and how their writes meet. *)
(*                                                                         *)
(* task.save() writes the fields that were changed in memory, and only if  *)
(* nobody has saved the task since it was read (optimisticConcurrency);    *)
(* updateOne and findOneAndUpdate write whatever the version is and do not *)
(* change it.  A save and the assignments before it are one step, as are   *)
(* saves of one process between which no other process could tell them     *)
(* apart.  Which tools a run calls is left open (see ExecutionRun).        *)
(***************************************************************************)
EXTENDS Integers, Sequences

CONSTANTS
    Worker,
    Nobody,       \* the owner of a free lease
    Gone,         \* the id of a worker process that has died
    MaxRetries,   \* task.maxRetries
    MaxIterations,\* agentMaxIterationsPlan
    Requests,     \* the execution requests users may make: of "first", "again"
    Remediations, \* what may be configured: "log", "fail", "retry"
    Databases,    \* whether the database has transactions (is a replica set)
    Faults,       \* mishaps a behaviour may be subject to
    MaxMishaps    \* bound on the mishaps of a behaviour

(* "crash"  a worker process dies                                          *)
(* "slow"   the heartbeats of a run are so late that its lease runs out    *)
(* "emit"   telling the socket server of a stored change fails             *)
(* "web"    the web process dies after it has stored a cancellation        *)
(* "refuse" a request is judged, or refused, while a run holds the task:   *)
(*          both store what they find without asking for the lease         *)
(* "overtake" a request is taken up while a scanner has not yet stored     *)
(*          RETRY_DUE                                                      *)
FaultKinds == {"crash", "slow", "emit", "web", "refuse", "overtake"}

ASSUME LifecycleAssumption ==
    /\ Nobody \notin Worker /\ Gone \notin Worker /\ Gone # Nobody
    /\ MaxRetries \in Nat /\ MaxIterations \in Nat /\ MaxMishaps \in Nat
    /\ Requests \subseteq {"first", "again"}
    /\ Remediations \subseteq {"log", "fail", "retry"}
    /\ Databases \subseteq BOOLEAN
    /\ Faults \subseteq FaultKinds

VARIABLES
    remedy,   \* TASK_STUCK_REMEDIATION
    txn,      \* whether the database has transactions
    task,     \* the stored task: life, status, kind, retries
    due,      \* task.nextRetryAt: "none", "later" or "past"
    cancel,   \* task.cancelRequestedAt is set
    owner,    \* task.leaseOwner
    live,     \* task.leaseExpiresAt lies in the future
    beats,    \* task.lastHeartbeatAt: "never", "fresh", or "old" for the detector
    queue,    \* queue[k]: the outbox event with dedupe key k
    scan,     \* scan[w]: what the scanner of w has done with the task, and the retry
              \* count it has claimed it with
    pc,       \* pc[w]: where worker w is
    job,      \* job[w]: the event worker w processes
    doc,      \* doc[w]: the task as the run of w holds it in memory
    fresh,    \* fresh[w]: nobody has saved the task since doc[w] was read
    read,     \* read[w]: the task as the scanner of w has read it to store RETRY_DUE,
              \* while nobody has saved it since
    tries,    \* tries[w]: context.retryCount of the run
    turns,    \* turns[w]: iterations of the run
    stuck,    \* stuck[w]: the retry count the detector of w is to schedule, or 0
    mishaps   \* the mishaps there were

taskVars == <<task, due, cancel>>
leaseVars == <<owner, live, beats>>
copies == <<fresh, read>>
runVars == <<doc, copies, tries, turns>>
config == <<remedy, txn>>
vars == <<remedy, txn, task, due, cancel, owner, live, beats, queue, scan, pc, job, doc, fresh,
          read, tries, turns, stuck, mishaps>>

FSM == INSTANCE ExecutionFSM WITH kind <- task.kind

-----------------------------------------------------------------------------
(* Types *)

Lives == {"ready", "planning", "executing", "waiting_for_approval", "blocked",
          "paused", "retry_scheduled", "completed", "failed"}
Statuses == {"pending", "executing", "partial", "waiting_for_input", "completed", "failed"}
Retries == 0 .. (MaxRetries + 1)
Tasks == [life : Lives, status : Statuses, kind : FSM!Kinds, retries : Retries]

(* Dedupe keys: those of the users' requests, of the cancellation, and one *)
(* for every retry count                                                   *)
Key == (Requests \X {0}) \cup {<<"cancel", 0>>} \cup ({"retry"} \X (1 .. MaxRetries + 1))
CancelKey == <<"cancel", 0>>
RetryKey(n) == <<"retry", n>>
NoJob == <<"none", 0>>
NoScan == <<"idle", 0>>

PCs == {"idle", "preflight", "start", "begin", "top", "decide", "goal", "tool",
        "verify", "over", "returned", "threw"}

TypeOK ==
    /\ remedy \in Remediations /\ txn \in Databases
    /\ task \in Tasks
    /\ due \in {"none", "later", "past"}
    /\ cancel \in BOOLEAN
    /\ owner \in Worker \cup {Nobody, Gone}
    /\ live \in BOOLEAN
    /\ beats \in {"never", "fresh", "old"}
    /\ queue \in [Key -> {"none", "pending", "taken", "done"}]
    /\ scan \in [Worker -> {"idle", "claimed", "enqueued", "due"} \X Retries]
    /\ pc \in [Worker -> PCs]
    /\ job \in [Worker -> Key \cup {NoJob}]
    /\ doc \in [Worker -> Tasks]
    /\ fresh \in [Worker -> BOOLEAN]
    /\ read \in [Worker -> SUBSET Tasks]
    /\ tries \in [Worker -> Retries]
    /\ turns \in [Worker -> 0 .. MaxIterations]
    /\ stuck \in [Worker -> Retries]
    /\ mishaps \in Seq(Faults)

At(l, s, k, n) == [life |-> l, status |-> s, kind |-> k, retries |-> n]
NewTask == At("ready", "pending", "queued", 0)

Init ==
    /\ remedy \in Remediations /\ txn \in Databases
    /\ task = NewTask
    /\ due = "none" /\ cancel = FALSE
    /\ owner = Nobody /\ live = FALSE /\ beats = "never"
    /\ queue = [k \in Key |-> "none"]
    /\ scan = [w \in Worker |-> NoScan]
    /\ pc = [w \in Worker |-> "idle"]
    /\ job = [w \in Worker |-> NoJob]
    /\ doc = [w \in Worker |-> NewTask]
    /\ fresh = [w \in Worker |-> FALSE]
    /\ read = [w \in Worker |-> {}]
    /\ tries = [w \in Worker |-> 0]
    /\ turns = [w \in Worker |-> 0]
    /\ stuck = [w \in Worker |-> 0]
    /\ mishaps = <<>>

-----------------------------------------------------------------------------
(* Writing the task *)

(* variant: capped at the budget, so that it never exceeds it *)
More_Capped(n) == IF n >= MaxRetries THEN n ELSE n + 1

(* One retry more; how far the budget is exceeded makes no difference *)
More(n) == IF n > MaxRetries THEN n ELSE n + 1

(* variant: one retry too many *)
Budgeted_OneMore(n) == n <= MaxRetries + 1

(* The count of retries is within the budget of the task *)
Budgeted(n) == n <= MaxRetries

(* task with an event of the state machine applied and projected *)
On(t, e) ==
    LET k == FSM!Reduce(t.kind, e) IN At(FSM!LifeOf(k), FSM!StatusOf(k), k, t.retries)

(* The stored task t after a save of what was read as old and is now new *)
Merged(t, old, new) ==
    [life    |-> IF new.life # old.life THEN new.life ELSE t.life,
     status  |-> IF new.status # old.status THEN new.status ELSE t.status,
     kind    |-> IF new.kind # old.kind THEN new.kind ELSE t.kind,
     retries |-> IF new.retries # old.retries THEN new.retries ELSE t.retries]

(* After a save by the run of w, or by somebody else, nobody else may save *)
(* what he has read before                                                 *)
Outdate(w) ==
    /\ fresh' = [v \in Worker |-> v = w]
    /\ read' = [v \in Worker |-> {}]

(* variant: without optimisticConcurrency *)
CanSave_Always(w) == w \in Worker

CanSave(w) == fresh[w]

(* persistShadowExecutionState, then updateTask: the run stores mid, then  *)
(* new.  When somebody has saved the task since it was read, the first     *)
(* failure is swallowed and the second throws (see Stale).                 *)
SaveTwice(w, mid, new) ==
    /\ CanSave(w)
    /\ task' = Merged(Merged(task, doc[w], mid), mid, new)
    /\ doc' = [doc EXCEPT ![w] = new]
    /\ Outdate(w)
Save(w, new) == SaveTwice(w, new, new)

(* scheduleTaskRetry: its updateOne stores every field but the kind, which *)
(* the save after it stores                                                *)
SaveAll(w, new) ==
    /\ CanSave(w)
    /\ task' = new
    /\ doc' = [doc EXCEPT ![w] = new]
    /\ Outdate(w)

(* variant: an update that leaves the version alone *)
SaveRead_SameVersion(t) == task' = t /\ UNCHANGED copies

(* A save by somebody else, who has just read the task *)
SaveRead(t) == task' = t /\ Outdate(Nobody)

(* persistShadowExecutionState alone: a failure leaves everything as it was *)
Persist(w, e) ==
    \/ Save(w, On(doc[w], e))
    \/ ~CanSave(w) /\ UNCHANGED <<task, doc, copies>>

(* What scheduleTaskRetry writes over t, for a retry count it has read *)
Rescheduled(t, n) ==
    At("retry_scheduled", "partial", t.kind, n)
Failed(t, n) ==
    At("failed", "failed", t.kind, n)

IsTerminal(t) == t.life \in {"completed", "failed"} \/ t.status \in {"completed", "failed"}

Leased == owner # Nobody /\ live

Goto(w, l) == pc' = [pc EXCEPT ![w] = l]

Mishap(f) == f \in Faults /\ Len(mishaps) < MaxMishaps /\ mishaps' = Append(mishaps, f)

-----------------------------------------------------------------------------
(* Requests and cancellation *)

(* A user asks for the task to be executed (again) *)
Request(k) ==
    /\ queue[k] = "none" /\ k \in Requests \X {0}
    /\ queue' = [queue EXCEPT ![k] = "pending"]
    /\ UNCHANGED <<taskVars, leaseVars, runVars, scan, pc, job, stuck, mishaps>>

(* POST /api/tasks/:id/cancel stores the cancellation, then enqueues it *)
RequestCancel ==
    /\ ~cancel /\ ~IsTerminal(task)
    /\ cancel' = TRUE
    /\ \/ queue' = [queue EXCEPT ![CancelKey] = "pending"] /\ UNCHANGED mishaps
       \/ Mishap("web") /\ UNCHANGED queue
    /\ UNCHANGED <<task, due, leaseVars, runVars, scan, pc, job, stuck>>

(* finalizeTaskCancellation *)
Cancelled(t) ==
    At("failed", "failed",
       FSM!Reduce(FSM!Reduce(t.kind, "CANCEL_REQUESTED"), "CANCEL_FINALIZED"), t.retries)

(* variant: final at once, whoever holds the lease *)
ProcessCancel_AtOnce ==
    \/ IsTerminal(task) /\ UNCHANGED <<task, copies, owner, live>>
    \/ ~IsTerminal(task) /\ SaveRead(Cancelled(task)) /\ owner' = Nobody /\ live' = FALSE

(* processTaskCancellation: nothing to do, left to the run, or final *)
ProcessCancel ==
    \/ /\ IsTerminal(task)
       /\ UNCHANGED <<task, copies, owner, live>>
    \/ /\ ~IsTerminal(task) /\ Leased
       /\ LET k == FSM!Reduce(task.kind, "CANCEL_REQUESTED") IN
              IF task.kind = "cancelling" THEN UNCHANGED <<task, copies>>
              ELSE SaveRead(At(FSM!LifeOf(k), task.status, k, task.retries))
       /\ UNCHANGED <<owner, live>>
    \/ /\ ~IsTerminal(task) /\ ~Leased
       /\ SaveRead(Cancelled(task))
       /\ owner' = Nobody /\ live' = FALSE

(* A worker processes a cancellation, or a request for a task whose        *)
(* cancellation has been asked for                                         *)
TakeCancel(w, k) ==
    /\ pc[w] = "idle" /\ queue[k] = "pending"
    /\ k = CancelKey \/ cancel
    /\ ProcessCancel
    /\ queue' = [queue EXCEPT ![k] = "done"]
    /\ UNCHANGED <<due, cancel, beats, doc, tries, turns, scan, pc, job, stuck, mishaps>>

-----------------------------------------------------------------------------
(* processTaskExecutionRequested *)

(* Some scanner has claimed the task and not yet stored RETRY_DUE *)
Scanned == \E v \in Worker : scan[v] # NoScan

(* Judging takes no lease *)
Intrudes ==
    CASE Leased             -> Mishap("refuse")
      [] ~Leased /\ Scanned -> Mishap("overtake")
      [] OTHER              -> UNCHANGED mishaps

(* The organization is suspended or over its quota: only the status changes *)
Refuse(w, k) ==
    /\ pc[w] = "idle" /\ queue[k] = "pending" /\ k # CancelKey /\ ~cancel
    /\ SaveRead(At(task.life, "failed", task.kind, task.retries))
    /\ queue' = [queue EXCEPT ![k] = "done"]
    /\ Intrudes
    /\ UNCHANGED <<due, cancel, leaseVars, doc, tries, turns, scan, pc, job, stuck>>

(* The policy blocks the request or asks for an approval *)
Judge(w, k, e) ==
    /\ pc[w] = "idle" /\ queue[k] = "pending" /\ k # CancelKey /\ ~cancel
    /\ LET judged == FSM!Reduce(FSM!Reduce("queued", "POLICY_EVALUATE"), e) IN
           SaveRead(At(FSM!LifeOf(judged), FSM!StatusOf(judged), judged, task.retries))
    /\ queue' = [queue EXCEPT ![k] = "done"]
    /\ Intrudes
    /\ UNCHANGED <<due, cancel, leaseVars, doc, tries, turns, scan, pc, job, stuck>>

(* The request may be executed, and the lease is free *)
Accept(w, k) ==
    /\ pc[w] = "idle" /\ queue[k] = "pending" /\ k # CancelKey /\ ~cancel
    /\ ~Leased \/ owner = w
    /\ owner' = w /\ live' = TRUE /\ beats' = "fresh"
    /\ queue' = [queue EXCEPT ![k] = "taken"]
    /\ job' = [job EXCEPT ![w] = k]
    /\ Goto(w, "preflight")
    /\ IF Scanned THEN Mishap("overtake") ELSE UNCHANGED mishaps
    /\ UNCHANGED <<taskVars, runVars, scan, stuck>>

Ingress(w) ==
    \E k \in Key :
        \/ TakeCancel(w, k) \/ Refuse(w, k) \/ Accept(w, k)
        \/ \E e \in {"POLICY_BLOCKED", "POLICY_APPROVAL_REQUIRED"} : Judge(w, k, e)

-----------------------------------------------------------------------------
(* runTask *)

RunStep(w) == UNCHANGED <<due, cancel, leaseVars, queue, scan, job, stuck, mishaps>>

(* handleCancellationIfRequested, which reads the task anew *)
Finalize(w) ==
    /\ cancel
    /\ SaveRead(Cancelled(task))
    /\ Goto(w, "returned")
    /\ UNCHANGED <<doc, tries, turns>>

(* The run reads the task *)
Preflight(w) ==
    /\ pc[w] = "preflight" /\ RunStep(w)
    /\ \/ Finalize(w)
       \/ /\ ~cancel
          /\ doc' = [doc EXCEPT ![w] = task]
          /\ fresh' = [fresh EXCEPT ![w] = TRUE] /\ UNCHANGED read
          /\ tries' = [tries EXCEPT ![w] = task.retries]
          /\ turns' = [turns EXCEPT ![w] = 0]
          /\ Goto(w, "start") /\ UNCHANGED task

(* startShadowExecutionRun: t after the events that begin a run *)
WithKind(t, k) == At(t.life, t.status, k, t.retries)
Started(t) ==
    LET k == FSM!Baseline(t.kind) IN
    CASE k = "paused"            -> On(t, "CLARIFICATION_RESOLVED")
      [] k = "awaiting_approval" -> On(t, "APPROVAL_GRANTED")
      [] k = "queued"            -> On(On(WithKind(t, k), "POLICY_EVALUATE"),
                                       "LEASE_ACQUIRED")
      [] k = "policy_evaluating" -> On(t, "LEASE_ACQUIRED")
      [] OTHER                   -> t

Start(w) ==
    /\ pc[w] = "start" /\ RunStep(w)
    /\ \/ Started(doc[w]) = doc[w] /\ UNCHANGED <<task, doc, copies>>
       \/ Started(doc[w]) # doc[w] /\ Save(w, Started(doc[w]))
       \/ ~CanSave(w) /\ UNCHANGED <<task, doc, copies>>
    /\ Goto(w, "begin") /\ UNCHANGED <<tries, turns>>

(* A save that may throw: the run is over, and its event is tried again *)
Stale(w) == ~CanSave(w) /\ Goto(w, "threw") /\ UNCHANGED <<task, doc, copies, tries, turns>>

(* updateTask stores the status "executing" unless it is there already;    *)
(* then the plan is ready                                                  *)
WithTries(t, s, n) == At(t.life, s, t.kind, n)
Executing(w) == WithTries(doc[w], "executing", tries[w])
Begin(w) ==
    /\ pc[w] = "begin" /\ RunStep(w)
    /\ \/ /\ SaveTwice(w, Executing(w), On(Executing(w), "PLAN_READY"))
          /\ Goto(w, "top")
       \/ /\ ~CanSave(w) /\ Executing(w) = doc[w]
          /\ Goto(w, "top") /\ UNCHANGED <<task, doc, copies>>
       \/ Executing(w) # doc[w] /\ Stale(w)
    /\ UNCHANGED <<tries, turns>>

MayIterate(w) ==
    turns[w] < MaxIterations /\ Budgeted(tries[w]) /\ doc[w].status # "completed"

Iterate(w) ==
    /\ pc[w] = "top" /\ MayIterate(w) /\ RunStep(w)
    /\ \/ Finalize(w)
       \/ /\ ~cancel
          /\ Persist(w, "ITERATION_START")
          /\ turns' = [turns EXCEPT ![w] = @ + 1]
          /\ Goto(w, "decide") /\ UNCHANGED tries

(* The error of an iteration: one try more, and the run goes on while the  *)
(* budget lasts; scheduleTaskRetry finds it used up otherwise              *)
AfterError(t, n) ==
    IF Budgeted(n)
    THEN WithTries(On(t, "ERROR_RETRYABLE"), "executing", n)
    ELSE Failed(On(t, "ERROR_FATAL"), More(t.retries))
IterationFails(w, next) ==
    LET n == More(tries[w])
        e == IF Budgeted(n) THEN "ERROR_RETRYABLE" ELSE "ERROR_FATAL"
    IN  /\ IF Budgeted(n) THEN SaveTwice(w, On(doc[w], e), AfterError(doc[w], n))
           ELSE SaveAll(w, AfterError(doc[w], n))
        /\ tries' = [tries EXCEPT ![w] = n]
        /\ Goto(w, IF Budgeted(n) THEN next ELSE "returned")
        /\ UNCHANGED turns

(* The run ends as failed: an error that is not retried *)
EndsFailed(w) ==
    LET failed == On(doc[w], "ERROR_FATAL") IN
    /\ SaveTwice(w, failed, WithTries(failed, "failed", tries[w]))
    /\ Goto(w, "returned")
    /\ UNCHANGED <<tries, turns>>

(* The loop is over, and the task is not stored as completed *)
Exhaust(w) ==
    /\ pc[w] = "over" \/ (pc[w] = "top" /\ ~MayIterate(w))
    /\ RunStep(w)
    /\ EndsFailed(w) \/ Stale(w)

(* An abort, a timeout or a lost lease ends the run, unless it is a        *)
(* cancellation                                                            *)
Abort(w) ==
    /\ pc[w] \in {"decide", "tool"} /\ RunStep(w)
    /\ Finalize(w) \/ (~cancel /\ (EndsFailed(w) \/ Stale(w)))

(* The model says that the goal is reached; then the task is completed *)
Achieve(w) ==
    /\ pc[w] = "decide" /\ RunStep(w)
    /\ Persist(w, "GOAL_ACHIEVED")
    /\ Goto(w, "goal") /\ UNCHANGED <<tries, turns>>

Complete(w) ==
    /\ pc[w] = "goal"
    /\ UNCHANGED <<due, cancel, leaseVars, queue, scan, job, stuck>>
    /\ \/ /\ Save(w, WithTries(doc[w], "completed", doc[w].retries))
          /\ Goto(w, "returned") /\ UNCHANGED <<tries, turns, mishaps>>
       \/ Stale(w) /\ UNCHANGED mishaps
       \/ Mishap("emit") /\ IterationFails(w, "over")

(* The model or a tool asks the user something *)
Clarify(w) ==
    /\ pc[w] \in {"decide", "tool"} /\ RunStep(w)
    /\ \/ LET asked == On(doc[w], "CLARIFICATION_REQUIRED") IN
          /\ SaveTwice(w, asked, At("paused", "waiting_for_input", asked.kind, asked.retries))
          /\ Goto(w, "returned") /\ UNCHANGED <<tries, turns>>
       \/ Stale(w)

(* The call of the model fails (LLM_ERROR), and scheduleTaskRetry decides. *)
(* Its updateOne asks nobody; the save after it may find the run stale.    *)
ModelFails(w) ==
    /\ pc[w] = "decide"
    /\ UNCHANGED <<cancel, leaseVars, queue, scan, job, stuck, mishaps, tries, turns>>
    /\ \E retryable \in BOOLEAN :
        LET n == More(doc[w].retries)
            again == retryable /\ Budgeted(n)
            Written(t) == IF again THEN Rescheduled(t, n) ELSE Failed(t, n)
            new == On(Written(doc[w]), IF again THEN "ERROR_RETRYABLE" ELSE "ERROR_FATAL")
        IN  /\ due' = IF again THEN "later" ELSE due
            /\ \/ /\ SaveAll(w, new)
                  /\ Goto(w, "returned")
               \/ /\ ~CanSave(w) /\ task' = Written(task)
                  /\ UNCHANGED <<doc, copies>>
                  /\ Goto(w, "threw")

(* The model chooses a tool; the cancellation is looked for once more      *)
StartTool(w) ==
    /\ pc[w] = "decide" /\ RunStep(w)
    /\ \/ /\ ~cancel /\ Save(w, On(doc[w], "TOOL_STARTED"))
          /\ Goto(w, "tool") /\ UNCHANGED <<tries, turns>>
       \/ CanSave(w) /\ Finalize(w)
       \/ Stale(w)

(* The tool is called, and its output observed *)
Observe(w) ==
    /\ pc[w] = "tool" /\ RunStep(w)
    /\ \/ LET seen == On(doc[w], "TOOL_OBSERVED") IN
          /\ SaveTwice(w, seen, On(seen, "TOOL_VERIFIED"))
          /\ Goto(w, "verify") /\ UNCHANGED <<tries, turns>>
       \/ IterationFails(w, "top")
       \/ Stale(w)

(* The verification of the output succeeds; the loop goes on *)
Verified(w) ==
    /\ pc[w] = "verify" /\ RunStep(w)
    /\ \/ LET ok == On(doc[w], "STEP_COMPLETED") IN
          /\ SaveTwice(w, ok, WithTries(ok, "executing", tries[w]))
          /\ Goto(w, "top") /\ UNCHANGED <<tries, turns>>
       \/ Stale(w)

(* It fails; no event of the state machine says so while the budget lasts *)
NotVerified(w) ==
    /\ pc[w] = "verify" /\ RunStep(w)
    /\ \/ LET n == More(tries[w])
              failed == Failed(doc[w], More(doc[w].retries))
          IN  /\ IF Budgeted(n)
                 THEN Save(w, WithTries(doc[w], "executing", n))
                 ELSE SaveAll(w, On(failed, "ERROR_FATAL"))
              /\ tries' = [tries EXCEPT ![w] = n]
              /\ Goto(w, IF Budgeted(n) THEN "top" ELSE "returned")
              /\ UNCHANGED turns
       \/ Stale(w)

(* What a worker remembers of a run ends with it *)
Forget(w) ==
    /\ job' = [job EXCEPT ![w] = NoJob]
    /\ doc' = [doc EXCEPT ![w] = NewTask]
    /\ fresh' = [fresh EXCEPT ![w] = FALSE]
    /\ tries' = [tries EXCEPT ![w] = 0]
    /\ turns' = [turns EXCEPT ![w] = 0]
    /\ Goto(w, "idle")

(* The lease is given back; the event is done, or tried again when the run *)
(* threw or a heartbeat found the lease lost                               *)
Release(w) ==
    /\ pc[w] \in {"returned", "threw"}
    /\ \E outcome \in {"done", "pending"} :
        /\ pc[w] = "threw" => outcome = "pending"
        /\ pc[w] = "returned" /\ owner = w => outcome = "done"
        /\ queue' = [queue EXCEPT ![job[w]] = outcome]
    /\ IF owner = w THEN owner' = Nobody /\ live' = FALSE ELSE UNCHANGED <<owner, live>>
    /\ Forget(w)
    /\ UNCHANGED <<taskVars, beats, read, scan, stuck, mishaps>>

Run(w) ==
    \/ Preflight(w) \/ Start(w) \/ Begin(w) \/ Iterate(w) \/ Exhaust(w) \/ Abort(w)
    \/ Achieve(w) \/ Complete(w) \/ Clarify(w) \/ ModelFails(w) \/ StartTool(w)
    \/ Observe(w) \/ Verified(w) \/ NotVerified(w) \/ Release(w)

-----------------------------------------------------------------------------
(* Time, and workers that die *)

DueComes ==
    /\ due = "later" /\ due' = "past"
    /\ UNCHANGED <<task, cancel, leaseVars, runVars, queue, scan, pc, job, stuck, mishaps>>

LeaseRunsOut ==
    /\ live /\ live' = FALSE
    /\ \/ owner = Gone /\ UNCHANGED mishaps
       \/ owner \in Worker /\ Mishap("slow")
    /\ UNCHANGED <<taskVars, owner, beats, runVars, queue, scan, pc, job, stuck>>

HeartbeatAges ==
    /\ beats = "fresh" /\ ~live /\ beats' = "old"
    /\ UNCHANGED <<taskVars, owner, live, runVars, queue, scan, pc, job, stuck, mishaps>>

(* A worker dies and comes back under a new id; the outbox hands out the   *)
(* event it had taken again                                                *)
Crash(w) ==
    /\ pc[w] # "idle" \/ stuck[w] > 0 \/ scan[w] # NoScan
    /\ Mishap("crash")
    /\ queue' = IF job[w] = NoJob THEN queue ELSE [queue EXCEPT ![job[w]] = "pending"]
    /\ owner' = IF owner = w THEN Gone ELSE owner
    /\ stuck' = [stuck EXCEPT ![w] = 0]
    /\ scan' = [scan EXCEPT ![w] = NoScan]
    /\ read' = [read EXCEPT ![w] = {}]
    /\ Forget(w)
    /\ UNCHANGED <<taskVars, live, beats>>

-----------------------------------------------------------------------------
(* runRetryScannerOnce, on worker w *)

WithLife(t, l) == At(l, t.status, t.kind, t.retries)

(* RETRY_CANDIDATE_FILTER *)
IsCandidate == task.life = "retry_scheduled" /\ due = "past" /\ ~Leased
CandidateKey == RetryKey(task.retries)

ScanStep == UNCHANGED <<due, cancel, leaseVars, doc, tries, turns, pc, job, stuck, mishaps>>

(* Without transactions the claim is stored before the event ... *)
Claim(w) ==
    /\ ~txn /\ scan[w] = NoScan /\ IsCandidate
    /\ task' = WithLife(task, "ready")
    /\ scan' = [scan EXCEPT ![w] = <<"claimed", task.retries>>]
    /\ ScanStep /\ UNCHANGED <<queue, copies>>

ClaimedKey(w) == RetryKey(scan[w][2])

(* ... and undone when there is an event with the same key *)
Enqueue(w) ==
    /\ scan[w][1] = "claimed"
    /\ \/ /\ queue[ClaimedKey(w)] = "none"
          /\ queue' = [queue EXCEPT ![ClaimedKey(w)] = "pending"]
          /\ scan' = [scan EXCEPT ![w] = <<"enqueued", 0>>] /\ UNCHANGED task
       \/ /\ queue[ClaimedKey(w)] # "none"
          /\ task' = IF task.life = "ready" THEN WithLife(task, "retry_scheduled")
                     ELSE task
          /\ scan' = [scan EXCEPT ![w] = NoScan] /\ UNCHANGED queue
    /\ ScanStep /\ UNCHANGED copies

(* emitRetryDueShadowState: t after RETRY_DUE, which stores no status *)
AfterDue(t) ==
    LET k == FSM!Reduce(t.kind, "RETRY_DUE") IN
    IF k = t.kind THEN t ELSE At(FSM!LifeOf(k), t.status, k, t.retries)

(* It reads the task ... *)
ReadDue(w) ==
    /\ scan[w][1] = "enqueued"
    /\ \/ /\ AfterDue(task) # task
          /\ read' = [read EXCEPT ![w] = {task}]
          /\ scan' = [scan EXCEPT ![w] = <<"due", 0>>]
       \/ /\ AfterDue(task) = task
          /\ scan' = [scan EXCEPT ![w] = NoScan] /\ UNCHANGED read
    /\ ScanStep /\ UNCHANGED <<task, fresh, queue>>

(* ... and saves it; when somebody has saved the task in between, the      *)
(* error is logged and RETRY_DUE is lost                                   *)
SaveDue(w) ==
    /\ scan[w][1] = "due"
    /\ \/ \E t \in read[w] : SaveRead(Merged(task, t, AfterDue(t)))
       \/ read[w] = {} /\ UNCHANGED <<task, copies>>
    /\ scan' = [scan EXCEPT ![w] = NoScan]
    /\ ScanStep /\ UNCHANGED queue

(* With transactions claim and event are stored at once.  The save of      *)
(* RETRY_DUE is not part of the transaction: it waits for the transaction  *)
(* that has claimed the task and waits for it.  The database ends the      *)
(* transaction, and with it claim and event; the save goes through; and    *)
(* the second attempt of the transaction finds no candidate any more.      *)
Promote ==
    /\ txn /\ IsCandidate
    /\ queue[CandidateKey] = "none"
    /\ IF AfterDue(task) # task
       THEN SaveRead(AfterDue(task)) /\ UNCHANGED queue
       ELSE /\ task' = WithLife(task, "ready") /\ UNCHANGED copies
            /\ queue' = [queue EXCEPT ![CandidateKey] = "pending"]
    /\ ScanStep /\ UNCHANGED scan

Scan == Promote \/ \E w \in Worker : Claim(w) \/ Enqueue(w) \/ ReadDue(w) \/ SaveDue(w)

-----------------------------------------------------------------------------
(* detectStuckTasksOnce, on worker w *)

LooksStuck == task.life = "executing" /\ ~cancel /\ beats = "old"

DetectStuck(w) ==
    /\ LooksStuck /\ stuck[w] = 0
    /\ owner' = Nobody /\ live' = FALSE
    /\ \/ /\ remedy = "fail"
          /\ task' = Failed(task, task.retries)
          /\ UNCHANGED stuck
       \/ /\ remedy = "retry"
          /\ stuck' = [stuck EXCEPT ![w] = More(task.retries)]
          /\ UNCHANGED task
    /\ UNCHANGED <<due, cancel, beats, runVars, queue, scan, pc, job, mishaps>>

(* scheduleTaskRetry with the task as it was claimed *)
RetryStuck(w) ==
    /\ stuck[w] > 0
    /\ IF Budgeted(stuck[w])
       THEN task' = Rescheduled(task, stuck[w]) /\ due' = "later"
       ELSE task' = Failed(task, stuck[w]) /\ UNCHANGED due
    /\ stuck' = [stuck EXCEPT ![w] = 0]
    /\ UNCHANGED <<cancel, leaseVars, runVars, queue, scan, pc, job, mishaps>>

-----------------------------------------------------------------------------
Step ==
    \/ \E k \in Key : Request(k)
    \/ RequestCancel
    \/ \E w \in Worker : Ingress(w) \/ Run(w) \/ Crash(w) \/ DetectStuck(w) \/ RetryStuck(w)
    \/ DueComes \/ LeaseRunsOut \/ HeartbeatAges
    \/ Scan
Next == Step /\ UNCHANGED config

Spec == Init /\ [][Next]_vars

-----------------------------------------------------------------------------
(* Properties *)

(* Two processes that write a task at the same time cannot take it where   *)
(* neither of them would have: every change of the stored state is one     *)
(* that the state machine makes from the state that was stored, for every  *)
(* interleaving of runs, requests, cancellation, scanner and detector and  *)
(* every mishap.  (optimisticConcurrency in Task.ts, and every writer of   *)
(* executionState going through task.save())                               *)
FollowsFSM == FSM!Spec

(* A run that may still save, and a scanner that may still save RETRY_DUE, *)
(* hold the state that is stored, whatever was written past the version in *)
(* the meantime                                                            *)
FreshKnowsKind ==
    \A w \in Worker : /\ fresh[w] => doc[w].kind = task.kind
                      /\ \A t \in read[w] : t.kind = task.kind

(* None of the mishaps F has happened, and the detector does not schedule  *)
(* what it claimed before                                                  *)
Without(F) == (\A i \in DOMAIN mishaps : mishaps[i] \notin F) /\ remedy # "retry"

(* A retry is scheduled within the budget of the task, although the loop,  *)
(* scheduleTaskRetry and the projection of the state machine each keep a   *)
(* count or a lifecycle of their own, and whatever dies, is told too late  *)
(* or overtakes the scanner: unless a run has lost its lease, or somebody  *)
(* has judged a request under a run.                                       *)
RetryWithinBudget ==
    Without({"slow", "refuse"}) /\ task.life = "retry_scheduled" => task.retries <= MaxRetries

(* A retry the scanner would claim has not been run before: the key of its *)
(* event, which is made of the count alone, has not been used for another  *)
(* one, upon which the claim would be undone in every round, for ever.     *)
(* Crashes break this, since a run that is repeated from an earlier count  *)
(* reaches the count again, and so does a request that is taken up before  *)
(* a scanner has saved RETRY_DUE: a save in between makes that one fail,   *)
(* and the failure is swallowed (see the README).                          *)
(* (enqueueRetryForCandidate, emitRetryDueShadowState, scheduleTaskRetry)  *)
RetryKeyIsUnused ==
    Without({"crash", "slow", "refuse", "overtake"}) =>
        (IsCandidate /\ (\A w \in Worker : scan[w] = NoScan) => queue[CandidateKey] = "none")

(* Nothing that was under way takes a task back from a cancellation that   *)
(* is final, no run, no retry, no request, whatever worker died: unless    *)
(* a run has lost its lease and does not know it yet.  The detector in its *)
(* mode "retry" may: it schedules what it has claimed before, and so may a *)
(* second one. (finalizeTaskCancellation against every other writer)       *)
CancelIsFinal ==
    [][task.kind = "cancelled" /\ Without({"slow"})' =>
       UNCHANGED <<task.life, task.status>>]_vars
=============================================================================
