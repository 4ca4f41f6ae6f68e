---------------------------- MODULE ExecutionRun ----------------------------
(***************************************************************************)
(* The runs of one task: the lease that keeps workers apart, its heartbeat *)
(* and its abort signal, and the reservation that is to keep a tool call   *)
(* from being made twice when they fail to.                                *)
(*                                                                         *)
(* The lease is two fields of the task, a reservation is a row of          *)
(* TaskAction; every statement on them is one action. What a run decides   *)
(* to call is left open: the model that plans it is asked again in every   *)
(* run, and the key of a call depends on the task, the step, the tool and  *)
(* the parameters only.                                                    *)
(***************************************************************************)
EXTENDS Naturals, FiniteSets

CONSTANTS
    Worker,
    Nobody,       \* the owner of a free lease
    Gone,         \* the id of a process that has died: a restarted worker has a new one
    Call,         \* tool calls, by their idempotencyKey
    NoCall,
    Loops,        \* which runner may be configured: "autonomous", "persistent"
    MaxEffects,   \* effects of a call are counted up to here
    MaxMishaps,   \* bound on the mishaps of a behaviour
    FaultSets     \* the sets of mishaps and failures a behaviour may be subject to

(***************************************************************************)
(* Mishaps, which are bounded:                                             *)
(* "crash"      a worker's process dies                                    *)
(* "slow"       a heartbeat comes so late that a lease in use runs out     *)
(* "db"         the statement of a heartbeat fails                         *)
(* "release"    the statement that gives the lease back fails              *)
(* "throw"      a run throws for another reason                            *)
(* Failures, which are not:                                                *)
(* "timeout"    a tool call is cut off by its timeout                      *)
(* "prepare"    resolving the parameters or reading the reservation throws *)
(* "books"      the statement that records the result fails                *)
(* "reply"      a tool has its effect and yet reports a failure            *)
(* "disconnect" the connection is down while the key is computed           *)
(***************************************************************************)
FaultKinds == {"crash", "slow", "db", "release", "throw",
               "timeout", "prepare", "books", "reply", "disconnect"}

ASSUME RunAssumption ==
    /\ Nobody \notin Worker
    /\ Gone \notin Worker /\ Gone # Nobody
    /\ NoCall \notin Call
    /\ Loops \subseteq {"autonomous", "persistent"}
    /\ MaxEffects \in Nat \ {0}
    /\ MaxMishaps \in Nat
    /\ FaultSets \subseteq SUBSET FaultKinds

VARIABLES
    loop,     \* TASK_AGENT_PERSISTENT_LOOP_ENABLED
    faults,   \* which mishaps and failures there may be
    work,     \* whether an event asks for a run of the task: "queued" or "done"
    owner,    \* task.leaseOwner
    live,     \* task.leaseExpiresAt lies in the future
    row,      \* row[c]: executionState of the reservation of c, or "absent"
    effects,  \* history: how often the tool did what c asks for
    pc,       \* pc[w]: where worker w is
    call,     \* call[w]: the tool call it is about
    keyed,    \* keyed[w]: the call has an idempotencyKey
    got,      \* got[w]: what w has read of the row, the result of its call, or of its run
    lost,     \* lost[w]: heartbeatLost, with which the run is aborted
    mishaps

setting == <<loop, faults>>
lease == <<owner, live>>
books == <<row, effects>>
worker == <<pc, call, keyed, got, lost>>
vars == <<setting, work, lease, books, worker, mishaps>>

RowStates == {"absent", "running", "succeeded", "failed"}

Points == {"idle", "loop", "refused", "prepare", "reserve", "call", "called", "settle",
           "spoil", "gaveup", "leaving", "release"}

(* Types of all variables.                                                   *)
TypeOK ==
    /\ loop \in Loops
    /\ faults \in FaultSets
    /\ work \in {"queued", "done"}
    /\ owner \in Worker \cup {Nobody, Gone}
    /\ live \in BOOLEAN
    /\ row \in [Call -> RowStates]
    /\ effects \in [Call -> 0..MaxEffects]
    /\ pc \in [Worker -> Points]
    /\ call \in [Worker -> Call \cup {NoCall}]
    /\ keyed \in [Worker -> BOOLEAN]
    /\ got \in [Worker -> RowStates \cup {"none", "return", "throw"}]
    /\ lost \in [Worker -> BOOLEAN]
    /\ mishaps \in 0..MaxMishaps

Init ==
    /\ loop \in Loops
    /\ faults \in FaultSets
    /\ work = "queued"
    /\ owner = Nobody
    /\ live = FALSE
    /\ row = [c \in Call |-> "absent"]
    /\ effects = [c \in Call |-> 0]
    /\ pc = [w \in Worker |-> "idle"]
    /\ call = [w \in Worker |-> NoCall]
    /\ keyed = [w \in Worker |-> TRUE]
    /\ got = [w \in Worker |-> "none"]
    /\ lost = [w \in Worker |-> FALSE]
    /\ mishaps = 0

Goto(w, where) == pc' = [pc EXCEPT ![w] = where]

Get(w, what) == got' = [got EXCEPT ![w] = what]

(* Where the worker goes when it has nothing to do with a call any more       *)
Drop(w, where) ==
    /\ Goto(w, where)
    /\ call' = [call EXCEPT ![w] = NoCall]
    /\ keyed' = [keyed EXCEPT ![w] = TRUE]
    /\ Get(w, "none")

Mishap(f) ==
    /\ f \in faults
    /\ mishaps < MaxMishaps
    /\ mishaps' = mishaps + 1

-----------------------------------------------------------------------------
(* The lease                                                                 *)

(* A run of fn under the lease, until its finally clears the timer           *)
Running(w) == pc[w] \notin {"idle", "release"}

Renews(w) == Running(w) /\ ~lost[w]

(* variant: a lease that has run out is not taken over                       *)
AcquireFree(w) ==
    /\ pc[w] = "idle"
    /\ work = "queued"
    /\ owner \in {Nobody, w}
    /\ owner' = w
    /\ live' = TRUE
    /\ lost' = [lost EXCEPT ![w] = FALSE]
    /\ Goto(w, "loop")
    /\ UNCHANGED <<setting, work, books, call, keyed, got, mishaps>>

(* acquireExecutionLease; a worker that finds the lease busy defers its event *)
Acquire(w) ==
    /\ pc[w] = "idle"
    /\ work = "queued"
    /\ owner \in {Nobody, w} \/ ~live
    /\ owner' = w
    /\ live' = TRUE
    /\ lost' = [lost EXCEPT ![w] = FALSE]
    /\ Goto(w, "loop")
    /\ UNCHANGED <<setting, work, books, call, keyed, got, mishaps>>

(* A heartbeat that finds the lease renews it, which live stands for.        *)
LeaseRunsOut ==
    /\ live
    /\ owner \in Worker => ~Renews(owner)
    /\ live' = FALSE
    /\ UNCHANGED <<setting, work, owner, books, worker, mishaps>>

LeaseRunsOutInUse ==
    /\ live
    /\ owner \in Worker /\ Renews(owner)
    /\ Mishap("slow")
    /\ live' = FALSE
    /\ UNCHANGED <<setting, work, owner, books, worker>>

HeartbeatFindsNoLease(w) ==
    /\ Renews(w)
    /\ owner # w \/ ~live
    /\ lost' = [lost EXCEPT ![w] = TRUE]
    /\ UNCHANGED <<setting, work, lease, books, pc, call, keyed, got, mishaps>>

HeartbeatFails(w) ==
    /\ Renews(w)
    /\ Mishap("db")
    /\ lost' = [lost EXCEPT ![w] = TRUE]
    /\ UNCHANGED <<setting, work, lease, books, pc, call, keyed, got>>

(* The run is over; heartbeatLost is looked at once, and the timer cleared.  *)
Leave(w) ==
    /\ pc[w] \in {"loop", "refused", "gaveup", "leaving"}
    /\ pc[w] \in {"loop", "refused"} => loop = "autonomous"
    /\ Goto(w, "release")
    /\ Get(w, IF lost[w] THEN "throw" ELSE "return")
    /\ call' = [call EXCEPT ![w] = NoCall]
    /\ keyed' = [keyed EXCEPT ![w] = TRUE]
    /\ UNCHANGED <<setting, work, lease, books, lost, mishaps>>

Throw(w) ==
    /\ pc[w] \in {"loop", "refused"}
    /\ Mishap("throw")
    /\ Goto(w, "release")
    /\ Get(w, "throw")
    /\ call' = [call EXCEPT ![w] = NoCall]
    /\ keyed' = [keyed EXCEPT ![w] = TRUE]
    /\ UNCHANGED <<setting, work, lease, books, lost>>

(* variant: the lease is given back whoever has it                           *)
ReleaseAnyone(w) ==
    /\ pc[w] = "release"
    /\ owner' = Nobody
    /\ live' = FALSE
    /\ work' = IF got[w] = "throw" THEN "queued" ELSE "done"
    /\ Drop(w, "idle")
    /\ UNCHANGED <<setting, books, lost, mishaps>>

(* releaseTaskLease; an event whose run threw is tried again                 *)
Release(w) ==
    /\ pc[w] = "release"
    /\ IF owner = w THEN owner' = Nobody /\ live' = FALSE
       ELSE UNCHANGED lease
    /\ work' = IF got[w] = "throw" THEN "queued" ELSE "done"
    /\ Drop(w, "idle")
    /\ UNCHANGED <<setting, books, lost, mishaps>>

ReleaseFails(w) ==
    /\ pc[w] = "release"
    /\ Mishap("release")
    /\ work' = "queued"
    /\ Drop(w, "idle")
    /\ UNCHANGED <<setting, lease, books, lost>>

(* runTaskPersistent begins every iteration with a heartbeat of its own,     *)
(* under the id of AgentContext. The lease was taken under WORKER_ID, which  *)
(* contains a random part, so that heartbeat never finds it.                 *)
GiveUp(w) ==
    /\ pc[w] = "loop"
    /\ loop = "persistent"
    /\ Goto(w, "gaveup")
    /\ UNCHANGED <<setting, work, lease, books, call, keyed, got, lost, mishaps>>

-----------------------------------------------------------------------------
(* A tool call: ToolExecutor.execute                                         *)

(* variant: the result of an earlier call is not looked at                   *)
LookupIgnoresSuccess(w, c) ==
    /\ pc[w] \in {"loop", "refused"}
    /\ loop = "autonomous"
    /\ call' = [call EXCEPT ![w] = c]
    /\ keyed' = [keyed EXCEPT ![w] = TRUE]
    /\ Goto(w, IF row[c] = "running" THEN "refused" ELSE "prepare")
    /\ UNCHANGED <<setting, work, lease, books, got, lost, mishaps>>

(* lookupIdempotentToolExecution. A call that has succeeded is answered with *)
(* its summary, and nothing changes; one that is running is refused.         *)
Lookup(w, c) ==
    /\ pc[w] \in {"loop", "refused"}
    /\ loop = "autonomous"
    /\ row[c] # "succeeded"
    /\ call' = [call EXCEPT ![w] = c]
    /\ keyed' = [keyed EXCEPT ![w] = TRUE]
    /\ Goto(w, IF row[c] = "running" THEN "refused" ELSE "prepare")
    /\ UNCHANGED <<setting, work, lease, books, got, lost, mishaps>>

(* Without a connection there is no key, and without a key neither the       *)
(* lookup nor the reservation looks at anything.                             *)
SkipLookup(w, c) ==
    /\ "disconnect" \in faults
    /\ pc[w] \in {"loop", "refused"}
    /\ loop = "autonomous"
    /\ call' = [call EXCEPT ![w] = c]
    /\ keyed' = [keyed EXCEPT ![w] = FALSE]
    /\ Goto(w, "call")
    /\ UNCHANGED <<setting, work, lease, books, got, lost, mishaps>>

(* reserveIdempotentToolExecution reads the row again,                       *)
ReadReservation(w) ==
    /\ pc[w] = "prepare"
    /\ CASE row[call[w]] = "running" -> Goto(w, "refused") /\ UNCHANGED <<call, keyed, got>>
         [] row[call[w]] = "succeeded" -> Drop(w, "loop")
         [] OTHER -> /\ Goto(w, "reserve")
                     /\ Get(w, row[call[w]])
                     /\ UNCHANGED <<call, keyed>>
    /\ UNCHANGED <<setting, work, lease, books, lost, mishaps>>

(* variant: the reservation is taken whatever became of the row              *)
ReserveUnconditionally(w) ==
    /\ pc[w] = "reserve"
    /\ row' = [row EXCEPT ![call[w]] = "running"]
    /\ Goto(w, "call")
    /\ Get(w, "none")
    /\ UNCHANGED <<setting, work, lease, effects, call, keyed, lost, mishaps>>

(* and inserts it, or sets it from failed to running; when the row is not    *)
(* any more what it was, it starts again.                                    *)
Reserve(w) ==
    /\ pc[w] = "reserve"
    /\ IF row[call[w]] = got[w]
       THEN row' = [row EXCEPT ![call[w]] = "running"] /\ Goto(w, "call")
       ELSE Goto(w, "prepare") /\ UNCHANGED row
    /\ Get(w, "none")
    /\ UNCHANGED <<setting, work, lease, effects, call, keyed, lost, mishaps>>

(* Parameters that cannot be resolved, a question to the user, the prompt    *)
(* guard or a lost connection end the call before it is made.                *)
Decline(w) ==
    /\ pc[w] \in {"prepare", "reserve"}
    /\ Drop(w, "loop")
    /\ UNCHANGED <<setting, work, lease, books, lost, mishaps>>

(* Whatever throws before the call was made ends in the same handler: an     *)
(* aborted run throws on, any other has the call recorded as failed.         *)
PrepareFails(w) ==
    /\ "prepare" \in faults
    /\ pc[w] \in {"prepare", "reserve"}
    /\ IF lost[w] THEN Drop(w, "leaving")
       ELSE Goto(w, "spoil") /\ Get(w, "none") /\ UNCHANGED <<call, keyed>>
    /\ UNCHANGED <<setting, work, lease, books, lost, mishaps>>

(* The tool does what it is asked for. A tool looks at the signal first; the  *)
(* effect of a request that is under way when the signal comes is the same   *)
(* as one just before it.                                                    *)
Effect(w) ==
    /\ pc[w] = "call"
    /\ ~lost[w]
    /\ effects' = [effects EXCEPT ![call[w]] = IF @ < MaxEffects THEN @ + 1 ELSE @]
    /\ Goto(w, "called")
    /\ UNCHANGED <<setting, work, lease, row, call, keyed, got, lost, mishaps>>

ToolFails(w) ==
    /\ pc[w] = "call" \/ (pc[w] = "called" /\ "reply" \in faults)
    /\ Goto(w, "settle")
    /\ Get(w, "failed")
    /\ UNCHANGED <<setting, work, lease, books, call, keyed, lost, mishaps>>

ToolSucceeds(w) ==
    /\ pc[w] = "called"
    /\ Goto(w, "settle")
    /\ Get(w, "succeeded")
    /\ UNCHANGED <<setting, work, lease, books, call, keyed, lost, mishaps>>

(* variant: an aborted call frees its reservation for the next attempt       *)
AbortFreesReservation(w) ==
    /\ pc[w] \in {"call", "called"}
    /\ lost[w] \/ "timeout" \in faults
    /\ row' = IF keyed[w] THEN [row EXCEPT ![call[w]] = "failed"] ELSE row
    /\ Drop(w, "leaving")
    /\ UNCHANGED <<setting, work, lease, effects, lost, mishaps>>

(* The call is cut off, before or after its effect; the row is left as it is. *)
Abort(w) ==
    /\ pc[w] \in {"call", "called"}
    /\ lost[w] \/ "timeout" \in faults
    /\ Drop(w, "leaving")
    /\ UNCHANGED <<setting, work, lease, books, lost, mishaps>>

(* variant: what the tool reports is not looked at                           *)
SettleAsSucceeded(w) ==
    /\ pc[w] = "settle"
    /\ row' = IF keyed[w] THEN [row EXCEPT ![call[w]] = "succeeded"] ELSE row
    /\ Drop(w, "loop")
    /\ UNCHANGED <<setting, work, lease, effects, lost, mishaps>>

(* finalizeIdempotentToolExecution, by key alone                             *)
Settle(w) ==
    /\ pc[w] = "settle"
    /\ row' = IF keyed[w] THEN [row EXCEPT ![call[w]] = got[w]] ELSE row
    /\ Drop(w, "loop")
    /\ UNCHANGED <<setting, work, lease, effects, lost, mishaps>>

(* variant: a state of its own for a call that was never made                *)
SpoilAsSkipped(w) ==
    /\ pc[w] = "spoil"
    /\ row' = [row EXCEPT ![call[w]] = IF @ = "absent" THEN @ ELSE "skipped"]
    /\ Drop(w, "loop")
    /\ UNCHANGED <<setting, work, lease, effects, lost, mishaps>>

(* the same update for a call that was not made; it inserts nothing          *)
Spoil(w) ==
    /\ pc[w] = "spoil"
    /\ row' = [row EXCEPT ![call[w]] = IF @ = "absent" THEN @ ELSE "failed"]
    /\ Drop(w, "loop")
    /\ UNCHANGED <<setting, work, lease, effects, lost, mishaps>>

(* bookkeeping_indeterminate: logged, and the result is used all the same    *)
SettleFails(w) ==
    /\ "books" \in faults
    /\ pc[w] \in {"settle", "spoil"}
    /\ Drop(w, "loop")
    /\ UNCHANGED <<setting, work, lease, books, lost, mishaps>>

-----------------------------------------------------------------------------
(* The environment                                                           *)

(* A retry, an approval or a request of a manager asks for another run.      *)
NewWork ==
    /\ work = "done"
    /\ work' = "queued"
    /\ UNCHANGED <<setting, lease, books, worker, mishaps>>

Crash(w) ==
    /\ pc[w] # "idle"
    /\ Mishap("crash")
    /\ owner' = IF owner = w THEN Gone ELSE owner
    /\ work' = "queued"
    /\ lost' = [lost EXCEPT ![w] = FALSE]
    /\ Drop(w, "idle")
    /\ UNCHANGED <<setting, live, books>>

-----------------------------------------------------------------------------

CallStep(w) ==
    \/ \E c \in Call : Lookup(w, c) \/ SkipLookup(w, c)
    \/ ReadReservation(w) \/ Reserve(w) \/ Decline(w) \/ PrepareFails(w)
    \/ Effect(w) \/ ToolFails(w) \/ ToolSucceeds(w) \/ Abort(w)
    \/ Settle(w) \/ Spoil(w) \/ SettleFails(w)

LeaseStep(w) ==
    \/ Acquire(w) \/ HeartbeatFindsNoLease(w)
    \/ GiveUp(w) \/ Leave(w) \/ Release(w)

MishapStep(w) == HeartbeatFails(w) \/ Throw(w) \/ ReleaseFails(w) \/ Crash(w)

Next ==
    \/ NewWork \/ LeaseRunsOut \/ LeaseRunsOutInUse
    \/ \E w \in Worker : CallStep(w) \/ LeaseStep(w) \/ MishapStep(w)

Spec == Init /\ [][Next]_vars

(* Time goes on, workers run on, and a run ends: the number of iterations of *)
(* a loop is limited (agentMaxIterationsPlan), so it leaves it some time.    *)
Fairness ==
    /\ WF_vars(LeaseRunsOut)
    /\ \A w \in Worker : WF_vars(CallStep(w) \/ LeaseStep(w)) /\ SF_vars(Leave(w))

FairSpec == Spec /\ Fairness

-----------------------------------------------------------------------------
(* Properties                                                                *)

(* A worker that holds a reservation and has not written its result          *)
InFlight(w) == pc[w] \in {"call", "called", "settle"}

(* What the reservation alone has to cope with: a call has a key, and either *)
(* nothing throws between the lookup and the reservation, or no run loses    *)
(* its lease unawares.                                                       *)
Guarded ==
    /\ "disconnect" \notin faults
    /\ "prepare" \notin faults \/ faults \cap {"slow", "db"} = {}

(* A worker that has not been told otherwise has the lease; so two workers   *)
(* run a task together only when one of them has been told to stop, or its   *)
(* heartbeat is late. (acquireExecutionLease, heartbeatTaskLease,            *)
(* releaseTaskLease)                                                         *)
LeaseExcludes ==
    "slow" \notin faults =>
        \A w \in Worker : Renews(w) => owner = w /\ live

(* Two workers are never in the same call together, even when both run the   *)
(* task. (reserveIdempotentToolExecution: the unique key, the condition on   *)
(* executionState)                                                           *)
OneReservation ==
    Guarded =>
        \A v, w \in Worker :
            InFlight(v) /\ InFlight(w) /\ v # w => call[v] # call[w]

(* A call has its effect once, however many runs, takeovers, crashes and     *)
(* timeouts there are, unless a tool reports a failure after the fact.       *)
(* (buildToolIdempotencyKey, reserveIdempotentToolExecution)                 *)
EffectAtMostOnce ==
    Guarded /\ "reply" \notin faults => \A c \in Call : effects[c] <= 1

(* A call that is recorded as succeeded, and replayed as such from then on,  *)
(* was made. (finalizeIdempotentToolExecution)                               *)
SuccessIsReal == \A c \in Call : row[c] = "succeeded" => effects[c] > 0

(* The result of a call that succeeded is kept for replay, whoever still has *)
(* the call in hand. (finalizeIdempotentToolExecution, by key alone)         *)
SucceededIsFinal ==
    [][Guarded => \A c \in Call : row[c] = "succeeded" => row'[c] = "succeeded"]_vars

(* Work is not left lying by a worker that dies or loses its lease.          *)
(* (acquireExecutionLease: a lease that has run out is free)                 *)
WorkIsDone == work = "queued" ~> work = "done"

(* Duplicate side effects are suppressed across the handoff of a lease.      *)
(* (docs/ARCHITECTURE.md)                                                    *)
NoDuplicateEffect == \A c \in Call : effects[c] <= 1

(* A run that gives up because its lease is lost has lost it.                *)
(* (runTaskPersistent, lease:lost)                                           *)
GaveUpForAReason ==
    \A w \in Worker : pc[w] = "gaveup" => lost[w] \/ owner # w \/ ~live

=============================================================================
