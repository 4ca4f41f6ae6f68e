------------------------------- MODULE Outbox -------------------------------
(***************************************************************************)
(* The transactional outbox: the collection of events, the update          *)
(* statements the task worker issues against it, and the worker's claim    *)
(* loop with its processed marker and its graceful shutdown.               *)
(*                                                                         *)
(* Every database statement and every Redis command is one step; between   *)
(* two of them anything may happen, in particular the shutdown timer of    *)
(* the same process, which runs next to the loop.                          *)
(***************************************************************************)
EXTENDS Integers, FiniteSets

CONSTANTS
    Event,        \* dedupe keys; the unique index makes each name one row
    Worker,       \* task-worker processes
    NoEvent,      \* "no event in progress"
    Nobody,       \* lockedBy: null
    Gone,         \* lockedBy: an id whose process has ended (ids are random, never reused)
    Deferrable,   \* task.execution.* events, the only ones that meet a busy lease
    Requeueable,  \* message.created events
    Share,        \* Share[w]: the events in the partition of w
    BatchSize,    \* events one claim call may take
    MaxAttempts,  \* OUTBOX_MAX_ATTEMPTS
    UseRedis,     \* is there a marker store
    Faults,       \* what the environment may do, a subset of FaultKinds
    MaxMishaps,   \* bound on the mishaps of a behaviour: deaths, overruns, expired
                  \* graces and failed releases
    MaxSuccesses  \* the history variable successes counts up to here

(***************************************************************************)
(* "crash"       a process dies at any point                               *)
(* "overrun"     a live worker keeps an event past the stale cutoff        *)
(* "graceExpiry" the shutdown timer fires while an event is in progress    *)
(* "dbError"     a database statement fails and has no effect              *)
(* "lostReply"   the completing update is applied and reported as failed   *)
(* "markerLost"  a marker is not written, or expires early                 *)
(***************************************************************************)
FaultKinds == {"crash", "overrun", "graceExpiry", "dbError", "lostReply", "markerLost"}

ASSUME OutboxAssumption ==
    /\ NoEvent \notin Event
    /\ Nobody \notin Worker /\ Gone \notin Worker /\ Nobody # Gone
    /\ Deferrable \subseteq Event
    /\ Requeueable \subseteq Event
    /\ Deferrable \cap Requeueable = {}
    /\ Share \in [Worker -> SUBSET Event]
    /\ BatchSize \in Nat \ {0}
    /\ MaxAttempts \in Nat \ {0}
    /\ UseRedis \in BOOLEAN
    /\ Faults \subseteq FaultKinds
    /\ MaxMishaps \in Nat
    /\ MaxSuccesses \in Nat \ {0}

VARIABLES
    ev,         \* ev[e]: the row of e
    older,      \* <<d, e>> \in older: row d was created before row e
    marker,     \* events with a processed marker in Redis
    pc,         \* pc[w]: where the loop of w is
    batch,      \* batch[w]: claimed and not finished (the `unfinished' set)
    seen,       \* seen[w][e]: the attempts in the row that w claimed
    cur,        \* cur[w]: the event in progress
    requested,  \* requested[w]: a stop signal has arrived
    fin,        \* fin[w]: progress of releaseAndExit
    toRelease,  \* toRelease[w]: rows releaseAndExit has still to hand back
    unreleased, \* history: unreleased[w]: those for which the statement has failed
    mishaps,    \* mishaps so far
    successes,  \* successes[e]: how often the handler of e has succeeded
    spent       \* spent[e]: claims of e that ended in an error or with their process

rows    == <<ev, older>>
loop    == <<pc, batch, seen, cur>>
stop    == <<requested, fin, toRelease, unreleased>>
history == <<successes, spent>>
vars    == <<rows, marker, loop, stop, mishaps, history>>

Statuses == {"absent", "pending", "processing", "completed", "failed", "dead_letter"}
Points   == {"off", "idle", "claim", "next", "check", "handle", "mark",
             "complete", "defer", "fail", "await"}

Row == [status: Statuses, attempts: Int, lockedBy: Worker \cup {Nobody, Gone},
        due: BOOLEAN, stale: BOOLEAN]

NoRow == [status |-> "absent", attempts |-> 0, lockedBy |-> Nobody,
          due |-> FALSE, stale |-> FALSE]

FreshRow == [status |-> "pending", attempts |-> 0, lockedBy |-> Nobody,
             due |-> TRUE, stale |-> FALSE]

Present(e) == ev[e].status # "absent"
Terminal   == {"completed", "dead_letter"}

TypeOK ==
    /\ ev \in [Event -> Row]
    /\ older \subseteq Event \X Event
    /\ marker \subseteq Event
    /\ pc \in [Worker -> Points]
    /\ batch \in [Worker -> SUBSET Event]
    /\ seen \in [Worker -> [Event -> Int]]
    /\ cur \in [Worker -> Event \cup {NoEvent}]
    /\ requested \in [Worker -> BOOLEAN]
    /\ fin \in [Worker -> {"none", "due", "release"}]
    /\ toRelease \in [Worker -> SUBSET Event]
    /\ unreleased \in [Worker -> SUBSET Event]
    /\ mishaps \in Nat
    /\ successes \in [Event -> Nat]
    /\ spent \in [Event -> Nat]

Init ==
    /\ ev = [e \in Event |-> NoRow]
    /\ older = {}
    /\ marker = {}
    /\ pc = [w \in Worker |-> "idle"]
    /\ batch = [w \in Worker |-> {}]
    /\ seen = [w \in Worker |-> [e \in Event |-> 0]]
    /\ cur = [w \in Worker |-> NoEvent]
    /\ requested = [w \in Worker |-> FALSE]
    /\ fin = [w \in Worker |-> "none"]
    /\ toRelease = [w \in Worker |-> {}]
    /\ unreleased = [w \in Worker |-> {}]
    /\ mishaps = 0
    /\ successes = [e \in Event |-> 0]
    /\ spent = [e \in Event |-> 0]

-----------------------------------------------------------------------------
(* The statements of outbox.service.ts, as functions from row to row.  An    *)
(* update addressed by _id does nothing when the row no longer exists.       *)

LockedBy(owner, row) == [row EXCEPT !.lockedBy = owner, !.stale = FALSE]

Unlocked(row) == LockedBy(Nobody, row)

ClaimedBy(w, row) ==
    [LockedBy(w, row) EXCEPT !.status = "processing", !.attempts = @ + 1]

Completed(row) == [Unlocked(row) EXCEPT !.status = "completed"]

(* variant: the failing update forgets the status                            *)
FailedKeepsStatus(row) == [Unlocked(row) EXCEPT !.due = FALSE]

Failed(row) == [Unlocked(row) EXCEPT !.status = "failed", !.due = FALSE]

(* variant: a busy lease costs an attempt                                    *)
DeferredKeepsAttempt(row) == Failed(row)

Deferred(row) == [Failed(row) EXCEPT !.attempts = @ - 1]

DeadLettered(row) == [Unlocked(row) EXCEPT !.status = "dead_letter"]

(* variant: the hand-over clears the lock fields by removing them             *)
HandedBackUntyped(row) ==
    [status |-> "failed", attempts |-> row.attempts - 1, due |-> TRUE, stale |-> FALSE]

HandedBack(row) == [Deferred(row) EXCEPT !.due = TRUE]

HeldBy(w, e) == ev[e].status = "processing" /\ ev[e].lockedBy = w

(* variant: the claim filter ignores the age of the lock                     *)
ClaimableLocked(w) ==
    {e \in Share[w] : \/ ev[e].status \in {"pending", "failed"} /\ ev[e].due
                      \/ ev[e].status = "processing"}

(* variant: the claim filter has no stale branch                             *)
ClaimableUnlocked(w) ==
    {e \in Share[w] : ev[e].status \in {"pending", "failed"} /\ ev[e].due}

(* buildOutboxClaimFilter                                                    *)
Claimable(w) ==
    {e \in Share[w] : \/ ev[e].status \in {"pending", "failed"} /\ ev[e].due
                      \/ ev[e].status = "processing" /\ ev[e].stale}

-----------------------------------------------------------------------------
(* Producers, the passage of time and the operators of the system.           *)

(* enqueueOutboxEvent; an existing row makes the insert fail on dedupeKey    *)
Enqueue(e) ==
    /\ ~Present(e)
    /\ ev' = [ev EXCEPT ![e] = FreshRow]
    /\ older' = older \cup {<<d, e>> : d \in {x \in Event : Present(x)}}
    /\ UNCHANGED <<marker, loop, stop, mishaps, history>>

Mishap == mishaps < MaxMishaps /\ mishaps' = mishaps + 1

(* availableAt passes                                                        *)
BecomeDue(e) ==
    /\ ev[e].status = "failed" /\ ~ev[e].due
    /\ ev' = [ev EXCEPT ![e].due = TRUE]
    /\ UNCHANGED <<older, marker, loop, stop, mishaps, history>>

(* five minutes pass since lockedAt                                          *)
BecomeStale(e) ==
    /\ ev[e].status = "processing" /\ ~ev[e].stale
    /\ \/ ev[e].lockedBy = Gone /\ UNCHANGED mishaps
       \/ "overrun" \in Faults /\ ev[e].lockedBy # Gone /\ Mishap
    /\ ev' = [ev EXCEPT ![e].stale = TRUE]
    /\ UNCHANGED <<older, marker, loop, stop, history>>

(* variant: every terminal row is requeued                                   *)
RequeueTerminal(e) ==
    /\ e \in Requeueable
    /\ ev[e].status \in Terminal
    /\ ev' = [ev EXCEPT ![e] = FreshRow]
    /\ spent' = [spent EXCEPT ![e] = 0]
    /\ UNCHANGED <<older, marker, loop, stop, mishaps, successes>>

(* requeueDeadLetteredMessageEvents, which updates each matching row         *)
Requeue(e) ==
    /\ e \in Requeueable
    /\ ev[e].status = "dead_letter"
    /\ ev' = [ev EXCEPT ![e] = FreshRow]
    /\ spent' = [spent EXCEPT ![e] = 0]
    /\ UNCHANGED <<older, marker, loop, stop, mishaps, successes>>

(* archiveTerminalOutboxEvents: fourteen days later no process still works   *)
(* on the event and its marker, kept for seven, has expired                  *)
Archive(e) ==
    /\ ev[e].status \in Terminal
    /\ \A w \in Worker : e \notin batch[w]
    /\ ev' = [ev EXCEPT ![e] = NoRow]
    /\ older' = {p \in older : p[1] # e /\ p[2] # e}
    /\ marker' = marker \ {e}
    /\ successes' = [successes EXCEPT ![e] = 0]
    /\ spent' = [spent EXCEPT ![e] = 0]
    /\ UNCHANGED <<loop, stop, mishaps>>

ExpireMarker(e) ==
    /\ "markerLost" \in Faults
    /\ e \in marker
    /\ marker' = marker \ {e}
    /\ UNCHANGED <<rows, loop, stop, mishaps, history>>

-----------------------------------------------------------------------------
(* The claim loop of run() and claimOutboxEvents.                            *)

Goto(w, p) == pc' = [pc EXCEPT ![w] = p]

StartClaim(w) ==
    /\ pc[w] = "idle" /\ ~requested[w]
    /\ Goto(w, "claim")
    /\ UNCHANGED <<rows, marker, batch, seen, cur, stop, mishaps, history>>

(* One findOneAndUpdate, oldest row first.  The stale cutoff is taken before *)
(* the loop, so a row claimed in this call is not claimed in it again.       *)
ClaimOne(w, e) ==
    /\ pc[w] = "claim"
    /\ Cardinality(batch[w]) < BatchSize
    /\ e \in Claimable(w) \ batch[w]
    /\ \A d \in Claimable(w) \ batch[w] : <<d, e>> \notin older
    /\ ev' = [ev EXCEPT ![e] = ClaimedBy(w, @)]
    /\ batch' = [batch EXCEPT ![w] = @ \cup {e}]
    /\ seen' = [seen EXCEPT ![w][e] = ev[e].attempts + 1]
    /\ UNCHANGED <<older, marker, pc, cur, stop, mishaps, history>>

EndClaim(w) ==
    /\ pc[w] = "claim"
    /\ Cardinality(batch[w]) = BatchSize \/ Claimable(w) \subseteq batch[w]
    /\ Goto(w, IF batch[w] = {} THEN "idle" ELSE "next")
    /\ UNCHANGED <<rows, marker, batch, seen, cur, stop, mishaps, history>>

(* The order in which the batch is walked is left open.                      *)
Take(w) ==
    /\ pc[w] = "next" /\ ~requested[w]
    /\ \E e \in batch[w] : cur' = [cur EXCEPT ![w] = e]
    /\ Goto(w, "check")
    /\ UNCHANGED <<rows, marker, batch, seen, stop, mishaps, history>>

EndBatch(w) ==
    /\ pc[w] = "next" /\ batch[w] = {}
    /\ Goto(w, "idle")
    /\ UNCHANGED <<rows, marker, batch, seen, cur, stop, mishaps, history>>

-----------------------------------------------------------------------------
(* processOutboxEventOnce                                                    *)

(* variant: the marker is written before the handler runs                    *)
ReadMarkerAndSet(w) ==
    /\ pc[w] = "check"
    /\ Goto(w, IF UseRedis /\ cur[w] \in marker THEN "complete" ELSE "handle")
    /\ marker' = marker \cup {cur[w]}
    /\ UNCHANGED <<rows, batch, seen, cur, stop, mishaps, history>>

(* variant: the marker is never consulted                                    *)
IgnoreMarker(w) ==
    /\ pc[w] = "check"
    /\ Goto(w, "handle")
    /\ UNCHANGED <<rows, marker, batch, seen, cur, stop, mishaps, history>>

ReadMarker(w) ==
    /\ pc[w] = "check"
    /\ Goto(w, IF UseRedis /\ cur[w] \in marker THEN "complete" ELSE "handle")
    /\ UNCHANGED <<rows, marker, batch, seen, cur, stop, mishaps, history>>

(* store.get rejects: the event takes the error path without being handled   *)
ReadMarkerFails(w) ==
    /\ pc[w] = "check" /\ UseRedis
    /\ "dbError" \in Faults
    /\ Goto(w, "fail")
    /\ UNCHANGED <<rows, marker, batch, seen, cur, stop, mishaps, history>>

HandlerSucceeds(w) ==
    /\ pc[w] = "handle"
    /\ Goto(w, IF UseRedis THEN "mark" ELSE "complete")
    /\ successes' = [successes EXCEPT ![cur[w]] = IF @ < MaxSuccesses THEN @ + 1 ELSE @]
    /\ UNCHANGED <<rows, marker, batch, seen, cur, stop, mishaps, spent>>

(* variant: the error of a handler is swallowed                              *)
HandlerErrorIgnored(w) ==
    /\ pc[w] = "handle"
    /\ Goto(w, "complete")
    /\ UNCHANGED <<rows, marker, batch, seen, cur, stop, mishaps, history>>

HandlerFails(w) ==
    /\ pc[w] = "handle"
    /\ Goto(w, "fail")
    /\ UNCHANGED <<rows, marker, batch, seen, cur, stop, mishaps, history>>

(* ExecutionLeaseBusyError                                                   *)
HandlerMeetsBusyLease(w) ==
    /\ pc[w] = "handle" /\ cur[w] \in Deferrable
    /\ Goto(w, "defer")
    /\ UNCHANGED <<rows, marker, batch, seen, cur, stop, mishaps, history>>

(* a failed write is logged and swallowed                                    *)
WriteMarker(w) ==
    /\ pc[w] = "mark"
    /\ \/ marker' = marker \cup {cur[w]}
       \/ "markerLost" \in Faults /\ marker' = marker
    /\ Goto(w, "complete")
    /\ UNCHANGED <<rows, batch, seen, cur, stop, mishaps, history>>

-----------------------------------------------------------------------------
(* The updates that settle an event, all addressed by _id alone, and the     *)
(* `finally' that forgets it.                                                *)

Put(e, row) == ev' = IF Present(e) THEN [ev EXCEPT ![e] = row] ELSE ev

Settle(w) ==
    /\ batch' = [batch EXCEPT ![w] = @ \ {cur[w]}]
    /\ seen' = [seen EXCEPT ![w][cur[w]] = 0]
    /\ cur' = [cur EXCEPT ![w] = NoEvent]
    /\ Goto(w, "next")

Complete(w) ==
    /\ pc[w] = "complete"
    /\ Put(cur[w], Completed(ev[cur[w]]))
    /\ Settle(w)
    /\ UNCHANGED <<older, marker, stop, mishaps, history>>

(* complete() rejects inside the try block and the event is marked failed    *)
CompleteFails(w) ==
    /\ pc[w] = "complete"
    /\ \/ "dbError" \in Faults /\ ev' = ev
       \/ "lostReply" \in Faults /\ Put(cur[w], Completed(ev[cur[w]]))
    /\ Goto(w, "fail")
    /\ UNCHANGED <<older, marker, batch, seen, cur, stop, mishaps, history>>

Defer(w) ==
    /\ pc[w] = "defer"
    /\ Put(cur[w], Deferred(ev[cur[w]]))
    /\ Settle(w)
    /\ UNCHANGED <<older, marker, stop, mishaps, history>>

Fail(w) ==
    /\ pc[w] = "fail" /\ seen[w][cur[w]] < MaxAttempts
    /\ Put(cur[w], Failed(ev[cur[w]]))
    /\ spent' = [spent EXCEPT ![cur[w]] = @ + 1]
    /\ Settle(w)
    /\ UNCHANGED <<older, marker, stop, mishaps, successes>>

DeadLetter(w) ==
    /\ pc[w] = "fail" /\ seen[w][cur[w]] >= MaxAttempts
    /\ Put(cur[w], DeadLettered(ev[cur[w]]))
    /\ spent' = [spent EXCEPT ![cur[w]] = @ + 1]
    /\ Settle(w)
    /\ UNCHANGED <<older, marker, stop, mishaps, successes>>

-----------------------------------------------------------------------------
(* createWorkerShutdown                                                      *)

RequestStop(w) ==
    /\ pc[w] # "off" /\ ~requested[w]
    /\ requested' = [requested EXCEPT ![w] = TRUE]
    /\ UNCHANGED <<rows, marker, loop, fin, toRelease, unreleased, mishaps, history>>

(* the loop notices the request and calls finish(), which is memoised        *)
LeaveLoop(w) ==
    /\ pc[w] \in {"idle", "next"} /\ requested[w]
    /\ Goto(w, "await")
    /\ fin' = [fin EXCEPT ![w] = IF @ = "none" THEN "due" ELSE @]
    /\ UNCHANGED <<rows, marker, batch, seen, cur, requested, toRelease, unreleased, mishaps,
                   history>>

(* the grace timer, or a second signal                                       *)
GraceExpires(w) ==
    /\ requested[w] /\ fin[w] = "none"
    /\ \/ cur[w] = NoEvent /\ UNCHANGED mishaps
       \/ "graceExpiry" \in Faults /\ cur[w] # NoEvent /\ Mishap
    /\ fin' = [fin EXCEPT ![w] = "due"]
    /\ UNCHANGED <<rows, marker, loop, requested, toRelease, unreleased, history>>

(* variant: a pending claim is not awaited                                   *)
StartReleaseEarly(w) ==
    /\ fin[w] = "due"
    /\ fin' = [fin EXCEPT ![w] = "release"]
    /\ toRelease' = [toRelease EXCEPT ![w] = IF pc[w] = "claim" THEN {} ELSE batch[w]]
    /\ UNCHANGED <<rows, marker, loop, requested, unreleased, mishaps, history>>

(* a pending claim is awaited first, then the unfinished events are read     *)
StartRelease(w) ==
    /\ fin[w] = "due" /\ pc[w] # "claim"
    /\ fin' = [fin EXCEPT ![w] = "release"]
    /\ toRelease' = [toRelease EXCEPT ![w] = batch[w]]
    /\ UNCHANGED <<rows, marker, loop, requested, unreleased, mishaps, history>>

(* releaseClaimedOutboxEvent, guarded by status and owner                    *)
Release(w, e) ==
    /\ fin[w] = "release" /\ e \in toRelease[w]
    /\ ev' = IF HeldBy(w, e) THEN [ev EXCEPT ![e] = HandedBack(@)] ELSE ev
    /\ toRelease' = [toRelease EXCEPT ![w] = @ \ {e}]
    /\ UNCHANGED <<older, marker, loop, requested, fin, unreleased, mishaps, history>>

ReleaseFails(w, e) ==
    /\ "dbError" \in Faults
    /\ fin[w] = "release" /\ e \in toRelease[w]
    /\ toRelease' = [toRelease EXCEPT ![w] = @ \ {e}]
    /\ unreleased' = [unreleased EXCEPT ![w] = @ \cup {e}]
    /\ Mishap
    /\ UNCHANGED <<rows, marker, loop, requested, fin, history>>

(* The process ends: its memory is gone and its id names no process any more *)
ProcessEnds(w) ==
    /\ Goto(w, "off")
    /\ batch' = [batch EXCEPT ![w] = {}]
    /\ seen' = [seen EXCEPT ![w] = [e \in Event |-> 0]]
    /\ cur' = [cur EXCEPT ![w] = NoEvent]
    /\ requested' = [requested EXCEPT ![w] = FALSE]
    /\ fin' = [fin EXCEPT ![w] = "none"]
    /\ toRelease' = [toRelease EXCEPT ![w] = {}]
    /\ unreleased' = [unreleased EXCEPT ![w] = {}]
    /\ ev' = [e \in Event |->
                IF HeldBy(w, e) THEN [ev[e] EXCEPT !.lockedBy = Gone] ELSE ev[e]]
    /\ spent' = [e \in Event |-> IF HeldBy(w, e) THEN spent[e] + 1 ELSE spent[e]]
    /\ UNCHANGED <<older, marker, successes>>

Exit(w) ==
    /\ fin[w] = "release" /\ toRelease[w] = {}
    /\ ProcessEnds(w)
    /\ UNCHANGED mishaps

Crash(w) ==
    /\ "crash" \in Faults
    /\ pc[w] # "off"
    /\ ProcessEnds(w)
    /\ Mishap

(* A statement rejects outside the try block of the loop, or in its catch     *)
(* block: run() rejects and the process exits.  Rows of a claim that failed  *)
(* part-way are in the batch of nobody but the model.                        *)
RunRejects(w) ==
    /\ "dbError" \in Faults
    /\ pc[w] \in {"claim", "defer", "fail"}
    /\ ProcessEnds(w)
    /\ Mishap

(* restart: unless-stopped                                                   *)
Restart(w) ==
    /\ pc[w] = "off"
    /\ Goto(w, "idle")
    /\ UNCHANGED <<rows, marker, batch, seen, cur, stop, mishaps, history>>

-----------------------------------------------------------------------------

LoopStep(w) ==
    \/ StartClaim(w) \/ (\E e \in Event : ClaimOne(w, e)) \/ EndClaim(w)
    \/ Take(w) \/ EndBatch(w) \/ LeaveLoop(w)
    \/ ReadMarker(w) \/ ReadMarkerFails(w)
    \/ HandlerSucceeds(w) \/ HandlerFails(w) \/ HandlerMeetsBusyLease(w)
    \/ WriteMarker(w)
    \/ Complete(w) \/ CompleteFails(w) \/ Defer(w) \/ Fail(w) \/ DeadLetter(w)

StopStep(w) ==
    \/ StartRelease(w)
    \/ \E e \in Event : Release(w, e) \/ ReleaseFails(w, e)
    \/ Exit(w)

Time(e) == BecomeDue(e) \/ BecomeStale(e)

Next ==
    \/ \E e \in Event : \/ Enqueue(e) \/ Time(e) \/ Requeue(e) \/ Archive(e)
                        \/ ExpireMarker(e)
    \/ \E w \in Worker : \/ LoopStep(w) \/ StopStep(w)
                         \/ RequestStop(w) \/ GraceExpires(w)
                         \/ Crash(w) \/ RunRejects(w) \/ Restart(w)

Spec == Init /\ [][Next]_vars
-----------------------------------------------------------------------------
(* Properties                                                                *)

(* A row is completed, or marked processed, only after its handler has       *)
(* succeeded: no crash, retry, duplicate claim or lost marker turns an       *)
(* unprocessed event into a finished one.                                    *)
OnlyHandledEventsFinish ==
    \A e \in Event : ev[e].status = "completed" \/ e \in marker => successes[e] > 0

(* A row is locked either by a process that has ended, which the stale       *)
(* cutoff recovers, or by a live worker that still has it in its batch: no   *)
(* live worker forgets an event it holds, whatever path its loop or its      *)
(* shutdown takes.                                                           *)
LocksHaveOwners ==
    \A e \in Event : ev[e].status = "processing" =>
        \/ ev[e].lockedBy = Gone
        \/ \E w \in Worker : ev[e].lockedBy = w /\ e \in batch[w]

(* While handlers finish within the stale cutoff and within the grace        *)
(* period, no two workers have the same event in progress, although the      *)
(* updates that settle an event never check who holds it.                    *)
OneHandlerPerEvent ==
    Faults \cap {"overrun", "graceExpiry"} = {} =>
        \A v, w \in Worker : v # w /\ cur[v] # NoEvent => cur[v] # cur[w]

(* Under the same conditions a completed row stays completed until it is     *)
(* archived.                                                                 *)
CompletedIsFinal ==
    [][Faults \cap {"overrun", "graceExpiry", "lostReply"} = {} =>
            \A e \in Event : ev[e].status = "completed" =>
                ev'[e].status \in {"completed", "absent"}]_vars

(* A busy lease and a stop give the attempt back, and nothing else does: the *)
(* counter that decides about the dead letter is the number of claims that   *)
(* ended in an error or died with their process.                             *)
AttemptsCountSpentClaims ==
    \A e \in Event : Present(e) =>
        ev[e].attempts = spent[e] + IF \/ ev[e].status = "completed"
                                       \/ \E w \in Worker : HeldBy(w, e)
                                    THEN 1 ELSE 0

(* Whatever became of the completing update, a handler does not succeed      *)
(* again for an event whose marker is there. (processOutboxEventOnce)        *)
MarkedIsNotRepeated ==
    [][Faults \cap {"overrun", "graceExpiry"} = {} =>
            \A e \in marker : successes'[e] <= successes[e]]_vars

(* A worker that exits on request, wherever its loop was when it was asked *)
(* to, leaves no row locked behind but those for which the statement that  *)
(* hands them back has failed: also when its grace has expired, when its   *)
(* claims were taken over, or others have died. (createWorkerShutdown)     *)
CleanExitHoldsNothing ==
    \A w \in Worker, e \in Event :
        fin[w] = "release" /\ toRelease[w] = {} /\ HeldBy(w, e) => e \in unreleased[w]

(* "A stop cannot reopen one that just completed": a worker that has been    *)
(* asked to stop never turns a completed row back into a claimable one.      *)
StopNeverReopens ==
    [][\A e \in Event, w \in Worker :
          requested[w] /\ (LoopStep(w) \/ StopStep(w)) /\ ev[e].status = "completed" =>
              ev'[e].status = "completed"]_vars

HandlerDecides(w, e) == cur[w] = e /\ (HandlerSucceeds(w) \/ HandlerFails(w))

-----------------------------------------------------------------------------
(* What a producer sees of the outbox.                                       *)

DeliveryState(e) ==
    CASE ev[e].status = "absent"      -> "none"
      [] ev[e].status = "completed"   -> "finished"
      [] ev[e].status = "dead_letter" -> "dead"
      [] OTHER                        -> "queued"

Delivery == INSTANCE EventDelivery WITH
    state <- [e \in Event |-> DeliveryState(e)],
    delivered <- {e \in Event : successes[e] > 0}

(* As long as no worker outlives the stale cutoff or the grace period and no *)
(* reply is lost, the outbox delivers at least once and finishes exactly     *)
(* once, through crashes and failing statements.                             *)
DeliversAtLeastOnce == Delivery!Spec

-----------------------------------------------------------------------------
(* Weak fairness of the loop, of the shutdown, of time and of the container  *)
(* runtime that restarts the process; strong fairness, per event, of an      *)
(* outcome other than a busy lease, because the lease in its way expires.    *)
FairSpec ==
    /\ Spec
    /\ \A w \in Worker : /\ WF_vars(LoopStep(w))
                         /\ WF_vars(StopStep(w))
                         /\ WF_vars(Restart(w))
    /\ \A e \in Event : /\ WF_vars(Time(e))
                        /\ SF_vars(\E w \in Worker : HandlerDecides(w, e))

Unsettled(e) == Present(e) /\ ev[e].status \notin Terminal

(* Nothing is lost: unless stop signals keep arriving for ever, every event  *)
(* ends up completed or dead-lettered, through mishaps, busy       *)
(* leases, retries and the reopening of settled rows.                        *)
EveryEventSettles ==
    (\A w \in Worker : <>[]~requested[w]) =>
        \A e \in Event : Unsettled(e) ~> ~Unsettled(e)

=============================================================================
