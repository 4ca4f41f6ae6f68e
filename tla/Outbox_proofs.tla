---------------------------- MODULE Outbox_proofs ----------------------------
(***************************************************************************)
(* Proofs about Outbox, for every set of events and workers, every batch   *)
(* size and every combination of faults.                                   *)
(***************************************************************************)
EXTENDS Outbox, TLAPS

USE OutboxAssumption

-----------------------------------------------------------------------------
(* What each row function returns.                                           *)

LEMMA NewRows ==
    /\ NoRow \in Row /\ NoRow.status = "absent" /\ NoRow.lockedBy = Nobody
    /\ FreshRow \in Row /\ FreshRow.status = "pending" /\ FreshRow.lockedBy = Nobody
BY DEF Row, Statuses, NoRow, FreshRow

LEMMA LockedByRow ==
    ASSUME NEW row \in Row, NEW o \in Worker \cup {Nobody, Gone}
    PROVE  LockedBy(o, row) \in Row
BY DEF Row, Statuses, LockedBy

LEMMA ClaimedRow ==
    ASSUME NEW row \in Row, NEW w \in Worker
    PROVE  /\ ClaimedBy(w, row) \in Row
           /\ ClaimedBy(w, row).status = "processing"
           /\ ClaimedBy(w, row).lockedBy = w
           /\ ~ClaimedBy(w, row).stale
<1> DEFINE r == LockedBy(w, row)
<1>1. r \in Row
  BY LockedByRow
<1>2. r.attempts + 1 \in Int
  BY <1>1 DEF Row
<1>3. ASSUME NEW a \in Int
      PROVE [r EXCEPT !.status = "processing", !.attempts = a] \in Row
  <2> HIDE DEF r
  <2> QED BY <1>1 DEF Row, Statuses
<1>4. QED
  BY <1>2, <1>3 DEF ClaimedBy, LockedBy, Row

LEMMA SettledRows ==
    ASSUME NEW row \in Row
    PROVE  /\ Completed(row) \in Row /\ Completed(row).status = "completed"
           /\ Failed(row) \in Row /\ Failed(row).status = "failed"
           /\ Deferred(row) \in Row /\ Deferred(row).status = "failed"
           /\ HandedBack(row) \in Row /\ HandedBack(row).status = "failed"
           /\ DeadLettered(row) \in Row /\ DeadLettered(row).status = "dead_letter"
<1>1. Unlocked(row) \in Row
  BY LockedByRow DEF Unlocked
<1>2. Completed(row) \in Row /\ Completed(row).status = "completed"
  BY <1>1 DEF Row, Statuses, Completed
<1>3. DeadLettered(row) \in Row /\ DeadLettered(row).status = "dead_letter"
  BY <1>1 DEF Row, Statuses, DeadLettered
<1>4. Failed(row) \in Row /\ Failed(row).status = "failed"
  BY <1>1 DEF Row, Statuses, Failed
<1>5. Deferred(row) \in Row /\ Deferred(row).status = "failed"
  BY <1>4 DEF Row, Statuses, Deferred
<1>6. HandedBack(row) \in Row /\ HandedBack(row).status = "failed"
  BY <1>5 DEF Row, Statuses, HandedBack
<1>7. QED
  BY <1>2, <1>3, <1>4, <1>5, <1>6

LEMMA AgedRows ==
    ASSUME NEW row \in Row
    PROVE  /\ [row EXCEPT !.due = TRUE] \in Row
           /\ [row EXCEPT !.due = TRUE].status = row.status
           /\ [row EXCEPT !.due = TRUE].lockedBy = row.lockedBy
           /\ [row EXCEPT !.stale = TRUE] \in Row
           /\ [row EXCEPT !.stale = TRUE].status = row.status
           /\ [row EXCEPT !.stale = TRUE].lockedBy = row.lockedBy
           /\ [row EXCEPT !.lockedBy = Gone] \in Row
           /\ [row EXCEPT !.lockedBy = Gone].status = row.status
           /\ [row EXCEPT !.lockedBy = Gone].lockedBy = Gone
BY DEF Row, Statuses

-----------------------------------------------------------------------------
(* Type correctness.  A worker in the middle of an event has one, and it is  *)
(* in its batch: without this the marker could receive NoEvent.              *)

Working == {"check", "handle", "mark", "complete", "defer", "fail"}

BusyInv ==
    \A w \in Worker : /\ cur[w] # NoEvent <=> pc[w] \in Working
                      /\ cur[w] # NoEvent => cur[w] \in batch[w]

TypeInv == TypeOK /\ BusyInv

LEMMA TypeInit == Init => TypeInv
BY NewRows DEF Init, TypeInv, TypeOK, BusyInv, Points, Working

LEMMA EventTypes ==
    ASSUME TypeInv, NEW e \in Event,
           Enqueue(e) \/ Time(e) \/ Requeue(e) \/ Archive(e) \/ ExpireMarker(e)
    PROVE  TypeInv'
<1> USE DEF TypeInv, TypeOK, BusyInv, loop, stop, history, rows
<1>1. CASE Enqueue(e)
  BY <1>1, NewRows DEF Enqueue
<1>2. CASE BecomeDue(e)
  <2>1. [ev[e] EXCEPT !.due = TRUE] \in Row
    BY AgedRows
  <2>2. QED
    BY <1>2, <2>1 DEF BecomeDue
<1>3. CASE BecomeStale(e)
  <2>1. [ev[e] EXCEPT !.stale = TRUE] \in Row
    BY AgedRows
  <2>2. QED
    BY <1>3, <2>1 DEF BecomeStale, Mishap
<1>4. CASE Requeue(e)
  BY <1>4, NewRows DEF Requeue
<1>5. CASE Archive(e)
  BY <1>5, NewRows DEF Archive
<1>6. CASE ExpireMarker(e)
  BY <1>6 DEF ExpireMarker
<1>7. QED
  BY <1>1, <1>2, <1>3, <1>4, <1>5, <1>6 DEF Time

LEMMA ClaimTypes ==
    ASSUME TypeInv, NEW w \in Worker,
           StartClaim(w) \/ (\E e \in Event : ClaimOne(w, e)) \/ EndClaim(w)
           \/ Take(w) \/ EndBatch(w) \/ LeaveLoop(w)
    PROVE  TypeInv'
<1> USE DEF TypeInv, TypeOK, BusyInv, Points, Working, Goto, stop, history, rows
<1>1. CASE StartClaim(w)
  BY <1>1 DEF StartClaim
<1>2. ASSUME NEW e \in Event, ClaimOne(w, e) PROVE TypeInv'
  <2>1. ev[e].attempts + 1 \in Int
    BY DEF Row
  <2>2. ClaimedBy(w, ev[e]) \in Row
    BY ClaimedRow
  <2>3. QED
    BY <1>2, <2>1, <2>2 DEF ClaimOne
<1>3. CASE EndClaim(w)
  BY <1>3 DEF EndClaim
<1>4. CASE Take(w)
  BY <1>4 DEF Take
<1>5. CASE EndBatch(w)
  BY <1>5 DEF EndBatch
<1>6. CASE LeaveLoop(w)
  BY <1>6 DEF LeaveLoop
<1>7. QED
  BY <1>1, <1>2, <1>3, <1>4, <1>5, <1>6

LEMMA HandlingTypes ==
    ASSUME TypeInv, NEW w \in Worker,
           ReadMarker(w) \/ ReadMarkerFails(w) \/ HandlerSucceeds(w) \/ HandlerFails(w)
           \/ HandlerMeetsBusyLease(w) \/ WriteMarker(w)
    PROVE  TypeInv'
<1> USE DEF TypeInv, TypeOK, BusyInv, Points, Working, Goto, stop, history, rows
<1>1. CASE ReadMarker(w)
  BY <1>1 DEF ReadMarker
<1>2. CASE ReadMarkerFails(w)
  BY <1>2 DEF ReadMarkerFails
<1>3. CASE HandlerSucceeds(w)
  BY <1>3 DEF HandlerSucceeds
<1>4. CASE HandlerFails(w)
  BY <1>4 DEF HandlerFails
<1>5. CASE HandlerMeetsBusyLease(w)
  BY <1>5 DEF HandlerMeetsBusyLease
<1>6. CASE WriteMarker(w)
  BY <1>6 DEF WriteMarker
<1>7. QED
  BY <1>1, <1>2, <1>3, <1>4, <1>5, <1>6

LEMMA PutType ==
    ASSUME TypeOK, NEW e \in Event, NEW row \in Row, Put(e, row)
    PROVE  ev' \in [Event -> Row]
BY DEF TypeOK, Put

LEMMA SettleTypes ==
    ASSUME TypeInv, NEW w \in Worker,
           Complete(w) \/ CompleteFails(w) \/ Defer(w) \/ Fail(w) \/ DeadLetter(w)
    PROVE  TypeInv'
<1> DEFINE e == cur[w]
<1>1. e \in Event /\ ev[e] \in Row
  BY DEF Complete, CompleteFails, Defer, Fail, DeadLetter, TypeInv, TypeOK, BusyInv, Working
<1>2. ev' \in [Event -> Row]
  BY <1>1, PutType, SettledRows
     DEF Complete, CompleteFails, Defer, Fail, DeadLetter, TypeInv, TypeOK
<1>3. CASE CompleteFails(w)
  BY <1>2, <1>3 DEF CompleteFails, TypeInv, TypeOK, BusyInv, Points, Working, Goto, stop, history
<1>4. ASSUME Settle(w), UNCHANGED <<older, marker, stop, mishaps, successes>>,
             spent' \in [Event -> Nat], pc[w] \in Working
      PROVE TypeInv'
  BY <1>1, <1>2, <1>4 DEF Settle, TypeInv, TypeOK, BusyInv, Points, Working, Goto, stop
<1>5. QED
  BY <1>3, <1>4 DEF Complete, Defer, Fail, DeadLetter, TypeInv, TypeOK, history, Working

LEMMA StopTypes ==
    ASSUME TypeInv, NEW w \in Worker,
           RequestStop(w) \/ GraceExpires(w) \/ StartRelease(w)
           \/ (\E e \in Event : Release(w, e) \/ ReleaseFails(w, e)) \/ Restart(w)
    PROVE  TypeInv'
<1> USE DEF TypeInv, TypeOK, BusyInv, Points, Working, Goto, loop, stop, history, rows
<1>1. CASE RequestStop(w)
  BY <1>1 DEF RequestStop
<1>2. CASE GraceExpires(w)
  BY <1>2 DEF GraceExpires, Mishap
<1>3. CASE StartRelease(w)
  BY <1>3 DEF StartRelease
<1>4. ASSUME NEW e \in Event, Release(w, e) PROVE TypeInv'
  BY <1>4, SettledRows DEF Release
<1>5. ASSUME NEW e \in Event, ReleaseFails(w, e) PROVE TypeInv'
  BY <1>5 DEF ReleaseFails, Mishap
<1>6. CASE Restart(w)
  BY <1>6 DEF Restart
<1>7. QED
  BY <1>1, <1>2, <1>3, <1>4, <1>5, <1>6

LEMMA EndTypes ==
    ASSUME TypeInv, NEW w \in Worker, Exit(w) \/ Crash(w) \/ RunRejects(w)
    PROVE  TypeInv'
<1>1. ProcessEnds(w) /\ mishaps' \in Nat
  BY DEF Exit, Crash, RunRejects, Mishap, TypeInv, TypeOK
<1>2. ev' \in [Event -> Row]
  <2>1. ASSUME NEW e \in Event PROVE ev'[e] \in Row
    <3>1. ev[e] \in Row
      BY DEF TypeInv, TypeOK
    <3>2. [ev[e] EXCEPT !.lockedBy = Gone] \in Row
      BY <3>1, AgedRows
    <3>3. QED
      BY <1>1, <3>1, <3>2 DEF ProcessEnds
  <2>2. QED
    BY <1>1, <2>1 DEF ProcessEnds
<1>3. QED
  BY <1>1, <1>2 DEF ProcessEnds, TypeInv, TypeOK, BusyInv, Points, Working, Goto

LEMMA TypeStep == TypeInv /\ [Next]_vars => TypeInv'
<1> SUFFICES ASSUME TypeInv, [Next]_vars PROVE TypeInv'
  OBVIOUS
<1>1. ASSUME NEW e \in Event,
             Enqueue(e) \/ Time(e) \/ Requeue(e) \/ Archive(e) \/ ExpireMarker(e)
      PROVE TypeInv'
  BY <1>1, EventTypes
<1>2. ASSUME NEW w \in Worker,
             \/ LoopStep(w) \/ StopStep(w) \/ RequestStop(w) \/ GraceExpires(w)
             \/ Crash(w) \/ RunRejects(w) \/ Restart(w)
      PROVE TypeInv'
  BY <1>2, ClaimTypes, HandlingTypes, SettleTypes, StopTypes, EndTypes DEF LoopStep, StopStep
<1>3. CASE UNCHANGED vars
  BY <1>3 DEF vars, rows, loop, stop, history, TypeInv, TypeOK, BusyInv
<1>4. QED
  BY <1>1, <1>2, <1>3 DEF Next

(* Every variable keeps its type, and with it the counters stay numbers      *)
(* although update statements bypass the validation of the schema.           *)
THEOREM TypeCorrect == Spec => []TypeOK
<1>1. TypeInv /\ [Next]_vars => TypeInv'
  BY TypeStep
<1>2. TypeInv => TypeOK
  BY DEF TypeInv
<1>3. QED
  BY TypeInit, <1>1, <1>2, PTL DEF Spec

-----------------------------------------------------------------------------
(* Every lock has an owner.  A step that takes an event out of a batch has   *)
(* written its row; a step that writes no row takes nothing out of a batch.  *)

(* The steps that leave the rows and the batches alone.                      *)
LEMMA QuietSteps ==
    ASSUME NEW w \in Worker,
           \/ StartClaim(w) \/ EndClaim(w) \/ Take(w) \/ EndBatch(w) \/ LeaveLoop(w)
           \/ ReadMarker(w) \/ ReadMarkerFails(w) \/ HandlerSucceeds(w) \/ HandlerFails(w)
           \/ HandlerMeetsBusyLease(w) \/ WriteMarker(w) \/ StartRelease(w)
           \/ (\E e \in Event : ReleaseFails(w, e))
           \/ RequestStop(w) \/ GraceExpires(w) \/ Restart(w)
    PROVE  ev' = ev /\ batch' = batch
BY DEF StartClaim, EndClaim, Take, EndBatch, LeaveLoop, ReadMarker, ReadMarkerFails,
       HandlerSucceeds, HandlerFails, HandlerMeetsBusyLease, WriteMarker, StartRelease,
       ReleaseFails, RequestStop, GraceExpires, Restart, rows, loop

(* A step that settles an event writes its row unless the row is gone, and   *)
(* leaves the other rows and the other batches alone.                        *)
LEMMA SettleSteps ==
    ASSUME TypeInv, NEW w \in Worker, Complete(w) \/ Defer(w) \/ Fail(w) \/ DeadLetter(w)
    PROVE  /\ cur[w] \in Event
           /\ ev'[cur[w]].status # "processing"
           /\ \A e \in Event \ {cur[w]} : ev'[e] = ev[e]
           /\ batch' = [batch EXCEPT ![w] = @ \ {cur[w]}]
<1>1. cur[w] \in Event /\ ev[cur[w]] \in Row
  BY DEF Complete, Defer, Fail, DeadLetter, TypeInv, TypeOK, BusyInv, Working
<1>2. batch' = [batch EXCEPT ![w] = @ \ {cur[w]}]
  BY DEF Complete, Defer, Fail, DeadLetter, Settle
<1>3. PICK row \in Row : Put(cur[w], row) /\ row.status # "processing"
  BY <1>1, SettledRows DEF Complete, Defer, Fail, DeadLetter
<1>4. QED
  BY <1>1, <1>2, <1>3 DEF Put, Present, TypeInv, TypeOK

(* Time changes neither the status nor the owner of a row.                   *)
LEMMA TimeSteps ==
    ASSUME TypeOK, NEW e \in Event, Time(e)
    PROVE  \A d \in Event : ev'[d].status = ev[d].status /\ ev'[d].lockedBy = ev[d].lockedBy
<1>1. ev[e] \in Row
  BY DEF TypeOK
<1>2. CASE BecomeDue(e)
  <2>1. ev' = [ev EXCEPT ![e] = [ev[e] EXCEPT !.due = TRUE]]
    BY <1>2 DEF BecomeDue
  <2>2. QED
    BY <1>1, <2>1, AgedRows DEF TypeOK
<1>3. CASE BecomeStale(e)
  <2>1. ev' = [ev EXCEPT ![e] = [ev[e] EXCEPT !.stale = TRUE]]
    BY <1>3 DEF BecomeStale
  <2>2. QED
    BY <1>1, <2>1, AgedRows DEF TypeOK
<1>4. QED
  BY <1>2, <1>3 DEF Time

LEMMA LocksStep == TypeInv /\ LocksHaveOwners /\ [Next]_vars => LocksHaveOwners'
<1> SUFFICES ASSUME TypeInv, LocksHaveOwners, [Next]_vars PROVE LocksHaveOwners'
  OBVIOUS
<1> USE DEF TypeInv, TypeOK, LocksHaveOwners
<1>1. ASSUME NEW e \in Event, Enqueue(e) \/ Requeue(e) \/ Archive(e)
      PROVE LocksHaveOwners'
  BY <1>1, NewRows DEF Enqueue, Requeue, Archive, loop
<1>2. ASSUME NEW e \in Event, Time(e) PROVE LocksHaveOwners'
  <2>1. \A d \in Event : ev'[d].status = ev[d].status /\ ev'[d].lockedBy = ev[d].lockedBy
    BY <1>2, TimeSteps
  <2>2. batch' = batch
    BY <1>2 DEF Time, BecomeDue, BecomeStale, loop
  <2>3. QED
    BY <2>1, <2>2
<1>3. ASSUME NEW e \in Event, ExpireMarker(e) PROVE LocksHaveOwners'
  BY <1>3 DEF ExpireMarker, rows, loop
<1>4. ASSUME NEW w \in Worker, NEW e \in Event, ClaimOne(w, e) PROVE LocksHaveOwners'
  <2>1. ev'[e].lockedBy = w /\ e \in batch'[w]
    BY <1>4, ClaimedRow DEF ClaimOne
  <2>2. \A d \in Event \ {e} : ev'[d] = ev[d]
    BY <1>4 DEF ClaimOne
  <2>3. \A v \in Worker : batch[v] \subseteq batch'[v]
    BY <1>4 DEF ClaimOne
  <2>4. QED
    BY <2>1, <2>2, <2>3
<1>5. ASSUME NEW w \in Worker, Complete(w) \/ Defer(w) \/ Fail(w) \/ DeadLetter(w)
      PROVE LocksHaveOwners'
  <2> DEFINE e == cur[w]
  <2>1. /\ e \in Event /\ ev'[e].status # "processing"
        /\ \A d \in Event \ {e} : ev'[d] = ev[d]
        /\ batch' = [batch EXCEPT ![w] = @ \ {e}]
    BY <1>5, SettleSteps
  <2> HIDE DEF e
  <2>2. \A d \in Event \ {e}, v \in Worker : d \in batch[v] => d \in batch'[v]
    BY <2>1
  <2>3. QED
    BY <2>1, <2>2
<1>6. ASSUME NEW w \in Worker, CompleteFails(w) PROVE LocksHaveOwners'
  <2>1. cur[w] \in Event
    BY <1>6 DEF CompleteFails, BusyInv, Working
  <2>2. \A d \in Event : ev'[d] = ev[d] \/ ev'[d].status = "completed"
    BY <1>6, <2>1, SettledRows DEF CompleteFails, Put
  <2>3. batch' = batch
    BY <1>6 DEF CompleteFails
  <2>4. QED
    BY <2>2, <2>3
<1>7. ASSUME NEW w \in Worker, NEW e \in Event, Release(w, e) PROVE LocksHaveOwners'
  <2>1. \A d \in Event : ev'[d] = ev[d] \/ ev'[d].status = "failed"
    BY <1>7, SettledRows DEF Release
  <2>2. batch' = batch
    BY <1>7 DEF Release, loop
  <2>3. QED
    BY <2>1, <2>2
<1>8. ASSUME NEW w \in Worker, Exit(w) \/ Crash(w) \/ RunRejects(w) PROVE LocksHaveOwners'
  <2>1. ProcessEnds(w)
    BY <1>8 DEF Exit, Crash, RunRejects
  <2>2. ASSUME NEW e \in Event, ev'[e].status = "processing", ev'[e].lockedBy # Gone
        PROVE  \E v \in Worker : ev'[e].lockedBy = v /\ e \in batch'[v]
    <3>1. ~HeldBy(w, e)
      BY <2>1, <2>2, AgedRows DEF ProcessEnds
    <3>2. ev'[e] = ev[e]
      BY <2>1, <3>1 DEF ProcessEnds
    <3>3. PICK v \in Worker : ev[e].lockedBy = v /\ e \in batch[v]
      BY <2>2, <3>2
    <3>4. v # w
      BY <2>2, <3>1, <3>2, <3>3 DEF HeldBy
    <3>5. QED
      BY <2>1, <3>2, <3>3, <3>4 DEF ProcessEnds
  <2>3. QED
    BY <2>2
<1>9. ASSUME NEW w \in Worker, ev' = ev /\ batch' = batch PROVE LocksHaveOwners'
  BY <1>9
<1>10. CASE UNCHANGED vars
  BY <1>10 DEF vars, rows, loop
<1>11. QED
  BY <1>1, <1>2, <1>3, <1>4, <1>5, <1>6, <1>7, <1>8, <1>9, <1>10, QuietSteps
     DEF Next, LoopStep, StopStep

(* No live worker forgets an event it has locked, under any combination of   *)
(* faults: a locked row is in the batch of its owner or its owner has ended. *)
THEOREM EveryLockIsOwned == Spec => []LocksHaveOwners
<1>1. Init => LocksHaveOwners
  BY NewRows DEF Init, LocksHaveOwners
<1>2. TypeInv /\ LocksHaveOwners /\ [Next]_vars => TypeInv' /\ LocksHaveOwners'
  BY TypeStep, LocksStep
<1>3. QED
  BY TypeInit, <1>1, <1>2, PTL DEF Spec

-----------------------------------------------------------------------------
(* Only handled events finish.  Between the handler and the completing       *)
(* update the loop remembers the success in nothing but its position.        *)

HandledInv ==
    /\ OnlyHandledEventsFinish
    /\ \A w \in Worker : pc[w] \in {"mark", "complete"} => successes[cur[w]] > 0

LEMMA HandledStep == TypeInv /\ HandledInv /\ [Next]_vars => HandledInv'
<1> SUFFICES ASSUME TypeInv, HandledInv, [Next]_vars PROVE HandledInv'
  OBVIOUS
<1> USE DEF TypeInv, TypeOK, BusyInv, Working, HandledInv, OnlyHandledEventsFinish, Goto,
            rows, loop, stop, history
<1>1. ASSUME NEW e \in Event, Enqueue(e) PROVE HandledInv'
  BY <1>1, NewRows DEF Enqueue
<1>2. ASSUME NEW e \in Event, Requeue(e) PROVE HandledInv'
  BY <1>2, NewRows DEF Requeue
<1>3. ASSUME NEW e \in Event, Archive(e) PROVE HandledInv'
  BY <1>3, NewRows DEF Archive
<1>4. ASSUME NEW e \in Event, Time(e) PROVE HandledInv'
  <2>1. \A d \in Event : ev'[d].status = ev[d].status
    BY <1>4, TimeSteps
  <2>2. UNCHANGED <<marker, pc, cur, successes>>
    BY <1>4 DEF Time, BecomeDue, BecomeStale
  <2>3. QED
    BY <2>1, <2>2
<1>5. ASSUME NEW e \in Event, ExpireMarker(e) PROVE HandledInv'
  BY <1>5 DEF ExpireMarker
<1>6. ASSUME NEW w \in Worker,
             \/ StartClaim(w) \/ EndClaim(w) \/ Take(w) \/ EndBatch(w) \/ LeaveLoop(w)
             \/ ReadMarkerFails(w) \/ HandlerFails(w) \/ HandlerMeetsBusyLease(w)
             \/ RequestStop(w) \/ GraceExpires(w) \/ StartRelease(w)
             \/ (\E e \in Event : ReleaseFails(w, e)) \/ Restart(w)
      PROVE HandledInv'
  <2>1. UNCHANGED <<ev, marker, successes>>
    BY <1>6 DEF StartClaim, EndClaim, Take, EndBatch, LeaveLoop, ReadMarkerFails, HandlerFails,
       HandlerMeetsBusyLease, RequestStop, GraceExpires, StartRelease, ReleaseFails, Restart
  <2>2. \A v \in Worker :
           pc'[v] \in {"mark", "complete"} => pc'[v] = pc[v] /\ cur'[v] = cur[v]
    BY <1>6 DEF StartClaim, EndClaim, Take, EndBatch, LeaveLoop, ReadMarkerFails, HandlerFails,
       HandlerMeetsBusyLease, RequestStop, GraceExpires, StartRelease, ReleaseFails, Restart
  <2>3. QED
    BY <2>1, <2>2
<1>7. ASSUME NEW w \in Worker, NEW e \in Event, ClaimOne(w, e) PROVE HandledInv'
  BY <1>7, ClaimedRow DEF ClaimOne
<1>8. ASSUME NEW w \in Worker, ReadMarker(w) PROVE HandledInv'
  BY <1>8 DEF ReadMarker
<1>9. ASSUME NEW w \in Worker, HandlerSucceeds(w) PROVE HandledInv'
  <2>1. \A e \in Event : successes'[e] >= successes[e]
    BY <1>9 DEF HandlerSucceeds
  <2>2. successes'[cur[w]] > 0
    BY <1>9 DEF HandlerSucceeds
  <2>3. QED
    BY <1>9, <2>1, <2>2 DEF HandlerSucceeds
<1>10. ASSUME NEW w \in Worker, WriteMarker(w) PROVE HandledInv'
  BY <1>10 DEF WriteMarker
<1>11. ASSUME NEW w \in Worker, Complete(w) \/ CompleteFails(w) PROVE HandledInv'
  <2>1. cur[w] \in Event /\ successes[cur[w]] > 0
    BY <1>11 DEF Complete, CompleteFails
  <2>2. \A e \in Event : e # cur[w] => ev'[e] = ev[e]
    BY <1>11, <2>1 DEF Complete, CompleteFails, Put
  <2>3. UNCHANGED <<marker, successes>>
    BY <1>11 DEF Complete, CompleteFails
  <2>4. \A v \in Worker :
           pc'[v] \in {"mark", "complete"} => pc'[v] = pc[v] /\ cur'[v] = cur[v]
    BY <1>11 DEF Complete, CompleteFails, Settle
  <2>5. QED
    BY <2>1, <2>2, <2>3, <2>4
<1>12. ASSUME NEW w \in Worker, Defer(w) \/ Fail(w) \/ DeadLetter(w) PROVE HandledInv'
  <2>1. cur[w] \in Event /\ ev[cur[w]] \in Row
    BY <1>12 DEF Defer, Fail, DeadLetter
  <2>2. \A e \in Event : ev'[e] = ev[e] \/ ev'[e].status \in {"failed", "dead_letter"}
    BY <1>12, <2>1, SettledRows DEF Defer, Fail, DeadLetter, Put
  <2>3. UNCHANGED <<marker, successes>>
    BY <1>12 DEF Defer, Fail, DeadLetter
  <2>4. \A v \in Worker :
           pc'[v] \in {"mark", "complete"} => pc'[v] = pc[v] /\ cur'[v] = cur[v]
    BY <1>12 DEF Defer, Fail, DeadLetter, Settle
  <2>5. QED
    BY <2>2, <2>3, <2>4
<1>13. ASSUME NEW w \in Worker, NEW e \in Event, Release(w, e) PROVE HandledInv'
  <2>1. \A d \in Event : ev'[d] = ev[d] \/ ev'[d].status = "failed"
    BY <1>13, SettledRows DEF Release
  <2>2. QED
    BY <1>13, <2>1 DEF Release
<1>14. ASSUME NEW w \in Worker, Exit(w) \/ Crash(w) \/ RunRejects(w) PROVE HandledInv'
  <2>1. ProcessEnds(w)
    BY <1>14 DEF Exit, Crash, RunRejects
  <2>2. \A e \in Event : ev'[e].status = ev[e].status
    BY <2>1, AgedRows DEF ProcessEnds
  <2>3. QED
    BY <2>1, <2>2 DEF ProcessEnds
<1>15. CASE UNCHANGED vars
  BY <1>15 DEF vars
<1>16. QED
  BY <1>1, <1>2, <1>3, <1>4, <1>5, <1>6, <1>7, <1>8, <1>9, <1>10, <1>11, <1>12, <1>13, <1>14,
     <1>15 DEF Next, LoopStep, StopStep

(* A row is completed, or marked processed, only if its handler succeeded,   *)
(* whatever crashes, fails, expires or overruns.                             *)
THEOREM OnlyHandledFinish == Spec => []OnlyHandledEventsFinish
<1>1. Init => HandledInv
  BY NewRows DEF Init, HandledInv, OnlyHandledEventsFinish
<1>2. TypeInv /\ HandledInv /\ [Next]_vars => TypeInv' /\ HandledInv'
  BY TypeStep, HandledStep
<1>3. HandledInv => OnlyHandledEventsFinish
  BY DEF HandledInv
<1>4. QED
  BY TypeInit, <1>1, <1>2, <1>3, PTL DEF Spec

-----------------------------------------------------------------------------
(* One handler per event.  The updates that settle an event never check who  *)
(* holds it; what protects them is that a worker holds all of its batch for  *)
(* as long as it has not begun to hand it back, and by then its loop is      *)
(* idle.  The one exception is a completion whose reply was lost.            *)

Calm == Faults \cap {"overrun", "graceExpiry"} = {}

UnknownCompletion(w, e) ==
    /\ "lostReply" \in Faults
    /\ cur[w] = e /\ pc[w] = "fail" /\ ev[e].status = "completed"

OnlyOrphansGoStale ==
    \A e \in Event : ev[e].status = "processing" /\ ev[e].stale => ev[e].lockedBy = Gone

StoppersAreIdle ==
    \A w \in Worker : fin[w] # "none" => requested[w] /\ cur[w] = NoEvent

BatchesAreHeld ==
    \A w \in Worker : fin[w] # "release" =>
        \A e \in batch[w] : HeldBy(w, e) \/ UnknownCompletion(w, e)

HandlersDiffer == \A v, w \in Worker : v # w /\ cur[v] # NoEvent => cur[v] # cur[w]

HoldInv == OnlyOrphansGoStale /\ StoppersAreIdle /\ BatchesAreHeld /\ HandlersDiffer

(* A process that ends orphans the rows it held and touches no other.        *)
LEMMA EndSteps ==
    ASSUME TypeOK, NEW w \in Worker, Exit(w) \/ Crash(w) \/ RunRejects(w)
    PROVE  /\ \A e \in Event : ev'[e].status = ev[e].status
           /\ \A e \in Event : ev'[e].lockedBy = Gone \/ ev'[e] = ev[e]
           /\ \A e \in Event : ev[e].lockedBy # w => ev'[e] = ev[e]
           /\ \A e \in Event : ev[e].status # "processing" => ev'[e] = ev[e]
           /\ batch' = [batch EXCEPT ![w] = {}]
           /\ cur' = [cur EXCEPT ![w] = NoEvent]
           /\ fin' = [fin EXCEPT ![w] = "none"]
           /\ pc' = [pc EXCEPT ![w] = "off"]
<1>1. ProcessEnds(w)
  BY DEF Exit, Crash, RunRejects
<1>2. ASSUME NEW e \in Event
      PROVE  /\ ev'[e].status = ev[e].status
             /\ ev'[e].lockedBy = Gone \/ ev'[e] = ev[e]
             /\ ev[e].lockedBy # w => ev'[e] = ev[e]
             /\ ev[e].status # "processing" => ev'[e] = ev[e]
  <2>1. ev[e] \in Row
    BY DEF TypeOK
  <2>2. ev'[e] = IF HeldBy(w, e) THEN [ev[e] EXCEPT !.lockedBy = Gone] ELSE ev[e]
    BY <1>1 DEF ProcessEnds
  <2>3. QED
    BY <2>1, <2>2, AgedRows DEF HeldBy
<1>3. QED
  BY <1>1, <1>2 DEF ProcessEnds, Goto

LEMMA OrphanStep ==
    ASSUME Calm, TypeInv, OnlyOrphansGoStale, [Next]_vars
    PROVE  OnlyOrphansGoStale'
<1> USE DEF TypeInv, TypeOK, OnlyOrphansGoStale
<1>1. ASSUME NEW e \in Event, Enqueue(e) \/ Requeue(e) \/ Archive(e)
      PROVE OnlyOrphansGoStale'
  BY <1>1, NewRows DEF Enqueue, Requeue, Archive
<1>2. ASSUME NEW e \in Event, Time(e) PROVE OnlyOrphansGoStale'
  <2>1. ev'[e].status = ev[e].status /\ ev'[e].lockedBy = ev[e].lockedBy
    BY <1>2, TimeSteps
  <2>2. \A d \in Event \ {e} : ev'[d] = ev[d]
    BY <1>2 DEF Time, BecomeDue, BecomeStale
  <2>3. ev[e].status = "failed" \/ ev[e].lockedBy = Gone
    BY <1>2 DEF Time, BecomeDue, BecomeStale, Calm
  <2>4. QED
    BY <2>1, <2>2, <2>3
<1>3. ASSUME NEW w \in Worker, NEW e \in Event, ClaimOne(w, e) PROVE OnlyOrphansGoStale'
  BY <1>3, ClaimedRow DEF ClaimOne
<1>4. ASSUME NEW w \in Worker, Complete(w) \/ Defer(w) \/ Fail(w) \/ DeadLetter(w)
      PROVE OnlyOrphansGoStale'
  BY <1>4, SettleSteps
<1>5. ASSUME NEW w \in Worker, CompleteFails(w) PROVE OnlyOrphansGoStale'
  <2>1. cur[w] \in Event
    BY <1>5 DEF CompleteFails, BusyInv, Working
  <2>2. \A d \in Event : ev'[d] = ev[d] \/ ev'[d].status = "completed"
    BY <1>5, <2>1, SettledRows DEF CompleteFails, Put
  <2>3. QED
    BY <2>2
<1>6. ASSUME NEW w \in Worker, NEW e \in Event, Release(w, e) PROVE OnlyOrphansGoStale'
  BY <1>6, SettledRows DEF Release
<1>7. ASSUME NEW w \in Worker, Exit(w) \/ Crash(w) \/ RunRejects(w)
      PROVE OnlyOrphansGoStale'
  <2>1. \A e \in Event : ev'[e].status = ev[e].status /\ (ev'[e].lockedBy = Gone \/ ev'[e] = ev[e])
    BY <1>7, EndSteps
  <2>2. QED
    BY <2>1
<1>8. ASSUME ev' = ev PROVE OnlyOrphansGoStale'
  BY <1>8
<1>9. QED
  BY <1>1, <1>2, <1>3, <1>4, <1>5, <1>6, <1>7, <1>8, QuietSteps
     DEF Next, LoopStep, StopStep, ExpireMarker, vars, rows

LEMMA StoppersStep ==
    ASSUME Calm, TypeInv, StoppersAreIdle, [Next]_vars
    PROVE  StoppersAreIdle'
<1> USE DEF TypeInv, TypeOK, BusyInv, Working, StoppersAreIdle, Goto
<1>1. ASSUME NEW e \in Event,
             Enqueue(e) \/ Time(e) \/ Requeue(e) \/ Archive(e) \/ ExpireMarker(e)
      PROVE UNCHANGED <<loop, stop>>
  BY <1>1 DEF Enqueue, Time, BecomeDue, BecomeStale, Requeue, Archive, ExpireMarker
<1>2. ASSUME NEW w \in Worker,
             \/ StartClaim(w) \/ (\E e \in Event : ClaimOne(w, e)) \/ EndClaim(w)
             \/ EndBatch(w) \/ ReadMarker(w) \/ ReadMarkerFails(w) \/ HandlerSucceeds(w)
             \/ HandlerFails(w) \/ HandlerMeetsBusyLease(w) \/ WriteMarker(w)
             \/ CompleteFails(w) \/ Restart(w)
      PROVE UNCHANGED <<cur, requested, fin>>
  BY <1>2 DEF StartClaim, ClaimOne, EndClaim, EndBatch, ReadMarker, ReadMarkerFails,
     HandlerSucceeds, HandlerFails, HandlerMeetsBusyLease, WriteMarker, CompleteFails, Restart,
     stop
<1>3. ASSUME NEW w \in Worker, Take(w) PROVE StoppersAreIdle'
  BY <1>3 DEF Take, stop
<1>4. ASSUME NEW w \in Worker, LeaveLoop(w) PROVE StoppersAreIdle'
  <2>1. requested[w] /\ cur[w] = NoEvent /\ UNCHANGED <<cur, requested>>
    BY <1>4 DEF LeaveLoop
  <2>2. \A v \in Worker : v # w => fin'[v] = fin[v]
    BY <1>4 DEF LeaveLoop
  <2>3. QED
    BY <2>1, <2>2
<1>5. ASSUME NEW w \in Worker, Complete(w) \/ Defer(w) \/ Fail(w) \/ DeadLetter(w)
      PROVE StoppersAreIdle'
  BY <1>5 DEF Complete, Defer, Fail, DeadLetter, Settle, stop
<1>6. ASSUME NEW w \in Worker, RequestStop(w) \/ GraceExpires(w) PROVE StoppersAreIdle'
  BY <1>6 DEF RequestStop, GraceExpires, Calm, loop
<1>7. ASSUME NEW w \in Worker,
             StartRelease(w) \/ (\E e \in Event : Release(w, e) \/ ReleaseFails(w, e))
      PROVE StoppersAreIdle'
  BY <1>7 DEF StartRelease, Release, ReleaseFails, loop
<1>8. ASSUME NEW w \in Worker, Exit(w) \/ Crash(w) \/ RunRejects(w) PROVE StoppersAreIdle'
  BY <1>8 DEF Exit, Crash, RunRejects, ProcessEnds
<1>9. ASSUME UNCHANGED <<cur, requested, fin>> PROVE StoppersAreIdle'
  BY <1>9
<1>10. QED
  BY <1>1, <1>2, <1>3, <1>4, <1>5, <1>6, <1>7, <1>8, <1>9
     DEF Next, LoopStep, StopStep, vars, loop, stop

LEMMA HandlersStep ==
    ASSUME Calm, TypeInv, HoldInv, [Next]_vars
    PROVE  HandlersDiffer'
<1> USE DEF TypeInv, TypeOK, BusyInv, Working, HoldInv, HandlersDiffer
<1>1. ASSUME NEW w \in Worker, Take(w) PROVE HandlersDiffer'
  <2>1. PICK e \in batch[w] : cur' = [cur EXCEPT ![w] = e]
    BY <1>1 DEF Take
  <2>2. e \in Event /\ HeldBy(w, e)
    <3>1. cur[w] = NoEvent /\ fin[w] = "none"
      BY <1>1 DEF Take, StoppersAreIdle
    <3>2. QED
      BY <3>1 DEF BatchesAreHeld, UnknownCompletion
  <2>3. \A v \in Worker : v # w => cur[v] # e
    <3> SUFFICES ASSUME NEW v \in Worker, v # w, cur[v] = e PROVE FALSE
      OBVIOUS
    <3>1. fin[v] = "none" /\ e \in batch[v]
      BY <2>2 DEF StoppersAreIdle
    <3>2. HeldBy(v, e) \/ UnknownCompletion(v, e)
      BY <3>1 DEF BatchesAreHeld
    <3>3. QED
      BY <2>2, <3>2 DEF HeldBy, UnknownCompletion
  <2>4. QED
    BY <2>1, <2>3
<1>2. ASSUME NEW w \in Worker, Complete(w) \/ Defer(w) \/ Fail(w) \/ DeadLetter(w)
      PROVE HandlersDiffer'
  BY <1>2 DEF Complete, Defer, Fail, DeadLetter, Settle
<1>3. ASSUME NEW w \in Worker, Exit(w) \/ Crash(w) \/ RunRejects(w) PROVE HandlersDiffer'
  <2>1. cur' = [cur EXCEPT ![w] = NoEvent]
    BY <1>3, EndSteps
  <2>2. QED
    BY <2>1
<1>4. ASSUME NEW e \in Event,
             Enqueue(e) \/ Time(e) \/ Requeue(e) \/ Archive(e) \/ ExpireMarker(e)
      PROVE cur' = cur
  BY <1>4 DEF Enqueue, Time, BecomeDue, BecomeStale, Requeue, Archive, ExpireMarker, loop
<1>5. ASSUME NEW w \in Worker,
             \/ StartClaim(w) \/ (\E e \in Event : ClaimOne(w, e)) \/ EndClaim(w)
             \/ EndBatch(w) \/ LeaveLoop(w) \/ ReadMarker(w) \/ ReadMarkerFails(w)
             \/ HandlerSucceeds(w) \/ HandlerFails(w) \/ HandlerMeetsBusyLease(w)
             \/ WriteMarker(w) \/ CompleteFails(w) \/ RequestStop(w) \/ GraceExpires(w)
             \/ StartRelease(w) \/ (\E e \in Event : Release(w, e) \/ ReleaseFails(w, e))
             \/ Restart(w)
      PROVE cur' = cur
  BY <1>5 DEF StartClaim, ClaimOne, EndClaim, EndBatch, LeaveLoop, ReadMarker,
     ReadMarkerFails, HandlerSucceeds, HandlerFails, HandlerMeetsBusyLease, WriteMarker,
     CompleteFails, RequestStop, GraceExpires, StartRelease, Release, ReleaseFails, Restart, loop
<1>6. ASSUME cur' = cur PROVE HandlersDiffer'
  BY <1>6
<1>7. QED
  BY <1>1, <1>2, <1>3, <1>4, <1>5, <1>6 DEF Next, LoopStep, StopStep, vars, loop

(* A claim takes a row that nobody has locked or whose owner has ended.      *)
LEMMA ClaimableRows ==
    ASSUME OnlyOrphansGoStale, NEW w \in Worker, NEW e \in Event, e \in Claimable(w)
    PROVE  \/ ev[e].status \in {"pending", "failed"}
           \/ ev[e].status = "processing" /\ ev[e].lockedBy = Gone
BY Zenon DEF OnlyOrphansGoStale, Claimable

(* The conclusion of BatchesAreHeld for one worker and one event of its.     *)
KeepsHold(w, e) == HeldBy(w, e) \/ UnknownCompletion(w, e)

LEMMA BatchesStep ==
    ASSUME Calm, TypeInv, HoldInv, [Next]_vars
    PROVE  BatchesAreHeld'
<1> SUFFICES ASSUME NEW v \in Worker, fin'[v] # "release", NEW d \in batch'[v]
             PROVE  KeepsHold(v, d)'
  BY DEF BatchesAreHeld, KeepsHold
<1> USE DEF TypeInv, TypeOK, BusyInv, Working, HoldInv, KeepsHold, HeldBy
<1>0. fin[v] # "release" /\ d \in batch[v] => KeepsHold(v, d)
  BY DEF BatchesAreHeld
<1>1. ASSUME NEW e \in Event, Enqueue(e) \/ Requeue(e) \/ Archive(e)
      PROVE  KeepsHold(v, d)'
  <2>1. UNCHANGED <<loop, stop>>
    BY <1>1 DEF Enqueue, Requeue, Archive
  <2>2. KeepsHold(v, d) /\ d \in Event
    BY <1>0, <2>1 DEF loop, stop
  <2>3. d # e
    BY <1>1, <2>1, <2>2 DEF Enqueue, Requeue, Archive, Present, UnknownCompletion, loop
  <2>4. ev'[d] = ev[d]
    BY <1>1, <2>2, <2>3 DEF Enqueue, Requeue, Archive
  <2>5. QED
    BY <2>1, <2>2, <2>4 DEF loop, UnknownCompletion
<1>2. ASSUME NEW e \in Event, Time(e) PROVE KeepsHold(v, d)'
  <2>1. UNCHANGED <<loop, stop>>
    BY <1>2 DEF Time, BecomeDue, BecomeStale
  <2>2. KeepsHold(v, d) /\ d \in Event
    BY <1>0, <2>1 DEF loop, stop
  <2>3. ev'[d].status = ev[d].status /\ ev'[d].lockedBy = ev[d].lockedBy
    BY <1>2, <2>2, TimeSteps
  <2>4. QED
    BY <2>1, <2>2, <2>3 DEF loop, UnknownCompletion
<1>3. ASSUME NEW w \in Worker, NEW e \in Event, ClaimOne(w, e) PROVE KeepsHold(v, d)'
  <2>1. UNCHANGED <<pc, cur, stop>> /\ (v # w => batch'[v] = batch[v])
    BY <1>3 DEF ClaimOne
  <2>2. CASE d = e
    <3>1. ev'[e].status = "processing" /\ ev'[e].lockedBy = w
      BY <1>3, ClaimedRow DEF ClaimOne
    <3>2. \/ ev[e].status \in {"pending", "failed"}
          \/ ev[e].status = "processing" /\ ev[e].lockedBy = Gone
      <4>1. e \in Claimable(w) /\ OnlyOrphansGoStale
        BY <1>3 DEF ClaimOne
      <4>2. QED
        BY <4>1, ClaimableRows, Zenon
    <3>3. v = w
      BY <1>0, <2>1, <2>2, <3>2 DEF stop, UnknownCompletion
    <3>4. QED
      BY <2>2, <3>1, <3>3
  <2>3. CASE d # e
    <3>1. d \in Event /\ ev'[d] = ev[d] /\ d \in batch[v]
      BY <1>3, <2>3 DEF ClaimOne
    <3>2. KeepsHold(v, d)
      BY <1>0, <2>1, <3>1 DEF stop
    <3>3. QED
      BY <2>1, <3>1, <3>2 DEF UnknownCompletion
  <2>4. QED
    BY <2>2, <2>3
<1>4. ASSUME NEW w \in Worker, Complete(w) \/ Defer(w) \/ Fail(w) \/ DeadLetter(w)
      PROVE KeepsHold(v, d)'
  <2>1. /\ cur[w] \in Event /\ \A e \in Event \ {cur[w]} : ev'[e] = ev[e]
        /\ batch' = [batch EXCEPT ![w] = @ \ {cur[w]}]
    BY <1>4, SettleSteps
  <2>2. fin' = fin /\ \A u \in Worker : u # w => pc'[u] = pc[u] /\ cur'[u] = cur[u]
    BY <1>4 DEF Complete, Defer, Fail, DeadLetter, Settle, Goto, stop
  <2>3. KeepsHold(v, d) /\ d \in Event
    BY <1>0, <2>1, <2>2
  <2>4. fin[w] = "none" /\ cur[w] \in batch[w] /\ KeepsHold(w, cur[w])
    BY <2>1 DEF StoppersAreIdle, BatchesAreHeld
  <2>5. d # cur[w]
    <3> SUFFICES ASSUME d = cur[w] PROVE FALSE
      OBVIOUS
    <3>1. v # w
      BY <2>1
    <3>2. QED
      BY <2>1, <2>3, <2>4, <3>1 DEF UnknownCompletion, HandlersDiffer
  <2>6. ev'[d] = ev[d]
    BY <2>1, <2>3, <2>5
  <2>7. CASE v = w
    BY <2>3, <2>5, <2>6, <2>7 DEF UnknownCompletion
  <2>8. CASE v # w
    BY <2>2, <2>3, <2>6, <2>8 DEF UnknownCompletion
  <2>9. QED
    BY <2>7, <2>8
<1>5. ASSUME NEW w \in Worker, CompleteFails(w) PROVE KeepsHold(v, d)'
  <2>1. cur[w] \in Event /\ UNCHANGED <<batch, cur, stop>>
    BY <1>5 DEF CompleteFails
  <2>2. KeepsHold(v, d) /\ d \in Event
    BY <1>0, <2>1 DEF stop
  <2>3. KeepsHold(w, cur[w]) /\ pc[w] = "complete"
    BY <1>5, <2>1 DEF CompleteFails, StoppersAreIdle, BatchesAreHeld
  <2>4. \A u \in Worker : u # w => pc'[u] = pc[u]
    BY <1>5 DEF CompleteFails, Goto
  <2>5. CASE v = w /\ d = cur[w]
    <3>1. ev' = ev \/ ("lostReply" \in Faults /\ ev'[cur[w]].status = "completed")
      BY <1>5, <2>1, <2>3, SettledRows DEF CompleteFails, Put, Present, UnknownCompletion
    <3>2. pc'[w] = "fail"
      BY <1>5 DEF CompleteFails, Goto
    <3>3. QED
      BY <2>1, <2>3, <2>5, <3>1, <3>2 DEF UnknownCompletion
  <2>6. CASE d # cur[w]
    <3>1. ev'[d] = ev[d]
      BY <1>5, <2>1, <2>2, <2>6 DEF CompleteFails, Put
    <3>2. cur[v] = d => v # w
      BY <2>6
    <3>3. QED
      BY <2>1, <2>2, <2>4, <3>1, <3>2 DEF UnknownCompletion
  <2>7. v # w /\ d = cur[w] => FALSE
    BY <2>1, <2>2, <2>3 DEF UnknownCompletion, HandlersDiffer
  <2>8. QED
    BY <2>5, <2>6, <2>7
<1>6. ASSUME NEW w \in Worker, NEW e \in Event, Release(w, e) PROVE KeepsHold(v, d)'
  <2>1. UNCHANGED <<loop, fin>> /\ fin[w] = "release"
    BY <1>6 DEF Release
  <2>2. KeepsHold(v, d) /\ d \in Event /\ v # w
    BY <1>0, <2>1 DEF loop
  <2>3. ev'[d] = ev[d]
    BY <1>6, <2>2 DEF Release, UnknownCompletion
  <2>4. QED
    BY <2>1, <2>2, <2>3 DEF loop, UnknownCompletion
<1>7. ASSUME NEW w \in Worker, Exit(w) \/ Crash(w) \/ RunRejects(w) PROVE KeepsHold(v, d)'
  <2>1. v # w
    BY <1>7, EndSteps
  <2>2. KeepsHold(v, d) /\ d \in Event
    BY <1>0, <1>7, <2>1, EndSteps
  <2>3. ev'[d] = ev[d]
    <3>1. ev[d].lockedBy # w \/ ev[d].status # "processing"
      BY <2>1, <2>2 DEF UnknownCompletion
    <3>2. QED
      BY <1>7, <2>2, <3>1, EndSteps
  <2>4. pc'[v] = pc[v] /\ cur'[v] = cur[v]
    BY <1>7, <2>1, EndSteps
  <2>5. QED
    BY <2>2, <2>3, <2>4 DEF UnknownCompletion
<1>8. ASSUME ev' = ev, batch' = batch, fin[v] # "release",
             UnknownCompletion(v, d) => pc'[v] = pc[v] /\ cur'[v] = cur[v]
      PROVE KeepsHold(v, d)'
  BY <1>0, <1>8 DEF UnknownCompletion
<1>9. ASSUME NEW w \in Worker,
             \/ StartClaim(w) \/ EndClaim(w) \/ Take(w) \/ EndBatch(w) \/ LeaveLoop(w)
             \/ ReadMarker(w) \/ ReadMarkerFails(w) \/ HandlerSucceeds(w) \/ HandlerFails(w)
             \/ HandlerMeetsBusyLease(w) \/ WriteMarker(w) \/ StartRelease(w)
             \/ (\E e \in Event : ReleaseFails(w, e))
             \/ RequestStop(w) \/ GraceExpires(w) \/ Restart(w)
      PROVE KeepsHold(v, d)'
  <2>1. ev' = ev /\ batch' = batch
    BY <1>9, QuietSteps
  <2>2. fin[v] # "release"
    BY <1>9 DEF StartClaim, EndClaim, Take, EndBatch, LeaveLoop, ReadMarker, ReadMarkerFails,
       HandlerSucceeds, HandlerFails, HandlerMeetsBusyLease, WriteMarker, StartRelease,
       ReleaseFails, RequestStop, GraceExpires, Restart, stop
  <2>3. pc[v] = "fail" => pc'[v] = pc[v] /\ cur'[v] = cur[v]
    BY <1>9 DEF StartClaim, EndClaim, Take, EndBatch, LeaveLoop, ReadMarker, ReadMarkerFails,
       HandlerSucceeds, HandlerFails, HandlerMeetsBusyLease, WriteMarker, StartRelease,
       ReleaseFails, RequestStop, GraceExpires, Restart, Goto, loop
  <2>4. QED
    BY <1>8, <2>1, <2>2, <2>3 DEF UnknownCompletion
<1>10. ASSUME NEW e \in Event, ExpireMarker(e) PROVE KeepsHold(v, d)'
  BY <1>8, <1>10 DEF ExpireMarker, rows, loop, stop
<1>11. CASE UNCHANGED vars
  BY <1>8, <1>11 DEF vars, rows, loop, stop
<1>12. QED
  BY <1>1, <1>2, <1>3, <1>4, <1>5, <1>6, <1>7, <1>9, <1>10, <1>11 DEF Next, LoopStep, StopStep

LEMMA HoldInit == Init => HoldInv
BY NewRows DEF Init, HoldInv, OnlyOrphansGoStale, StoppersAreIdle, BatchesAreHeld, HandlersDiffer

LEMMA HoldStep == Calm /\ TypeInv /\ HoldInv /\ [Next]_vars => HoldInv'
BY OrphanStep, StoppersStep, BatchesStep, HandlersStep DEF HoldInv

(* While handlers finish within the stale cutoff and the grace period, no    *)
(* two workers ever run the handler of the same event side by side, although *)
(* the updates that settle an event do not check its owner.                  *)
THEOREM OneHandler == Spec => []OneHandlerPerEvent
<1>1. CASE Calm
  <2>1. TypeInv /\ HoldInv /\ [Next]_vars => TypeInv' /\ HoldInv'
    BY <1>1, TypeStep, HoldStep
  <2>2. HoldInv => OneHandlerPerEvent
    BY DEF HoldInv, HandlersDiffer, OneHandlerPerEvent
  <2>3. QED
    BY TypeInit, HoldInit, <2>1, <2>2, PTL DEF Spec
<1>2. CASE ~Calm
  <2>1. OneHandlerPerEvent
    BY <1>2 DEF Calm, OneHandlerPerEvent
  <2>2. QED
    BY <2>1, PTL
<1>3. QED
  BY <1>1, <1>2

-----------------------------------------------------------------------------
(* Completed rows are final, and the outbox implements EventDelivery.  Both  *)
(* follow from what a worker in the middle of an event knows of its row.     *)

Faithful == Faults \cap {"overrun", "graceExpiry", "lostReply"} = {}

LEMMA BusyRows ==
    ASSUME Faithful, TypeInv, HoldInv, NEW w \in Worker, cur[w] # NoEvent
    PROVE  cur[w] \in Event /\ HeldBy(w, cur[w])
<1>1. cur[w] \in batch[w] /\ fin[w] = "none" /\ cur[w] \in Event
  BY DEF TypeInv, TypeOK, BusyInv, HoldInv, StoppersAreIdle
<1>2. QED
  BY <1>1 DEF HoldInv, BatchesAreHeld, UnknownCompletion, Faithful

(* What a step does to the status of a row.                                  *)
LEMMA StatusSteps ==
    ASSUME Faithful, TypeInv, HoldInv, [Next]_vars, NEW e \in Event, ev'[e].status # ev[e].status
    PROVE  \/ Enqueue(e) \/ Requeue(e) \/ Archive(e)
           \/ /\ ev[e].status \in {"pending", "failed", "processing"}
              /\ ev'[e].status \in {"processing", "failed"}
              /\ UNCHANGED successes
           \/ /\ ev[e].status = "processing"
              /\ \E w \in Worker : cur[w] = e /\ (Complete(w) \/ DeadLetter(w))
<1> USE DEF TypeInv, TypeOK
<1>1. ASSUME NEW d \in Event, Enqueue(d) \/ Requeue(d) \/ Archive(d) PROVE d = e
  BY <1>1 DEF Enqueue, Requeue, Archive
<1>2. ASSUME NEW d \in Event, Time(d) \/ ExpireMarker(d) PROVE FALSE
  BY <1>2, TimeSteps DEF ExpireMarker, rows
<1>3. ASSUME NEW w \in Worker, NEW d \in Event, ClaimOne(w, d)
      PROVE  /\ ev[e].status \in {"pending", "failed", "processing"}
             /\ ev'[e].status \in {"processing", "failed"}
             /\ UNCHANGED successes
  <2>1. d = e /\ e \in Claimable(w) /\ UNCHANGED successes
    BY <1>3 DEF ClaimOne, history
  <2>2. ev'[e].status = "processing"
    BY <1>3, <2>1, ClaimedRow DEF ClaimOne
  <2>3. OnlyOrphansGoStale
    BY DEF HoldInv
  <2>4. QED
    BY <2>1, <2>2, <2>3, ClaimableRows
<1>4. ASSUME NEW w \in Worker, Complete(w) \/ Defer(w) \/ Fail(w) \/ DeadLetter(w)
      PROVE  cur[w] = e /\ ev[e].status = "processing"
  <2>1. e = cur[w]
    BY <1>4, SettleSteps
  <2>2. HeldBy(w, e)
    BY <1>4, <2>1, BusyRows
  <2>3. QED
    BY <2>1, <2>2 DEF HeldBy
<1>5. ASSUME NEW w \in Worker, cur[w] = e, ev[e].status = "processing", Defer(w) \/ Fail(w)
      PROVE  ev'[e].status = "failed" /\ UNCHANGED successes
  BY <1>5, SettledRows DEF Defer, Fail, Put, Present, history
<1>6. ASSUME NEW w \in Worker, CompleteFails(w) PROVE FALSE
  BY <1>6 DEF CompleteFails, Faithful
<1>7. ASSUME NEW w \in Worker, NEW d \in Event, Release(w, d)
      PROVE  ev[e].status = "processing" /\ ev'[e].status = "failed" /\ UNCHANGED successes
  BY <1>7, SettledRows DEF Release, HeldBy, history
<1>8. ASSUME NEW w \in Worker, Exit(w) \/ Crash(w) \/ RunRejects(w) PROVE FALSE
  BY <1>8, EndSteps
<1>9. ev' # ev
  OBVIOUS
<1>10. QED
  BY <1>1, <1>2, <1>3, <1>4, <1>5, <1>6, <1>7, <1>8, <1>9, QuietSteps
     DEF Next, LoopStep, StopStep, vars, rows

(* A completed row stays completed until the archival job takes it: no late  *)
(* failure, deferral, hand-over or claim reopens it.                         *)
THEOREM CompletedStays == Spec => CompletedIsFinal
<1>1. CASE Faithful
  <2>1. Calm
    BY <1>1 DEF Calm, Faithful
  <2>2. TypeInv /\ HoldInv /\ [Next]_vars => TypeInv' /\ HoldInv'
    BY <2>1, TypeStep, HoldStep
  <2>3. TypeInv /\ HoldInv /\ [Next]_vars =>
          [\A e \in Event : ev[e].status = "completed" =>
              ev'[e].status \in {"completed", "absent"}]_vars
    <3> SUFFICES ASSUME TypeInv, HoldInv, [Next]_vars, NEW e \in Event, ev[e].status = "completed",
                        ev'[e].status # ev[e].status
                 PROVE  ev'[e].status = "absent"
      BY Zenon
    <3>1. Archive(e)
      BY <1>1, StatusSteps DEF Enqueue, Requeue, Present
    <3>2. QED
      BY <3>1, NewRows DEF Archive, TypeInv, TypeOK
  <2>4. QED
    BY TypeInit, HoldInit, <2>2, <2>3, PTL DEF Spec, CompletedIsFinal
<1>2. CASE ~Faithful
  <2>1. ~(Faults \cap {"overrun", "graceExpiry", "lostReply"} = {})
    BY <1>2 DEF Faithful
  <2>2. QED
    BY <2>1, PTL DEF CompletedIsFinal
<1>3. QED
  BY <1>1, <1>2

States    == [e \in Event |-> DeliveryState(e)]
Delivered == {e \in Event : successes[e] > 0}

LEMMA StateOf ==
    ASSUME TypeOK, NEW e \in Event
    PROVE  /\ ev[e].status = "absent" => DeliveryState(e) = "none"
           /\ ev[e].status = "completed" => DeliveryState(e) = "finished"
           /\ ev[e].status = "dead_letter" => DeliveryState(e) = "dead"
           /\ ev[e].status \in {"pending", "failed", "processing"} => DeliveryState(e) = "queued"
BY DEF DeliveryState

LEMMA DeliveryInit == Init => Delivery!Init
BY NewRows DEF Init, Delivery!Init, DeliveryState

LEMMA DeliveryStep ==
    ASSUME Faithful, TypeInv, TypeOK', HoldInv, HandledInv, [Next]_vars
    PROVE  [Delivery!Next]_(Delivery!vars)
<1> USE DEF TypeInv, TypeOK
<1>1. ASSUME NEW e \in Event, Enqueue(e) PROVE Delivery!Submit(e)
  <2>1. ev[e].status = "absent" /\ ev' = [ev EXCEPT ![e] = FreshRow] /\ UNCHANGED successes
    BY <1>1 DEF Enqueue, Present, history
  <2>2. DeliveryState(e) = "none" /\ DeliveryState(e)' = "queued"
    BY <2>1, NewRows DEF DeliveryState
  <2>3. \A d \in Event \ {e} : DeliveryState(d)' = DeliveryState(d)
    BY <2>1 DEF DeliveryState
  <2>4. QED
    BY <2>1, <2>2, <2>3 DEF Delivery!Submit, Delivery!Move
<1>2. ASSUME NEW e \in Event, Requeue(e) PROVE Delivery!Revive(e)
  <2>1. ev[e].status = "dead_letter" /\ ev' = [ev EXCEPT ![e] = FreshRow] /\ UNCHANGED successes
    BY <1>2 DEF Requeue
  <2>2. DeliveryState(e) = "dead" /\ DeliveryState(e)' = "queued"
    BY <2>1, NewRows DEF DeliveryState
  <2>3. \A d \in Event \ {e} : DeliveryState(d)' = DeliveryState(d)
    BY <2>1 DEF DeliveryState
  <2>4. QED
    BY <2>1, <2>2, <2>3 DEF Delivery!Revive, Delivery!Move
<1>3. ASSUME NEW e \in Event, Archive(e) PROVE Delivery!Forget(e)
  <2>1. /\ ev[e].status \in {"completed", "dead_letter"}
        /\ ev' = [ev EXCEPT ![e] = NoRow]
        /\ successes' = [successes EXCEPT ![e] = 0]
    BY <1>3 DEF Archive, Terminal
  <2>2. DeliveryState(e) \in {"finished", "dead"} /\ DeliveryState(e)' = "none"
    BY <2>1, NewRows DEF DeliveryState
  <2>3. \A d \in Event \ {e} : DeliveryState(d)' = DeliveryState(d)
    BY <2>1 DEF DeliveryState
  <2>4. Delivered' = Delivered \ {e}
    BY <2>1 DEF Delivered
  <2>5. QED
    BY <2>2, <2>3, <2>4 DEF Delivery!Forget, Delivery!Move, Delivered
<1>4. ASSUME NEW w \in Worker, Complete(w) \/ DeadLetter(w)
      PROVE  Delivery!Finish(cur[w]) \/ Delivery!GiveUp(cur[w])
  <2>1. cur[w] \in Event /\ HeldBy(w, cur[w])
    BY <1>4, BusyRows DEF Complete, DeadLetter, BusyInv, Working
  <2>2. PICK e \in Event : e = cur[w] /\ ev[e] \in Row /\ ev[e].status = "processing"
    BY <2>1 DEF HeldBy
  <2>3. DeliveryState(e) = "queued" /\ UNCHANGED successes
    BY <1>4, <2>2 DEF DeliveryState, Complete, DeadLetter, history
  <2>4. \A d \in Event \ {e} : DeliveryState(d)' = DeliveryState(d)
    BY <1>4, <2>2, SettleSteps DEF DeliveryState
  <2>5. CASE Complete(w)
    <3>1. ev' = [ev EXCEPT ![e] = Completed(ev[e])] /\ successes[e] > 0
      BY <2>2, <2>5 DEF Complete, Put, Present, HandledInv
    <3>2. ev'[e].status = "completed"
      BY <2>2, <3>1, SettledRows
    <3>3. DeliveryState(e)' = "finished"
      BY <3>2 DEF DeliveryState
    <3>4. Delivery!Finish(e)
      BY <2>3, <2>4, <3>1, <3>3 DEF Delivery!Finish, Delivery!Move
    <3>5. QED
      BY <2>2, <3>4
  <2>6. CASE DeadLetter(w)
    <3>1. ev' = [ev EXCEPT ![e] = DeadLettered(ev[e])]
      BY <2>2, <2>6 DEF DeadLetter, Put, Present
    <3>2. ev'[e].status = "dead_letter"
      BY <2>2, <3>1, SettledRows
    <3>3. DeliveryState(e)' = "dead"
      BY <3>2 DEF DeliveryState
    <3>4. Delivery!GiveUp(e)
      BY <2>3, <2>4, <3>3 DEF Delivery!GiveUp, Delivery!Move
    <3>5. QED
      BY <2>2, <3>4
  <2>7. QED
    BY <1>4, <2>5, <2>6
<1>5. ASSUME \A e \in Event : ~(Enqueue(e) \/ Requeue(e) \/ Archive(e)),
             \A w \in Worker : ~(Complete(w) \/ DeadLetter(w))
      PROVE  States' = States
  <2>1. ASSUME NEW e \in Event PROVE DeliveryState(e)' = DeliveryState(e)
    <3>1. CASE ev'[e].status = ev[e].status
      BY <3>1 DEF DeliveryState
    <3>2. CASE ev'[e].status # ev[e].status
      <4>1. /\ ev[e].status \in {"pending", "failed", "processing"}
            /\ ev'[e].status \in {"processing", "failed"}
        BY <1>5, <3>2, StatusSteps
      <4>2. QED
        BY <4>1 DEF DeliveryState
    <3>3. QED
      BY <3>1, <3>2
  <2>2. QED
    BY <2>1 DEF States
<1>6. ASSUME NEW w \in Worker, HandlerSucceeds(w)
      PROVE  \E e \in Event : Delivery!Deliver(e)
  <2>1. PICK e \in Event : e = cur[w] /\ HeldBy(w, e)
    BY <1>6, BusyRows DEF HandlerSucceeds, BusyInv, Working
  <2>2. DeliveryState(e) = "queued"
    BY <2>1 DEF DeliveryState, HeldBy
  <2>3. States' = States
    BY <1>6 DEF HandlerSucceeds, rows, States, DeliveryState
  <2>4. Delivered' = Delivered \cup {e}
    BY <1>6, <2>1 DEF HandlerSucceeds, Delivered
  <2>5. Delivery!Deliver(e)
    BY <2>1, <2>2, <2>3, <2>4 DEF Delivery!Deliver, States, Delivered
  <2>6. QED
    BY <2>5
<1>7. ASSUME \A e \in Event : ~(Enqueue(e) \/ Requeue(e) \/ Archive(e)),
             \A w \in Worker : ~HandlerSucceeds(w)
      PROVE  successes' = successes
  BY <1>7 DEF Next, Time, BecomeDue, BecomeStale, ExpireMarker, LoopStep, StopStep, StartClaim,
     ClaimOne, EndClaim, Take, EndBatch, LeaveLoop, ReadMarker, ReadMarkerFails, HandlerFails,
     HandlerMeetsBusyLease, WriteMarker, Complete, CompleteFails, Defer, Fail, DeadLetter,
     StartRelease, Release, ReleaseFails, Exit, Crash, RunRejects, ProcessEnds, RequestStop,
     GraceExpires, Restart, history, vars
<1>8. CASE \E e \in Event : Enqueue(e) \/ Requeue(e) \/ Archive(e)
  BY <1>1, <1>2, <1>3, <1>8 DEF Delivery!Next
<1>9. CASE \E w \in Worker : Complete(w) \/ DeadLetter(w)
  <2>1. PICK w \in Worker : Complete(w) \/ DeadLetter(w)
    BY <1>9
  <2>2. cur[w] \in Event
    BY <2>1, SettleSteps
  <2>3. QED
    BY <1>4, <2>1, <2>2 DEF Delivery!Next
<1>10. CASE \E w \in Worker : HandlerSucceeds(w)
  <2>1. PICK w \in Worker : HandlerSucceeds(w)
    BY <1>10
  <2>2. QED
    BY <1>6, <2>1 DEF Delivery!Next
<1>11. CASE /\ \A e \in Event : ~(Enqueue(e) \/ Requeue(e) \/ Archive(e))
            /\ \A w \in Worker : ~(Complete(w) \/ DeadLetter(w)) /\ ~HandlerSucceeds(w)
  BY <1>5, <1>7, <1>11 DEF Delivery!vars, States
<1>12. QED
  BY <1>8, <1>9, <1>10, <1>11

(* The outbox keeps its promise to producers: every step of the rows, the    *)
(* loop and the shutdown is a step of at-least-once delivery or invisible.   *)
THEOREM ImplementsDelivery == Faithful => (Spec => DeliversAtLeastOnce)
<1> SUFFICES ASSUME Faithful PROVE Spec => DeliversAtLeastOnce
  OBVIOUS
<1> DEFINE AllInv == TypeInv /\ HoldInv /\ HandledInv
<1>1. Init => AllInv
  BY TypeInit, HoldInit, NewRows DEF Init, HandledInv, OnlyHandledEventsFinish
<1>2. AllInv /\ [Next]_vars => AllInv'
  BY TypeStep, HoldStep, HandledStep DEF Calm, Faithful
<1>3. AllInv /\ AllInv' /\ [Next]_vars => [Delivery!Next]_(Delivery!vars)
  BY DeliveryStep DEF TypeInv
<1> HIDE DEF AllInv
<1>4. QED
  BY DeliveryInit, <1>1, <1>2, <1>3, PTL DEF Spec, DeliversAtLeastOnce, Delivery!Spec
-----------------------------------------------------------------------------
(* The counter of attempts.                                                  *)

LEMMA CountedRows ==
    ASSUME NEW row \in Row, NEW w \in Worker
    PROVE  /\ ClaimedBy(w, row).attempts = row.attempts + 1
           /\ Completed(row).attempts = row.attempts
           /\ Failed(row).attempts = row.attempts
           /\ DeadLettered(row).attempts = row.attempts
           /\ Deferred(row).attempts = row.attempts - 1
           /\ HandedBack(row).attempts = row.attempts - 1
BY DEF Row, ClaimedBy, Completed, Failed, DeadLettered, Deferred, HandedBack, Unlocked, LockedBy

(* The claim of e is under way, or was never given back since it succeeded   *)
Charged(e) == ev[e].status = "completed" \/ \E w \in Worker : HeldBy(w, e)

Counted(e) ==
    /\ Present(e) => ev[e].attempts = spent[e] + IF Charged(e) THEN 1 ELSE 0
    /\ ~Present(e) => spent[e] = 0

(* Two rows with the same status, owner and attempts are counted alike.      *)
LEMMA CountedAlike ==
    ASSUME NEW e \in Event, Counted(e), spent'[e] = spent[e],
           ev'[e].status = ev[e].status, ev'[e].lockedBy = ev[e].lockedBy,
           ev'[e].attempts = ev[e].attempts
    PROVE  Counted(e)'
BY DEF Counted, Charged, Present, HeldBy

LEMMA CountStep ==
    ASSUME Faithful, TypeInv, HoldInv, [Next]_vars, NEW e \in Event, Counted(e)
    PROVE  Counted(e)'
<1> USE DEF TypeInv, TypeOK
<1>r. ev[e] \in Row
  OBVIOUS
<1>1. CASE ev'[e] = ev[e] /\ spent'[e] = spent[e]
  BY <1>1, CountedAlike
<1>2. ASSUME NEW d \in Event, Enqueue(d) \/ Requeue(d) \/ Archive(d) PROVE Counted(e)'
  <2>1. CASE d # e
    BY <1>1, <1>2, <2>1 DEF Enqueue, Requeue, Archive, history
  <2>2. CASE d = e /\ (Enqueue(e) \/ Requeue(e))
    <3>1. ev'[e] = FreshRow /\ spent'[e] = 0
      BY <2>2 DEF Enqueue, Requeue, history, Counted
    <3> QED BY <3>1 DEF Counted, Charged, Present, HeldBy, FreshRow
  <2>3. CASE d = e /\ Archive(e)
    <3>1. ev'[e] = NoRow /\ spent'[e] = 0
      BY <2>3 DEF Archive
    <3> QED BY <3>1 DEF Counted, Present, NoRow
  <2> QED BY <1>2, <2>1, <2>2, <2>3
<1>3. ASSUME NEW d \in Event, Time(d) PROVE Counted(e)'
  <2>1. spent'[e] = spent[e] /\ ev[d] \in Row
    BY <1>3 DEF Time, BecomeDue, BecomeStale, history
  <2>2. \/ ev' = [ev EXCEPT ![d] = [ev[d] EXCEPT !.due = TRUE]]
        \/ ev' = [ev EXCEPT ![d] = [ev[d] EXCEPT !.stale = TRUE]]
    BY <1>3 DEF Time, BecomeDue, BecomeStale
  <2>3. /\ [ev[d] EXCEPT !.due = TRUE].attempts = ev[d].attempts
        /\ [ev[d] EXCEPT !.stale = TRUE].attempts = ev[d].attempts
    BY <2>1 DEF Row
  <2>4. ev'[e].attempts = ev[e].attempts
    BY <2>2, <2>3
  <2> QED BY <1>3, <2>1, <2>4, TimeSteps, CountedAlike
<1>4. ASSUME NEW w \in Worker, NEW d \in Event, ClaimOne(w, d) PROVE Counted(e)'
  <2>1. CASE d # e
    <3>1. ev' = [ev EXCEPT ![d] = ClaimedBy(w, ev[d])] /\ spent'[e] = spent[e]
      BY <1>4 DEF ClaimOne, history
    <3>2. ev'[e] = ev[e]
      BY <2>1, <3>1
    <3> QED BY <1>1, <3>1, <3>2
  <2>2. CASE d = e
    <3>1. ev'[e] = ClaimedBy(w, ev[e]) /\ spent'[e] = spent[e] /\ e \in Claimable(w)
      BY <1>4, <2>2 DEF ClaimOne, history
    <3>2. ~Charged(e) /\ Present(e)
      BY <3>1, ClaimableRows DEF HoldInv, Charged, HeldBy, Present
    <3>3. Charged(e)' /\ Present(e)'
      BY <3>1, <1>r, ClaimedRow DEF Charged, HeldBy, Present
    <3> QED BY <3>1, <3>2, <3>3, <1>r, CountedRows DEF Counted, Row
  <2> QED BY <2>1, <2>2
<1>5. ASSUME NEW w \in Worker, Complete(w) \/ Defer(w) \/ Fail(w) \/ DeadLetter(w)
      PROVE  Counted(e)'
  <2>1. CASE cur[w] # e
    <3>1. ev'[e] = ev[e]
      BY <1>5, <2>1, SettleSteps
    <3>2. spent'[e] = spent[e]
      BY <1>5, <2>1 DEF Complete, Defer, Fail, DeadLetter, history
    <3> QED BY <1>1, <3>1, <3>2
  <2>2. CASE cur[w] = e
    <3>1. HeldBy(w, e) /\ Present(e)
      BY <2>2, BusyRows DEF HeldBy, Present
    <3>2. ev[e].attempts = spent[e] + 1
      BY <3>1 DEF Counted, Charged
    <3>3. CASE Complete(w)
      <4>1. ev'[e] = Completed(ev[e]) /\ spent'[e] = spent[e]
        BY <2>2, <3>1, <3>3 DEF Complete, Put, history
      <4> QED BY <3>2, <4>1, <1>r, SettledRows, CountedRows DEF Counted, Charged, Present
    <3>4. CASE Defer(w)
      <4>1. ev'[e] = Deferred(ev[e]) /\ spent'[e] = spent[e]
        BY <2>2, <3>1, <3>4 DEF Defer, Put, history
      <4>2. ev'[e].attempts = ev[e].attempts - 1 /\ ev'[e].status = "failed"
        BY <4>1, <1>r, SettledRows, CountedRows
      <4>3. ~Charged(e)' /\ Present(e)'
        BY <4>2 DEF Charged, Present, HeldBy
      <4> QED BY <3>2, <4>1, <4>2, <4>3 DEF Counted
    <3>5. CASE Fail(w) \/ DeadLetter(w)
      <4>1. /\ ev'[e] \in {Failed(ev[e]), DeadLettered(ev[e])}
            /\ spent'[e] = spent[e] + 1
        BY <2>2, <3>1, <3>5 DEF Fail, DeadLetter, Put
      <4>2. ev'[e].attempts = ev[e].attempts /\ ev'[e].status \in {"failed", "dead_letter"}
        BY <4>1, <1>r, SettledRows, CountedRows
      <4>3. ~Charged(e)' /\ Present(e)'
        BY <4>2 DEF Charged, Present, HeldBy
      <4> QED BY <3>2, <4>1, <4>2, <4>3 DEF Counted
    <3> QED BY <1>5, <3>3, <3>4, <3>5
  <2> QED BY <2>1, <2>2
<1>6. ASSUME NEW w \in Worker, NEW d \in Event, Release(w, d) PROVE Counted(e)'
  <2>1. CASE ev'[e] = ev[e]
    BY <1>1, <1>6, <2>1 DEF Release, history
  <2>2. CASE ev'[e] # ev[e]
    <3>1. ev'[e] = HandedBack(ev[e]) /\ HeldBy(w, e) /\ spent'[e] = spent[e]
      BY <1>6, <2>2 DEF Release, history
    <3>2. ev[e].attempts = spent[e] + 1
      BY <3>1 DEF Counted, Charged, Present, HeldBy
    <3>3. ev'[e].attempts = ev[e].attempts - 1 /\ ev'[e].status = "failed"
      BY <3>1, <1>r, SettledRows, CountedRows
    <3>4. ~Charged(e)' /\ Present(e)'
      BY <3>3 DEF Charged, Present, HeldBy
    <3> QED BY <3>1, <3>2, <3>3, <3>4 DEF Counted
  <2> QED BY <2>1, <2>2
<1>7. ASSUME NEW w \in Worker, Exit(w) \/ Crash(w) \/ RunRejects(w) PROVE Counted(e)'
  <2>1. ProcessEnds(w)
    BY <1>7 DEF Exit, Crash, RunRejects
  <2>2. CASE ~HeldBy(w, e)
    BY <1>1, <2>1, <2>2 DEF ProcessEnds
  <2>3. CASE HeldBy(w, e)
    <3>1. ev'[e] = [ev[e] EXCEPT !.lockedBy = Gone] /\ spent'[e] = spent[e] + 1
      BY <2>1, <2>3 DEF ProcessEnds
    <3>2. ev'[e].attempts = ev[e].attempts /\ ev'[e].status = "processing" /\ ev'[e].lockedBy = Gone
      BY <3>1, <2>3, <1>r DEF Row, HeldBy
    <3>3. ev[e].attempts = spent[e] + 1
      BY <2>3 DEF Counted, Charged, Present, HeldBy
    <3> QED BY <3>1, <3>2, <3>3 DEF Counted, Charged, Present, HeldBy
  <2> QED BY <2>2, <2>3
<1>8. ASSUME NEW w \in Worker, CompleteFails(w) PROVE Counted(e)'
  BY <1>1, <1>8 DEF CompleteFails, Faithful, history
<1>9. ASSUME NEW d \in Event, ExpireMarker(d) PROVE Counted(e)'
  BY <1>1, <1>9 DEF ExpireMarker, rows, history
<1>10. CASE UNCHANGED vars
  BY <1>1, <1>10 DEF vars, rows, history
<1>11. ASSUME NEW w \in Worker,
              \/ StartClaim(w) \/ EndClaim(w) \/ Take(w) \/ EndBatch(w) \/ LeaveLoop(w)
              \/ ReadMarker(w) \/ ReadMarkerFails(w) \/ HandlerSucceeds(w) \/ HandlerFails(w)
              \/ HandlerMeetsBusyLease(w) \/ WriteMarker(w) \/ StartRelease(w)
              \/ (\E d \in Event : ReleaseFails(w, d))
              \/ RequestStop(w) \/ GraceExpires(w) \/ Restart(w)
       PROVE  Counted(e)'
  <2>1. spent' = spent
    BY <1>11 DEF StartClaim, EndClaim, Take, EndBatch, LeaveLoop, ReadMarker, ReadMarkerFails,
       HandlerSucceeds, HandlerFails, HandlerMeetsBusyLease, WriteMarker, StartRelease,
       ReleaseFails, RequestStop, GraceExpires, Restart, history
  <2> QED BY <1>1, <1>11, <2>1, QuietSteps
<1> QED
  BY <1>2, <1>3, <1>4, <1>5, <1>6, <1>7, <1>8, <1>9, <1>10, <1>11 DEF Next, LoopStep, StopStep

(* The attempts of a row, which decide about its dead letter, are the claims *)
(* that ended in an error or died with their process, and the one that is    *)
(* under way: a busy lease and a stop cost nothing, and no failure is lost.  *)
THEOREM AttemptsAreSpent == Faithful => (Spec => []AttemptsCountSpentClaims)
<1> SUFFICES ASSUME Faithful PROVE Spec => []AttemptsCountSpentClaims
  OBVIOUS
<1> DEFINE Inv == \A e \in Event : Counted(e)
<1>1. Calm
  BY DEF Calm, Faithful
<1>2. Init => Inv
  BY NewRows DEF Init, Counted, Present
<1>3. TypeInv /\ HoldInv /\ Inv /\ [Next]_vars => TypeInv' /\ HoldInv' /\ Inv'
  BY <1>1, TypeStep, HoldStep, CountStep
<1>4. Inv => AttemptsCountSpentClaims
  BY DEF Counted, Charged, AttemptsCountSpentClaims
<1> HIDE DEF Inv
<1>5. QED
  BY TypeInit, HoldInit, <1>2, <1>3, <1>4, PTL DEF Spec
-----------------------------------------------------------------------------
(* The marker.  A handler is under way only for an event that is not marked: *)
(* the one worker that could mark it is the one that handles it.             *)

MarkerInv ==
    /\ \A w \in Worker : pc[w] = "handle" => cur[w] \notin marker
    /\ ~UseRedis => marker = {} /\ \A w \in Worker : pc[w] # "mark"

LEMMA MarkerStep ==
    ASSUME TypeInv, HoldInv, MarkerInv, [Next]_vars
    PROVE  MarkerInv'
<1> USE DEF TypeInv, TypeOK, MarkerInv
<1>1. ASSUME marker' \subseteq marker, UNCHANGED <<pc, cur>> PROVE MarkerInv'
  BY <1>1
<1>2. ASSUME NEW w \in Worker, NEW p \in Points \ {"handle", "mark"},
             marker' \subseteq marker, pc' = [pc EXCEPT ![w] = p],
             \A v \in Worker \ {w} : cur'[v] = cur[v]
      PROVE  MarkerInv'
  BY <1>2 DEF Points
<1>3. ASSUME NEW d \in Event,
             Enqueue(d) \/ Requeue(d) \/ Archive(d) \/ ExpireMarker(d) \/ Time(d)
      PROVE  MarkerInv'
  BY <1>1, <1>3 DEF Enqueue, Requeue, Archive, ExpireMarker, Time, BecomeDue, BecomeStale, loop
<1>4. ASSUME NEW w \in Worker, NEW d \in Event, ClaimOne(w, d) PROVE MarkerInv'
  BY <1>1, <1>4 DEF ClaimOne
<1>5. ASSUME NEW w \in Worker, StartClaim(w) \/ EndClaim(w) \/ EndBatch(w) \/ LeaveLoop(w) \/ Restart(w)
      PROVE  MarkerInv'
  BY <1>2, <1>5 DEF StartClaim, EndClaim, EndBatch, LeaveLoop, Restart, Goto, loop, Points
<1>6. ASSUME NEW w \in Worker, Take(w) PROVE MarkerInv'
  BY <1>2, <1>6 DEF Take, Goto, Points
<1>7. ASSUME NEW w \in Worker, ReadMarker(w) PROVE MarkerInv'
  BY <1>7 DEF ReadMarker, Goto
<1>8. ASSUME NEW w \in Worker, ReadMarkerFails(w) \/ HandlerFails(w) \/ HandlerMeetsBusyLease(w) \/ CompleteFails(w)
      PROVE  MarkerInv'
  BY <1>2, <1>8 DEF ReadMarkerFails, HandlerFails, HandlerMeetsBusyLease, CompleteFails, Goto, Points
<1>9. ASSUME NEW w \in Worker, HandlerSucceeds(w) PROVE MarkerInv'
  BY <1>9 DEF HandlerSucceeds, Goto
<1>10. ASSUME NEW w \in Worker, WriteMarker(w) PROVE MarkerInv'
  <2>1. UseRedis /\ cur[w] \in Event /\ UNCHANGED cur
    BY <1>10 DEF WriteMarker, BusyInv, Working
  <2>2. marker' \subseteq marker \cup {cur[w]} /\ pc' = [pc EXCEPT ![w] = "complete"]
    BY <1>10 DEF WriteMarker, Goto
  <2>3. \A v \in Worker \ {w} : cur[v] # cur[w]
    BY <2>1 DEF HoldInv, HandlersDiffer
  <2> QED BY <2>1, <2>2, <2>3
<1>11. ASSUME NEW w \in Worker, Complete(w) \/ Defer(w) \/ Fail(w) \/ DeadLetter(w) PROVE MarkerInv'
  BY <1>2, <1>11 DEF Complete, Defer, Fail, DeadLetter, Settle, Goto, Points
<1>12. ASSUME NEW w \in Worker, RequestStop(w) \/ GraceExpires(w) \/ StartRelease(w) PROVE MarkerInv'
  BY <1>1, <1>12 DEF RequestStop, GraceExpires, StartRelease, loop
<1>13. ASSUME NEW w \in Worker, NEW d \in Event, Release(w, d) \/ ReleaseFails(w, d) PROVE MarkerInv'
  BY <1>1, <1>13 DEF Release, ReleaseFails, loop
<1>14. ASSUME NEW w \in Worker, Exit(w) \/ Crash(w) \/ RunRejects(w) PROVE MarkerInv'
  BY <1>2, <1>14 DEF Exit, Crash, RunRejects, ProcessEnds, Goto, Points
<1>15. CASE UNCHANGED vars
  BY <1>1, <1>15 DEF vars, loop
<1> QED
  BY <1>3, <1>4, <1>5, <1>6, <1>7, <1>8, <1>9, <1>10, <1>11, <1>12, <1>13, <1>14, <1>15
     DEF Next, LoopStep, StopStep

LEMMA SuccessSteps ==
    ASSUME TypeInv, [Next]_vars, NEW e \in Event
    PROVE  \/ successes'[e] <= successes[e]
           \/ \E w \in Worker : pc[w] = "handle" /\ cur[w] = e
<1> USE DEF TypeInv, TypeOK
<1>1. ASSUME successes' = successes PROVE successes'[e] <= successes[e]
  BY <1>1
<1>2. ASSUME NEW d \in Event, Archive(d) PROVE successes'[e] <= successes[e]
  BY <1>2 DEF Archive
<1>3. ASSUME NEW d \in Event, Enqueue(d) \/ Requeue(d) \/ ExpireMarker(d) \/ Time(d)
      PROVE  successes' = successes
  BY <1>3 DEF Enqueue, Requeue, ExpireMarker, Time, BecomeDue, BecomeStale, history
<1>4. ASSUME NEW w \in Worker, HandlerSucceeds(w), cur[w] # e PROVE successes'[e] <= successes[e]
  BY <1>4 DEF HandlerSucceeds
<1>5. ASSUME NEW w \in Worker,
             \/ StartClaim(w) \/ (\E d \in Event : ClaimOne(w, d)) \/ EndClaim(w) \/ Take(w)
             \/ EndBatch(w) \/ LeaveLoop(w) \/ ReadMarker(w) \/ ReadMarkerFails(w)
             \/ HandlerFails(w) \/ HandlerMeetsBusyLease(w) \/ WriteMarker(w)
             \/ Complete(w) \/ CompleteFails(w) \/ Defer(w) \/ Fail(w) \/ DeadLetter(w)
             \/ RequestStop(w) \/ GraceExpires(w) \/ StartRelease(w) \/ Restart(w)
             \/ (\E d \in Event : Release(w, d) \/ ReleaseFails(w, d))
             \/ Exit(w) \/ Crash(w) \/ RunRejects(w)
      PROVE  successes' = successes
  BY <1>5 DEF StartClaim, ClaimOne, EndClaim, Take, EndBatch, LeaveLoop, ReadMarker,
     ReadMarkerFails, HandlerFails, HandlerMeetsBusyLease, WriteMarker, Complete, CompleteFails,
     Defer, Fail, DeadLetter, RequestStop, GraceExpires, StartRelease, Restart, Release,
     ReleaseFails, Exit, Crash, RunRejects, ProcessEnds, history
<1>6. ASSUME UNCHANGED vars PROVE successes' = successes
  BY <1>6 DEF vars, history
<1>7. ASSUME NEW w \in Worker, HandlerSucceeds(w), cur[w] = e PROVE pc[w] = "handle"
  BY <1>7 DEF HandlerSucceeds
<1> QED
  BY <1>1, <1>2, <1>3, <1>4, <1>5, <1>6, <1>7 DEF Next, LoopStep, StopStep

(* While handlers finish within the stale cutoff and the grace period, no    *)
(* handler succeeds for an event that is marked, whatever became of the      *)
(* completing update. (processOutboxEventOnce)                               *)
THEOREM MarkedOnce == Spec => MarkedIsNotRepeated
<1>1. CASE Calm
  <2>1. TypeInv /\ HoldInv /\ MarkerInv /\ [Next]_vars => TypeInv' /\ HoldInv' /\ MarkerInv'
    BY <1>1, TypeStep, HoldStep, MarkerStep
  <2>2. Init => MarkerInv
    BY DEF Init, MarkerInv
  <2>3. TypeInv /\ MarkerInv /\ [Next]_vars =>
          [\A e \in marker : successes'[e] <= successes[e]]_vars
    <3> SUFFICES ASSUME TypeInv, MarkerInv, [Next]_vars, NEW e \in marker
                 PROVE  successes'[e] <= successes[e]
      BY Zenon
    <3>1. e \in Event
      BY DEF TypeInv, TypeOK
    <3> QED BY <3>1, SuccessSteps DEF MarkerInv
  <2>4. QED
    BY TypeInit, HoldInit, <2>1, <2>2, <2>3, PTL DEF Spec, MarkedIsNotRepeated
<1>2. CASE ~Calm
  <2>1. ~(Faults \cap {"overrun", "graceExpiry"} = {})
    BY <1>2 DEF Calm
  <2>2. QED
    BY <2>1, PTL DEF MarkedIsNotRepeated
<1>3. QED
  BY <1>1, <1>2
-----------------------------------------------------------------------------
(* The stop.  From when a worker has read what it is to hand back it claims  *)
(* nothing, and what it still holds is on its list or could not be handed    *)
(* back.                                                                     *)

ReleaseInv ==
    \A w \in Worker :
        /\ fin[w] # "none" => requested[w]
        /\ fin[w] = "release" =>
              /\ pc[w] # "claim"
              /\ \A e \in Event : HeldBy(w, e) => e \in toRelease[w] \cup unreleased[w]

(* No step but a claim gives a row to a worker.                              *)
LEMMA HeldSteps ==
    ASSUME TypeInv, [Next]_vars, NEW w \in Worker, NEW e \in Event, HeldBy(w, e)', ~HeldBy(w, e)
    PROVE  ClaimOne(w, e)
<1> USE DEF TypeInv, TypeOK
<1>1. ASSUME NEW d \in Event, Enqueue(d) \/ Requeue(d) \/ Archive(d) PROVE FALSE
  <2>1. ev'[d] \in {FreshRow, NoRow} /\ \A c \in Event \ {d} : ev'[c] = ev[c]
    BY <1>1 DEF Enqueue, Requeue, Archive
  <2> QED BY <2>1, NewRows DEF HeldBy
<1>2. ASSUME NEW d \in Event, Time(d) \/ ExpireMarker(d) PROVE FALSE
  BY <1>2, TimeSteps DEF ExpireMarker, rows, HeldBy
<1>3. ASSUME NEW v \in Worker, NEW d \in Event, ClaimOne(v, d) PROVE v = w /\ d = e
  <2>1. ev' = [ev EXCEPT ![d] = ClaimedBy(v, ev[d])] /\ ev[d] \in Row
    BY <1>3 DEF ClaimOne
  <2>2. ClaimedBy(v, ev[d]).lockedBy = v
    BY <2>1, ClaimedRow
  <2> QED BY <2>1, <2>2 DEF HeldBy
<1>4. ASSUME NEW v \in Worker, Complete(v) \/ Defer(v) \/ Fail(v) \/ DeadLetter(v) PROVE FALSE
  BY <1>4, SettleSteps DEF HeldBy
<1>5. ASSUME NEW v \in Worker, CompleteFails(v) PROVE FALSE
  <2>1. cur[v] \in Event /\ ev[cur[v]] \in Row
    BY <1>5 DEF CompleteFails, BusyInv, Working
  <2> QED BY <1>5, <2>1, SettledRows DEF CompleteFails, Put, HeldBy
<1>6. ASSUME NEW v \in Worker, NEW d \in Event, Release(v, d) PROVE FALSE
  BY <1>6, SettledRows DEF Release, HeldBy
<1>7. ASSUME NEW v \in Worker, Exit(v) \/ Crash(v) \/ RunRejects(v) PROVE FALSE
  BY <1>7, EndSteps DEF HeldBy
<1>8. ev' # ev
  BY DEF HeldBy
<1> QED
  BY <1>1, <1>2, <1>3, <1>4, <1>5, <1>6, <1>7, <1>8, QuietSteps
     DEF Next, LoopStep, StopStep, vars, rows

(* What a worker that hands back goes through until its process ends.        *)
StopGoesOn(w) ==
    /\ fin[w] = "release" /\ requested'[w] /\ pc'[w] # "claim"
    /\ \/ toRelease'[w] = toRelease[w] /\ unreleased'[w] = unreleased[w]
       \/ \E e \in Event : Release(w, e) \/ ReleaseFails(w, e)

LEMMA HandingBack ==
    ASSUME TypeInv, ReleaseInv, [Next]_vars, NEW w \in Worker, fin'[w] = "release"
    PROVE  StartRelease(w) \/ StopGoesOn(w)
<1> USE DEF TypeInv, TypeOK, ReleaseInv
<1>1. ASSUME UNCHANGED <<pc, requested, fin, toRelease, unreleased>> PROVE StopGoesOn(w)
  BY <1>1 DEF StopGoesOn
<1>2. ASSUME NEW d \in Event,
             Enqueue(d) \/ Requeue(d) \/ Archive(d) \/ ExpireMarker(d) \/ Time(d)
      PROVE  StopGoesOn(w)
  BY <1>1, <1>2 DEF Enqueue, Requeue, Archive, ExpireMarker, Time, BecomeDue, BecomeStale, loop, stop
<1>3. ASSUME NEW v \in Worker, NEW p \in Points, pc' = [pc EXCEPT ![v] = p],
             p = "claim" => ~requested[v], UNCHANGED <<requested, fin, toRelease, unreleased>>
      PROVE  StopGoesOn(w)
  BY <1>3 DEF StopGoesOn
<1>4. ASSUME NEW v \in Worker,
             \/ StartClaim(v) \/ EndClaim(v) \/ EndBatch(v) \/ Take(v) \/ ReadMarker(v)
             \/ ReadMarkerFails(v) \/ HandlerSucceeds(v) \/ HandlerFails(v)
             \/ HandlerMeetsBusyLease(v) \/ WriteMarker(v) \/ CompleteFails(v) \/ Restart(v)
      PROVE  StopGoesOn(w)
  BY <1>3, <1>4 DEF StartClaim, EndClaim, EndBatch, Take, ReadMarker, ReadMarkerFails,
     HandlerSucceeds, HandlerFails, HandlerMeetsBusyLease, WriteMarker, CompleteFails, Restart,
     Goto, stop, Points
<1>5. ASSUME NEW v \in Worker, Complete(v) \/ Defer(v) \/ Fail(v) \/ DeadLetter(v) PROVE StopGoesOn(w)
  BY <1>3, <1>5 DEF Complete, Defer, Fail, DeadLetter, Settle, Goto, stop, Points
<1>6. ASSUME NEW v \in Worker, NEW d \in Event, ClaimOne(v, d) PROVE StopGoesOn(w)
  BY <1>1, <1>6 DEF ClaimOne, stop
<1>7. ASSUME NEW v \in Worker, LeaveLoop(v) PROVE StopGoesOn(w)
  BY <1>7 DEF LeaveLoop, Goto, StopGoesOn
<1>8. ASSUME NEW v \in Worker, RequestStop(v) \/ GraceExpires(v) PROVE StopGoesOn(w)
  <2>1. CASE RequestStop(v)
    BY <2>1 DEF RequestStop, StopGoesOn, loop
  <2>2. CASE GraceExpires(v)
    <3>1. v # w /\ fin[w] = "release"
      BY <2>2 DEF GraceExpires
    <3>2. UNCHANGED <<pc, requested, toRelease, unreleased>>
      BY <2>2 DEF GraceExpires, loop
    <3> QED BY <3>1, <3>2 DEF StopGoesOn
  <2> QED BY <1>8, <2>1, <2>2
<1>9. ASSUME NEW v \in Worker, v # w, StartRelease(v) PROVE StopGoesOn(w)
  BY <1>9 DEF StartRelease, StopGoesOn, loop
<1>10. ASSUME NEW v \in Worker, NEW d \in Event, Release(v, d) \/ ReleaseFails(v, d)
       PROVE  StopGoesOn(w)
  <2>1. UNCHANGED <<pc, requested, fin>>
    BY <1>10 DEF Release, ReleaseFails, loop
  <2>2. v # w => toRelease'[w] = toRelease[w] /\ unreleased'[w] = unreleased[w]
    BY <1>10 DEF Release, ReleaseFails
  <2> QED BY <1>10, <2>1, <2>2 DEF StopGoesOn
<1>11. ASSUME NEW v \in Worker, Exit(v) \/ Crash(v) \/ RunRejects(v) PROVE StopGoesOn(w)
  BY <1>11 DEF Exit, Crash, RunRejects, ProcessEnds, Goto, StopGoesOn
<1>12. CASE UNCHANGED vars
  BY <1>1, <1>12 DEF vars, loop, stop
<1> QED
  BY <1>2, <1>4, <1>5, <1>6, <1>7, <1>8, <1>9, <1>10, <1>11, <1>12 DEF Next, LoopStep, StopStep

LEMMA RequestedStep ==
    ASSUME TypeInv, ReleaseInv, [Next]_vars, NEW w \in Worker, fin'[w] # "none"
    PROVE  requested'[w]
<1> USE DEF TypeInv, TypeOK, ReleaseInv
<1>1. ASSUME UNCHANGED <<requested, fin>> PROVE requested'[w]
  BY <1>1
<1>2. ASSUME NEW d \in Event,
             Enqueue(d) \/ Requeue(d) \/ Archive(d) \/ ExpireMarker(d) \/ Time(d)
      PROVE  requested'[w]
  BY <1>1, <1>2 DEF Enqueue, Requeue, Archive, ExpireMarker, Time, BecomeDue, BecomeStale, stop
<1>3. ASSUME NEW v \in Worker,
             \/ StartClaim(v) \/ EndClaim(v) \/ EndBatch(v) \/ Take(v) \/ ReadMarker(v)
             \/ ReadMarkerFails(v) \/ HandlerSucceeds(v) \/ HandlerFails(v)
             \/ HandlerMeetsBusyLease(v) \/ WriteMarker(v) \/ CompleteFails(v) \/ Restart(v)
             \/ Complete(v) \/ Defer(v) \/ Fail(v) \/ DeadLetter(v)
             \/ (\E d \in Event : ClaimOne(v, d) \/ Release(v, d) \/ ReleaseFails(v, d))
      PROVE  requested'[w]
  BY <1>1, <1>3 DEF StartClaim, EndClaim, EndBatch, Take, ReadMarker, ReadMarkerFails,
     HandlerSucceeds, HandlerFails, HandlerMeetsBusyLease, WriteMarker, CompleteFails, Restart,
     Complete, Defer, Fail, DeadLetter, ClaimOne, Release, ReleaseFails, stop
<1>4. ASSUME NEW v \in Worker,
             LeaveLoop(v) \/ RequestStop(v) \/ GraceExpires(v) \/ StartRelease(v)
      PROVE  requested'[w]
  BY <1>4 DEF LeaveLoop, RequestStop, GraceExpires, StartRelease
<1>5. ASSUME NEW v \in Worker, Exit(v) \/ Crash(v) \/ RunRejects(v) PROVE requested'[w]
  BY <1>5 DEF Exit, Crash, RunRejects, ProcessEnds
<1>6. CASE UNCHANGED vars
  BY <1>1, <1>6 DEF vars, stop
<1> QED
  BY <1>2, <1>3, <1>4, <1>5, <1>6 DEF Next, LoopStep, StopStep

LEMMA ReleaseStep ==
    ASSUME TypeInv, LocksHaveOwners, ReleaseInv, [Next]_vars
    PROVE  ReleaseInv'
<1> USE DEF TypeInv, TypeOK
<1>1. ASSUME NEW w \in Worker, fin'[w] = "release", StartRelease(w)
      PROVE  pc'[w] # "claim" /\ \A e \in Event : HeldBy(w, e)' => e \in toRelease'[w]
  <2>1. UNCHANGED <<ev, pc>> /\ pc[w] # "claim" /\ toRelease'[w] = batch[w]
    BY <1>1 DEF StartRelease, rows, loop
  <2> QED BY <2>1, OutboxAssumption DEF LocksHaveOwners, HeldBy
<1>2. ASSUME NEW w \in Worker, StopGoesOn(w), NEW e \in Event, HeldBy(w, e)'
      PROVE  e \in toRelease'[w] \cup unreleased'[w]
  <2>1. fin[w] = "release"
    BY <1>2 DEF StopGoesOn
  <2>2. HeldBy(w, e)
    BY <1>2, <2>1, HeldSteps DEF ReleaseInv, ClaimOne
  <2>3. e \in toRelease[w] \cup unreleased[w]
    BY <2>1, <2>2 DEF ReleaseInv
  <2>4. ASSUME NEW d \in Event, Release(w, d)
        PROVE  e # d /\ toRelease'[w] = toRelease[w] \ {d} /\ unreleased'[w] = unreleased[w]
    <3>1. toRelease'[w] = toRelease[w] \ {d} /\ unreleased'[w] = unreleased[w]
      BY <2>4 DEF Release
    <3>2. ev[d] \in Row /\ (HeldBy(w, d) => ev'[d] = HandedBack(ev[d]))
      BY <2>4 DEF Release
    <3>3. e = d => FALSE
      BY <1>2, <2>2, <3>2, SettledRows DEF HeldBy
    <3> QED BY <3>1, <3>3
  <2>5. ASSUME NEW d \in Event, ReleaseFails(w, d)
        PROVE  toRelease'[w] = toRelease[w] \ {d} /\ unreleased'[w] = unreleased[w] \cup {d}
    BY <2>5 DEF ReleaseFails
  <2> QED BY <1>2, <2>3, <2>4, <2>5 DEF StopGoesOn
<1>3. ASSUME NEW w \in Worker, fin'[w] = "release" PROVE StartRelease(w) \/ StopGoesOn(w)
  BY <1>3, HandingBack
<1>4. ASSUME NEW w \in Worker, StopGoesOn(w) PROVE pc'[w] # "claim"
  BY <1>4 DEF StopGoesOn
<1>5. \A w \in Worker : fin'[w] # "none" => requested'[w]
  BY RequestedStep
<1> QED BY <1>1, <1>2, <1>3, <1>4, <1>5 DEF ReleaseInv

(* A worker that exits on request leaves no row locked behind but those for  *)
(* which the statement that hands them back has failed, wherever its loop    *)
(* was and whatever else has gone wrong. (createWorkerShutdown)              *)
THEOREM CleanExit == Spec => []CleanExitHoldsNothing
<1>1. Init => ReleaseInv
  BY DEF Init, ReleaseInv
<1>2. /\ TypeInv /\ LocksHaveOwners /\ ReleaseInv /\ [Next]_vars
      => TypeInv' /\ LocksHaveOwners' /\ ReleaseInv'
  BY TypeStep, LocksStep, ReleaseStep
<1>3. Init => LocksHaveOwners
  BY NewRows DEF Init, LocksHaveOwners
<1>4. TypeInv /\ ReleaseInv => CleanExitHoldsNothing
  BY DEF TypeInv, TypeOK, ReleaseInv, CleanExitHoldsNothing
<1>5. QED
  BY TypeInit, <1>1, <1>2, <1>3, <1>4, PTL DEF Spec
=============================================================================
