------------------------ MODULE TaskLifecycle_proofs ------------------------
(***************************************************************************)
(* Proofs about TaskLifecycle, for any number of workers, retries and      *)
(* mishaps: the types; that a run which may still save knows the stored    *)
(* state, and with it that the stored state follows the state machine;     *)
(* and, each without some mishaps that break it, that one worker at a      *)
(* time runs the task and a final cancellation stays, that retries keep to *)
(* the budget, and that they keep to unused keys.                          *)
(***************************************************************************)
EXTENDS TaskLifecycle, TLAPS

USE DEF copies

(* What the state machine yields is a state, a lifecycle and a status *)
LEMMA ReduceType == ASSUME NEW k \in FSM!Kinds, NEW e PROVE FSM!Reduce(k, e) \in FSM!Kinds
BY DEF FSM!Reduce, FSM!Target, FSM!Kinds

LEMMA LifeType == ASSUME NEW k \in FSM!Kinds PROVE FSM!LifeOf(k) \in Lives
BY DEF FSM!LifeOf, FSM!Kinds, Lives

LEMMA StatusType == ASSUME NEW k \in FSM!Kinds PROVE FSM!StatusOf(k) \in Statuses
BY DEF FSM!StatusOf, FSM!Kinds, Statuses

LEMMA BaselineType == ASSUME NEW k \in FSM!Kinds PROVE FSM!Baseline(k) \in FSM!Kinds
BY DEF FSM!Baseline, FSM!Kinds

LEMMA MoreType == ASSUME NEW n \in Retries PROVE More(n) \in Retries /\ More(n) > 0
BY LifecycleAssumption DEF Retries, More

(* One event on a task, and what becomes of its fields *)
LEMMA OnType ==
    ASSUME NEW t \in Tasks, NEW e
    PROVE  /\ On(t, e) \in Tasks
           /\ On(t, e).kind = FSM!Reduce(t.kind, e)
<1> DEFINE k == FSM!Reduce(t.kind, e)
<1>1. t.kind \in FSM!Kinds BY DEF Tasks
<1>2. k \in FSM!Kinds BY <1>1, ReduceType
<1>3. FSM!LifeOf(k) \in Lives /\ FSM!StatusOf(k) \in Statuses BY <1>2, LifeType, StatusType
<1>4. On(t, e) = At(FSM!LifeOf(k), FSM!StatusOf(k), k, t.retries) BY DEF On
<1> HIDE DEF k
<1>5. On(t, e) \in Tasks /\ On(t, e).kind = k BY <1>2, <1>3, <1>4 DEF Tasks, At
<1> QED BY <1>5 DEF k

LEMMA MergedType ==
    ASSUME NEW t \in Tasks, NEW old \in Tasks, NEW new \in Tasks
    PROVE  /\ Merged(t, old, new) \in Tasks
           /\ t.kind = old.kind => Merged(t, old, new).kind = new.kind
BY DEF Merged, Tasks

LEMMA ReschedulingType ==
    ASSUME NEW t \in Tasks, NEW n \in Retries
    PROVE  /\ Rescheduled(t, n) \in Tasks /\ Rescheduled(t, n).kind = t.kind
           /\ Failed(t, n) \in Tasks /\ Failed(t, n).kind = t.kind
BY DEF Rescheduled, Failed, At, Tasks, Lives, Statuses

LEMMA CancelledType ==
    ASSUME NEW t \in Tasks
    PROVE  /\ Cancelled(t) \in Tasks
           /\ Cancelled(t).kind = FSM!Reduce(FSM!Reduce(t.kind, "CANCEL_REQUESTED"),
                                             "CANCEL_FINALIZED")
<1> DEFINE k == FSM!Reduce(FSM!Reduce(t.kind, "CANCEL_REQUESTED"), "CANCEL_FINALIZED")
<1>1. t.kind \in FSM!Kinds BY DEF Tasks
<1>2. k \in FSM!Kinds BY <1>1, ReduceType
<1>3. Cancelled(t) = At("failed", "failed", k, t.retries)
  BY DEF Cancelled
<1> HIDE DEF k
<1>4. Cancelled(t) \in Tasks /\ Cancelled(t).kind = k
  BY <1>2, <1>3 DEF Tasks, Lives, Statuses, At
<1> QED BY <1>4 DEF k

LEMMA StartedType ==
    ASSUME NEW t \in Tasks
    PROVE  /\ Started(t) \in Tasks
           /\ \/ Started(t).kind = t.kind
              \/ \E e \in FSM!Events \ {"CANCEL_FINALIZED"} : Started(t).kind = FSM!Reduce(t.kind, e)
              \/ Started(t).kind = FSM!Reduce(FSM!Reduce(FSM!Baseline(t.kind), "POLICY_EVALUATE"),
                                              "LEASE_ACQUIRED")
<1> DEFINE k == FSM!Baseline(t.kind)
<1>1. t.kind \in FSM!Kinds /\ k \in FSM!Kinds BY BaselineType DEF Tasks
<1>2. k # "queued" => k = t.kind BY DEF FSM!Baseline
<1>3. WithKind(t, k) \in Tasks /\ WithKind(t, k).kind = k
  <2> HIDE DEF k
  <2> QED BY <1>1 DEF WithKind, At, Tasks
<1>4. \A e : On(t, e) \in Tasks /\ On(t, e).kind = FSM!Reduce(t.kind, e) BY OnType
<1> DEFINE q == On(WithKind(t, k), "POLICY_EVALUATE")
<1>5. q \in Tasks /\ q.kind = FSM!Reduce(k, "POLICY_EVALUATE") BY <1>3, OnType
<1>6. /\ On(q, "LEASE_ACQUIRED") \in Tasks
      /\ On(q, "LEASE_ACQUIRED").kind = FSM!Reduce(FSM!Reduce(k, "POLICY_EVALUATE"), "LEASE_ACQUIRED")
  <2> HIDE DEF q
  <2> QED BY <1>5, OnType
<1>7. Started(t) = IF k = "paused" THEN On(t, "CLARIFICATION_RESOLVED")
                   ELSE IF k = "awaiting_approval" THEN On(t, "APPROVAL_GRANTED")
                   ELSE IF k = "queued" THEN On(q, "LEASE_ACQUIRED")
                   ELSE IF k = "policy_evaluating" THEN On(t, "LEASE_ACQUIRED") ELSE t
  <2> HIDE DEF FSM!Baseline
  <2> QED BY DEF Started
<1>8. {"CLARIFICATION_RESOLVED", "APPROVAL_GRANTED", "LEASE_ACQUIRED"}
         \subseteq FSM!Events \ {"CANCEL_FINALIZED"}
  BY DEF FSM!Events
<1> HIDE DEF k, q
<1>9. Started(t) \in Tasks BY <1>4, <1>6, <1>7
<1>10. CASE k = "queued" BY <1>6, <1>7, <1>10 DEF k
<1>11. CASE k \in {"paused", "awaiting_approval", "policy_evaluating"}
  BY <1>4, <1>7, <1>8, <1>11
<1>12. CASE k \notin {"queued", "paused", "awaiting_approval", "policy_evaluating"}
  BY <1>7, <1>12
<1> QED BY <1>9, <1>10, <1>11, <1>12

-----------------------------------------------------------------------------
(* The invariant, in three parts: what is stored and what the runs hold of *)
(* it, two flags, and the rest                                             *)

(* A scanner keeps what it has read only when RETRY_DUE changes it *)
Readings ==
    /\ read \in [Worker -> SUBSET Tasks]
    /\ \A w \in Worker : \A t \in read[w] : AfterDue(t) # t

Stored ==
    /\ task \in Tasks
    /\ doc \in [Worker -> Tasks]
    /\ fresh \in [Worker -> BOOLEAN]
    /\ FreshKnowsKind
    /\ Readings
Flags == cancel \in BOOLEAN /\ live \in BOOLEAN
Rest ==
    /\ remedy \in Remediations /\ txn \in Databases
    /\ due \in {"none", "later", "past"}
    /\ owner \in Worker \cup {Nobody, Gone}
    /\ beats \in {"never", "fresh", "old"}
    /\ queue \in [Key -> {"none", "pending", "taken", "done"}]
    /\ scan \in [Worker -> {"idle", "claimed", "enqueued", "due"} \X Retries]
    /\ pc \in [Worker -> PCs]
    /\ job \in [Worker -> Key \cup {NoJob}]
    /\ tries \in [Worker -> Retries]
    /\ turns \in [Worker -> 0 .. MaxIterations]
    /\ stuck \in [Worker -> Retries]
    /\ mishaps \in Seq(Faults)
Inv == Stored /\ Flags /\ Rest

(* A step makes a change that the state machine makes, or none *)
Follows == FSM!Next \/ UNCHANGED task.kind

(* It does not finalize a cancellation *)
KeepsOff == task'.kind = "cancelled" => task.kind = "cancelled"

LEMMA InvParts == TypeOK /\ FreshKnowsKind /\ Readings <=> Inv
BY DEF TypeOK, Inv, Stored, Flags, Rest, Readings

LEMMA HappensFollows ==
    ASSUME NEW e \in FSM!Events, task'.kind = FSM!Reduce(task.kind, e)
    PROVE  Follows /\ (e # "CANCEL_FINALIZED" => KeepsOff)
<1>1. Follows BY DEF Follows, FSM!Next, FSM!Happens
<1>2. task'.kind \in {task.kind, FSM!Target(e)} BY DEF FSM!Reduce
<1>3. e # "CANCEL_FINALIZED" => FSM!Target(e) # "cancelled" BY DEF FSM!Target, FSM!Events
<1> QED BY <1>1, <1>2, <1>3 DEF KeepsOff

(* No other event finalizes a cancellation *)
LEMMA ReduceKeepsOff ==
    ASSUME NEW k \in FSM!Kinds, NEW e \in FSM!Events \ {"CANCEL_FINALIZED"},
           FSM!Reduce(k, e) = "cancelled"
    PROVE  k = "cancelled"
<1>1. FSM!Reduce(k, e) \in {k, FSM!Target(e)} BY DEF FSM!Reduce
<1>2. FSM!Target(e) # "cancelled" BY DEF FSM!Target, FSM!Events
<1> QED BY <1>1, <1>2

(* After a save nobody else may save what he has read before *)
LEMMA OutdatedReadings ==
    ASSUME NEW w, Outdate(w)
    PROVE  fresh' \in [Worker -> BOOLEAN] /\ Readings'
<1>1. fresh' \in [Worker -> BOOLEAN] BY Zenon DEF Outdate
<1>2. Readings' BY DEF Outdate, Readings
<1> QED BY <1>1, <1>2

LEMMA SaveReadOutdates ==
    ASSUME NEW t, SaveRead(t)
    PROVE  task' = t /\ \A v \in Worker : ~fresh'[v] /\ read'[v] = {}
BY LifecycleAssumption DEF SaveRead, Outdate

(* A save by a run that may save stores the kind it has in memory *)
LEMMA SaveTwiceStored ==
    ASSUME Stored, NEW w \in Worker, NEW mid \in Tasks, NEW new \in Tasks,
           SaveTwice(w, mid, new)
    PROVE  Stored' /\ doc[w].kind = task.kind /\ task'.kind = new.kind
<1>1. fresh[w] /\ doc[w] \in Tasks BY DEF Stored, SaveTwice, CanSave
<1>2. doc[w].kind = task.kind BY <1>1 DEF Stored, FreshKnowsKind
<1>3. Merged(task, doc[w], mid) \in Tasks /\ Merged(task, doc[w], mid).kind = mid.kind
  BY <1>1, <1>2, MergedType DEF Stored
<1>4. task' \in Tasks /\ task'.kind = new.kind
  BY <1>3, MergedType DEF SaveTwice
<1>5. doc' \in [Worker -> Tasks] BY DEF Stored, SaveTwice
<1>6. fresh' \in [Worker -> BOOLEAN] /\ Readings' BY OutdatedReadings DEF SaveTwice
<1>7. \A v \in Worker : (fresh'[v] => v = w) /\ read'[v] = {} BY DEF SaveTwice, Outdate
<1>8. doc'[w] = new BY DEF Stored, SaveTwice
<1>9. FreshKnowsKind' BY <1>4, <1>7, <1>8 DEF FreshKnowsKind
<1> QED BY <1>2, <1>4, <1>5, <1>6, <1>9 DEF Stored

LEMMA SaveStored ==
    ASSUME Stored, NEW w \in Worker, NEW new \in Tasks, Save(w, new)
    PROVE  Stored' /\ doc[w].kind = task.kind /\ task'.kind = new.kind
BY SaveTwiceStored DEF Save

LEMMA SaveAllStored ==
    ASSUME Stored, NEW w \in Worker, NEW new \in Tasks, SaveAll(w, new)
    PROVE  Stored' /\ doc[w].kind = task.kind /\ task'.kind = new.kind
<1>1. fresh[w] /\ doc[w] \in Tasks BY DEF Stored, SaveAll, CanSave
<1>2. doc[w].kind = task.kind BY <1>1 DEF Stored, FreshKnowsKind
<1>3. task' = new BY DEF SaveAll
<1>4. doc' \in [Worker -> Tasks] BY DEF Stored, SaveAll
<1>5. fresh' \in [Worker -> BOOLEAN] /\ Readings' BY OutdatedReadings DEF SaveAll
<1>6. \A v \in Worker : (fresh'[v] => v = w) /\ read'[v] = {} BY DEF SaveAll, Outdate
<1>7. doc'[w] = new BY DEF Stored, SaveAll
<1>8. FreshKnowsKind' BY <1>3, <1>6, <1>7 DEF FreshKnowsKind
<1> QED BY <1>2, <1>3, <1>4, <1>5, <1>8 DEF Stored

(* After a save by somebody else no run may save *)
LEMMA SaveReadStored ==
    ASSUME Stored, NEW t \in Tasks, SaveRead(t), UNCHANGED doc
    PROVE  Stored' /\ task' = t
<1>1. task' = t /\ \A v \in Worker : ~fresh'[v] /\ read'[v] = {} BY SaveReadOutdates
<1>2. fresh' \in [Worker -> BOOLEAN] /\ Readings' BY OutdatedReadings DEF SaveRead
<1>3. FreshKnowsKind' BY <1>1 DEF FreshKnowsKind
<1> QED BY <1>1, <1>2, <1>3 DEF Stored

(* An update that keeps the kind, and the version *)
LEMMA KeepKindStored ==
    ASSUME Stored, task' \in Tasks, task'.kind = task.kind, UNCHANGED <<doc, copies>>
    PROVE  Stored' /\ Follows /\ KeepsOff
<1>1. Stored' BY DEF Stored, FreshKnowsKind, Readings
<1> QED BY <1>1 DEF Follows, KeepsOff

(* Nothing is stored *)
LEMMA QuietStored ==
    ASSUME Stored, UNCHANGED <<task, doc, copies>>
    PROVE  Stored' /\ Follows /\ KeepsOff
BY KeepKindStored DEF Stored

-----------------------------------------------------------------------------
(* What the steps of a run are built from *)

LEMMA AtType ==
    ASSUME NEW l \in Lives, NEW s \in Statuses, NEW k \in FSM!Kinds, NEW n \in Retries
    PROVE  At(l, s, k, n) \in Tasks /\ At(l, s, k, n).kind = k
BY DEF At, Tasks

LEMMA WithTriesType ==
    ASSUME NEW t \in Tasks, NEW s \in Statuses, NEW n \in Retries
    PROVE  WithTries(t, s, n) \in Tasks /\ WithTries(t, s, n).kind = t.kind
BY DEF WithTries, At, Tasks

LEMMA HeldType ==
    ASSUME Inv, NEW w \in Worker
    PROVE  /\ doc[w] \in Tasks /\ doc[w].retries \in Retries /\ task \in Tasks
           /\ tries[w] \in Retries
           /\ More(tries[w]) \in Retries /\ More(doc[w].retries) \in Retries
<1>1. doc[w] \in Tasks /\ task \in Tasks BY DEF Inv, Stored
<1>2. tries[w] \in Retries BY DEF Inv, Rest
<1>3. doc[w].retries \in Retries BY <1>1 DEF Tasks
<1> QED BY <1>1, <1>2, <1>3, MoreType

LEMMA StatusNames == {"executing", "completed", "failed"} \subseteq Statuses
BY DEF Statuses

(* The event that ends a cancellation *)
LEMMA CancelledFollows ==
    ASSUME task \in Tasks, task' = Cancelled(task)
    PROVE  Follows
BY CancelledType DEF Follows, FSM!Next, FSM!Cancel

LEMMA FinalizeStored ==
    ASSUME Stored, NEW w \in Worker, Finalize(w)
    PROVE  Stored' /\ Follows
<1>1. task \in Tasks BY DEF Stored
<1>2. SaveRead(Cancelled(task)) /\ UNCHANGED doc BY DEF Finalize
<1>3. Stored' /\ task' = Cancelled(task) BY <1>1, <1>2, CancelledType, SaveReadStored
<1> QED BY <1>1, <1>3, CancelledFollows

LEMMA StaleStored ==
    ASSUME Stored, NEW w \in Worker, Stale(w)
    PROVE  Stored' /\ Follows /\ KeepsOff
BY QuietStored DEF Stale

LEMMA PersistStored ==
    ASSUME Stored, NEW w \in Worker, NEW e \in FSM!Events \ {"CANCEL_FINALIZED"}, Persist(w, e)
    PROVE  Stored' /\ Follows /\ KeepsOff
<1>1. On(doc[w], e) \in Tasks /\ On(doc[w], e).kind = FSM!Reduce(doc[w].kind, e)
  BY OnType DEF Stored
<1>2. CASE Save(w, On(doc[w], e))
  BY <1>1, <1>2, SaveStored, HappensFollows
<1>3. CASE UNCHANGED <<task, doc, copies>>
  BY <1>3, QuietStored
<1> QED BY <1>2, <1>3 DEF Persist

LEMMA EndsFailedStored ==
    ASSUME Inv, NEW w \in Worker, EndsFailed(w)
    PROVE  Stored' /\ Follows /\ KeepsOff
<1> DEFINE failed == On(doc[w], "ERROR_FATAL")
           new == WithTries(failed, "failed", tries[w])
<1>1. failed \in Tasks /\ failed.kind = FSM!Reduce(doc[w].kind, "ERROR_FATAL")
  BY HeldType, OnType
<1>2. SaveTwice(w, failed, new) BY DEF EndsFailed
<1> HIDE DEF failed
<1>3. new \in Tasks /\ new.kind = failed.kind BY <1>1, WithTriesType, HeldType, StatusNames
<1> HIDE DEF new
<1>4. Stored' /\ doc[w].kind = task.kind /\ task'.kind = new.kind
  BY <1>1, <1>2, <1>3, SaveTwiceStored DEF Inv
<1>5. "ERROR_FATAL" \in FSM!Events BY DEF FSM!Events
<1> QED BY <1>1, <1>3, <1>4, <1>5, HappensFollows

LEMMA IterationFailsStored ==
    ASSUME Inv, NEW w \in Worker, NEW next, IterationFails(w, next)
    PROVE  Stored' /\ Follows /\ KeepsOff
<1> DEFINE n == More(tries[w])
           again == On(doc[w], "ERROR_RETRYABLE")
           fatal == On(doc[w], "ERROR_FATAL")
           m == More(doc[w].retries)
<1>1. n \in Retries /\ m \in Retries /\ doc[w] \in Tasks BY HeldType
<1>2. /\ again \in Tasks /\ again.kind = FSM!Reduce(doc[w].kind, "ERROR_RETRYABLE")
      /\ fatal \in Tasks /\ fatal.kind = FSM!Reduce(doc[w].kind, "ERROR_FATAL")
  BY <1>1, OnType
<1>3. {"ERROR_RETRYABLE", "ERROR_FATAL"} \subseteq FSM!Events BY DEF FSM!Events
<1>4. CASE Budgeted(n)
  <2>1. SaveTwice(w, again, WithTries(again, "executing", n))
    BY <1>4 DEF IterationFails, AfterError
  <2> HIDE DEF n, again
  <2>2. /\ WithTries(again, "executing", n) \in Tasks
        /\ WithTries(again, "executing", n).kind = again.kind
    BY <1>1, <1>2, WithTriesType, StatusNames
  <2>3. Stored' /\ doc[w].kind = task.kind /\ task'.kind = again.kind
    BY <1>2, <2>1, <2>2, SaveTwiceStored DEF Inv
  <2> QED BY <1>2, <1>3, <2>3, HappensFollows
<1>5. CASE ~Budgeted(n)
  <2>1. SaveAll(w, Failed(fatal, m))
    BY <1>5 DEF IterationFails, AfterError
  <2> HIDE DEF m, fatal
  <2>2. Failed(fatal, m) \in Tasks /\ Failed(fatal, m).kind = fatal.kind
    BY <1>1, <1>2, ReschedulingType
  <2>3. Stored' /\ doc[w].kind = task.kind /\ task'.kind = fatal.kind
    BY <2>1, <2>2, SaveAllStored DEF Inv
  <2> QED BY <1>2, <1>3, <2>3, HappensFollows
<1> QED BY <1>4, <1>5

LEMMA ModelFailsStored ==
    ASSUME Inv, NEW w \in Worker, ModelFails(w)
    PROVE  Stored' /\ Follows /\ KeepsOff
<1> PICK retryable \in BOOLEAN :
        LET n == More(doc[w].retries)
            again == retryable /\ Budgeted(n)
            Written(t) == IF again THEN Rescheduled(t, n) ELSE Failed(t, n)
            new == On(Written(doc[w]), IF again THEN "ERROR_RETRYABLE" ELSE "ERROR_FATAL")
        IN  \/ SaveAll(w, new)
            \/ task' = Written(task) /\ UNCHANGED <<doc, copies>>
  BY DEF ModelFails
<1> DEFINE n == More(doc[w].retries)
           again == retryable /\ Budgeted(n)
           Written(t) == IF again THEN Rescheduled(t, n) ELSE Failed(t, n)
           e == IF again THEN "ERROR_RETRYABLE" ELSE "ERROR_FATAL"
<1>1. n \in Retries /\ doc[w] \in Tasks /\ task \in Tasks BY HeldType
<1>2. \A t \in Tasks : Written(t) \in Tasks /\ Written(t).kind = t.kind
  <2> HIDE DEF n
  <2> QED BY <1>1, ReschedulingType
<1>3. e \in FSM!Events /\ e # "CANCEL_FINALIZED" BY DEF FSM!Events
<1>4. SaveAll(w, On(Written(doc[w]), e)) \/ (task' = Written(task) /\ UNCHANGED <<doc, copies>>)
  OBVIOUS
<1> HIDE DEF n, again, Written, e
<1>5. CASE SaveAll(w, On(Written(doc[w]), e))
  <2>1. /\ On(Written(doc[w]), e) \in Tasks
        /\ On(Written(doc[w]), e).kind = FSM!Reduce(doc[w].kind, e)
    BY <1>1, <1>2, OnType
  <2>2. /\ Stored' /\ doc[w].kind = task.kind
        /\ task'.kind = On(Written(doc[w]), e).kind
    BY <1>5, <2>1, SaveAllStored DEF Inv
  <2> QED BY <1>3, <2>1, <2>2, HappensFollows
<1>6. CASE task' = Written(task) /\ UNCHANGED <<doc, copies>>
  BY <1>1, <1>2, <1>6, KeepKindStored DEF Inv
<1> QED BY <1>4, <1>5, <1>6

(* A worker that forgets its run *)
LEMMA ForgetStored ==
    ASSUME Stored, NEW w \in Worker, Forget(w), UNCHANGED task,
           UNCHANGED read \/ read' = [read EXCEPT ![w] = {}]
    PROVE  Stored' /\ Follows /\ KeepsOff
<1>1. doc' = [doc EXCEPT ![w] = NewTask] /\ fresh' = [fresh EXCEPT ![w] = FALSE] BY DEF Forget
<1>2. NewTask \in Tasks
  BY LifecycleAssumption DEF NewTask, At, Tasks, Lives, Statuses, FSM!Kinds, Retries
<1>3. doc' \in [Worker -> Tasks] BY <1>1, <1>2 DEF Stored
<1>4. fresh' \in [Worker -> BOOLEAN]
  <2>1. fresh \in [Worker -> BOOLEAN] BY DEF Stored
  <2> QED BY <1>1, <2>1, Zenon
<1>5. ~fresh'[w] BY <1>1 DEF Stored
<1>6. \A v \in Worker : v # w => doc'[v] = doc[v] /\ fresh'[v] = fresh[v] BY <1>1 DEF Stored
<1>7. \A v \in Worker : read'[v] \subseteq read[v] BY DEF Stored, Readings
<1>8. FreshKnowsKind' BY <1>5, <1>6, <1>7 DEF Stored, FreshKnowsKind
<1>9. Readings' BY <1>7 DEF Stored, Readings
<1> QED BY <1>3, <1>4, <1>8, <1>9 DEF Stored, Follows, KeepsOff

-----------------------------------------------------------------------------
(* The steps of a run *)

LEMMA RunStored ==
    ASSUME Inv, NEW w \in Worker, Run(w)
    PROVE  Stored' /\ Follows /\ (Finalize(w) \/ KeepsOff)
<1>1. Stored /\ task \in Tasks BY DEF Inv, Stored
<1>2. doc[w] \in Tasks /\ doc[w].retries \in Retries /\ tries[w] \in Retries
      /\ More(tries[w]) \in Retries /\ More(doc[w].retries) \in Retries BY HeldType
<1>3. \A e : On(doc[w], e) \in Tasks /\ On(doc[w], e).kind = FSM!Reduce(doc[w].kind, e)
  BY <1>2, OnType
<1>4. CASE Preflight(w)
  <2>1. CASE Finalize(w) BY <1>1, <2>1, FinalizeStored
  <2>2. CASE /\ doc' = [doc EXCEPT ![w] = task]
             /\ fresh' = [fresh EXCEPT ![w] = TRUE]
             /\ UNCHANGED <<task, read>>
    <3>1. doc' \in [Worker -> Tasks] BY <1>1, <2>2 DEF Stored
    <3>2. fresh' \in [Worker -> BOOLEAN]
      <4>1. fresh \in [Worker -> BOOLEAN] BY <1>1 DEF Stored
      <4> QED BY <2>2, <4>1, Zenon
    <3>3. doc'[w] = task BY <1>1, <2>2 DEF Stored
    <3>4. \A v \in Worker : v # w => doc'[v] = doc[v] /\ fresh'[v] = fresh[v]
      BY <1>1, <2>2 DEF Stored
    <3>5. FreshKnowsKind' BY <1>1, <2>2, <3>3, <3>4 DEF Stored, FreshKnowsKind
    <3>6. Readings' BY <1>1, <2>2 DEF Stored, Readings
    <3> QED BY <1>1, <2>2, <3>1, <3>2, <3>5, <3>6 DEF Stored, Follows, KeepsOff
  <2> QED BY <1>4, <2>1, <2>2 DEF Preflight
<1>5. CASE Start(w)
  <2>1. CASE Save(w, Started(doc[w]))
    <3>1. Started(doc[w]) \in Tasks BY <1>2, StartedType
    <3>2. Stored' /\ doc[w].kind = task.kind /\ task'.kind = Started(doc[w]).kind
      BY <1>1, <2>1, <3>1, SaveStored
    <3>3. CASE Started(doc[w]).kind = doc[w].kind BY <3>2, <3>3 DEF Follows, KeepsOff
    <3>4. CASE \E e \in FSM!Events \ {"CANCEL_FINALIZED"} : Started(doc[w]).kind = FSM!Reduce(doc[w].kind, e)
      BY <3>2, <3>4, HappensFollows
    <3>5. CASE Started(doc[w]).kind = FSM!Reduce(FSM!Reduce(FSM!Baseline(doc[w].kind),
                                                     "POLICY_EVALUATE"), "LEASE_ACQUIRED")
      <4> DEFINE k == FSM!Baseline(doc[w].kind)
                 p == FSM!Reduce(k, "POLICY_EVALUATE")
      <4>1. k \in FSM!Kinds /\ k # "cancelled"
        BY <1>2, BaselineType DEF Tasks, FSM!Baseline, FSM!Terminal
      <4>2. p \in FSM!Kinds BY <4>1, ReduceType
      <4>3. {"POLICY_EVALUATE", "LEASE_ACQUIRED"} \subseteq FSM!Events \ {"CANCEL_FINALIZED"}
        BY DEF FSM!Events
      <4>4. p # "cancelled"
        <5> HIDE DEF k
        <5> QED BY <4>1, <4>3, ReduceKeepsOff
      <4> HIDE DEF p
      <4>5. FSM!Reduce(p, "LEASE_ACQUIRED") # "cancelled" BY <4>2, <4>3, <4>4, ReduceKeepsOff
      <4>6. KeepsOff BY <3>2, <3>5, <4>5 DEF KeepsOff, p
      <4> QED BY <3>2, <3>5, <4>6 DEF Follows, FSM!Next, FSM!StartRun
    <3> QED BY <1>2, <3>2, <3>3, <3>4, <3>5, StartedType
  <2>2. CASE UNCHANGED <<task, doc, copies>> BY <1>1, <2>2, QuietStored
  <2> QED BY <1>5, <2>1, <2>2 DEF Start
<1>6. CASE Begin(w)
  <2> DEFINE mid == Executing(w)
  <2>1. mid \in Tasks /\ mid.kind = doc[w].kind
    BY <1>2, WithTriesType, StatusNames DEF Executing
  <2>2. On(mid, "PLAN_READY") \in Tasks
        /\ On(mid, "PLAN_READY").kind = FSM!Reduce(mid.kind, "PLAN_READY")
    BY <2>1, OnType
  <2>3. SaveTwice(w, mid, On(mid, "PLAN_READY")) \/ UNCHANGED <<task, doc, copies>>
    BY <1>6 DEF Begin, Stale
  <2> HIDE DEF mid
  <2>4. CASE SaveTwice(w, mid, On(mid, "PLAN_READY"))
    <3>1. /\ Stored' /\ doc[w].kind = task.kind
          /\ task'.kind = On(mid, "PLAN_READY").kind
      BY <1>1, <2>1, <2>2, <2>4, SaveTwiceStored
    <3>2. "PLAN_READY" \in FSM!Events BY DEF FSM!Events
    <3> QED BY <2>1, <2>2, <3>1, <3>2, HappensFollows
  <2>5. CASE UNCHANGED <<task, doc, copies>> BY <1>1, <2>5, QuietStored
  <2> QED BY <2>3, <2>4, <2>5
<1>7. CASE Iterate(w)
  <2>1. "ITERATION_START" \in FSM!Events BY DEF FSM!Events
  <2> QED BY <1>1, <1>7, <2>1, FinalizeStored, PersistStored DEF Iterate
<1>8. CASE Exhaust(w) BY <1>1, <1>8, EndsFailedStored, StaleStored DEF Exhaust
<1>9. CASE Abort(w)
  BY <1>1, <1>9, FinalizeStored, EndsFailedStored, StaleStored DEF Abort
<1>10. CASE Achieve(w)
  <2>1. "GOAL_ACHIEVED" \in FSM!Events BY DEF FSM!Events
  <2> QED BY <1>1, <1>10, <2>1, PersistStored DEF Achieve
<1>11. CASE Complete(w)
  <2> DEFINE new == WithTries(doc[w], "completed", doc[w].retries)
  <2>1. new \in Tasks /\ new.kind = doc[w].kind BY <1>2, WithTriesType, StatusNames
  <2>2. Save(w, new) \/ Stale(w) \/ IterationFails(w, "over") BY <1>11 DEF Complete
  <2> HIDE DEF new
  <2>3. CASE Save(w, new) BY <1>1, <2>1, <2>3, SaveStored DEF Follows, KeepsOff
  <2> QED BY <1>1, <2>2, <2>3, StaleStored, IterationFailsStored
<1>12. CASE Clarify(w)
  <2> DEFINE asked == On(doc[w], "CLARIFICATION_REQUIRED")
             new == At("paused", "waiting_for_input", asked.kind, asked.retries)
  <2>1. SaveTwice(w, asked, new) \/ Stale(w) BY <1>12 DEF Clarify
  <2>2. asked \in Tasks /\ asked.kind = FSM!Reduce(doc[w].kind, "CLARIFICATION_REQUIRED")
    BY <1>3
  <2> HIDE DEF asked
  <2>3. new \in Tasks /\ new.kind = asked.kind
    BY <2>2 DEF At, Tasks, Lives, Statuses
  <2> HIDE DEF new
  <2>4. CASE SaveTwice(w, asked, new)
    <3>1. Stored' /\ doc[w].kind = task.kind /\ task'.kind = new.kind
      BY <1>1, <2>2, <2>3, <2>4, SaveTwiceStored
    <3>2. "CLARIFICATION_REQUIRED" \in FSM!Events BY DEF FSM!Events
    <3> QED BY <2>2, <2>3, <3>1, <3>2, HappensFollows
  <2> QED BY <1>1, <2>1, <2>4, StaleStored
<1>13. CASE ModelFails(w) BY <1>13, ModelFailsStored
<1>14. CASE StartTool(w)
  <2>1. CASE Save(w, On(doc[w], "TOOL_STARTED"))
    <3>1. /\ Stored' /\ doc[w].kind = task.kind
          /\ task'.kind = On(doc[w], "TOOL_STARTED").kind
      BY <1>1, <1>3, <2>1, SaveStored
    <3>2. "TOOL_STARTED" \in FSM!Events BY DEF FSM!Events
    <3> QED BY <1>3, <3>1, <3>2, HappensFollows
  <2> QED BY <1>1, <1>14, <2>1, FinalizeStored, StaleStored DEF StartTool
<1>15. CASE Observe(w)
  <2> DEFINE seen == On(doc[w], "TOOL_OBSERVED")
             new == On(seen, "TOOL_VERIFIED")
  <2>1. seen \in Tasks /\ seen.kind = FSM!Reduce(doc[w].kind, "TOOL_OBSERVED") BY <1>3
  <2>2. SaveTwice(w, seen, new) \/ IterationFails(w, "top") \/ Stale(w) BY <1>15 DEF Observe
  <2> HIDE DEF seen
  <2>3. new \in Tasks /\ new.kind = FSM!Reduce(seen.kind, "TOOL_VERIFIED") BY <2>1, OnType
  <2> HIDE DEF new
  <2>4. CASE SaveTwice(w, seen, new)
    <3>1. Stored' /\ doc[w].kind = task.kind /\ task'.kind = new.kind
      BY <1>1, <2>1, <2>3, <2>4, SaveTwiceStored
    <3>2. {"TOOL_OBSERVED", "TOOL_VERIFIED"} \subseteq FSM!Events \ {"CANCEL_FINALIZED"}
      BY DEF FSM!Events
    <3>3. KeepsOff BY <1>2, <2>1, <2>3, <3>1, <3>2, ReduceKeepsOff DEF KeepsOff, Tasks
    <3> QED BY <2>1, <2>3, <3>1, <3>3 DEF Follows, FSM!Next, FSM!Then
  <2> QED BY <1>1, <2>2, <2>4, IterationFailsStored, StaleStored
<1>16. CASE Verified(w)
  <2> DEFINE ok == On(doc[w], "STEP_COMPLETED")
             new == WithTries(ok, "executing", tries[w])
  <2>1. ok \in Tasks /\ ok.kind = FSM!Reduce(doc[w].kind, "STEP_COMPLETED") BY <1>3
  <2>2. SaveTwice(w, ok, new) \/ Stale(w) BY <1>16 DEF Verified
  <2> HIDE DEF ok
  <2>3. new \in Tasks /\ new.kind = ok.kind BY <1>2, <2>1, WithTriesType, StatusNames
  <2> HIDE DEF new
  <2>4. CASE SaveTwice(w, ok, new)
    <3>1. Stored' /\ doc[w].kind = task.kind /\ task'.kind = new.kind
      BY <1>1, <2>1, <2>3, <2>4, SaveTwiceStored
    <3>2. "STEP_COMPLETED" \in FSM!Events BY DEF FSM!Events
    <3> QED BY <2>1, <2>3, <3>1, <3>2, HappensFollows
  <2> QED BY <1>1, <2>2, <2>4, StaleStored
<1>17. CASE NotVerified(w)
  <2> DEFINE n == More(tries[w])
             again == WithTries(doc[w], "executing", n)
             failed == Failed(doc[w], More(doc[w].retries))
             over == On(failed, "ERROR_FATAL")
  <2>1. Save(w, again) \/ SaveAll(w, over) \/ Stale(w) BY <1>17 DEF NotVerified
  <2>2. again \in Tasks /\ again.kind = doc[w].kind BY <1>2, WithTriesType, StatusNames
  <2>3. failed \in Tasks /\ failed.kind = doc[w].kind BY <1>2, ReschedulingType
  <2> HIDE DEF again, failed
  <2>4. over \in Tasks /\ over.kind = FSM!Reduce(failed.kind, "ERROR_FATAL") BY <2>3, OnType
  <2> HIDE DEF over
  <2>5. CASE Save(w, again) BY <1>1, <2>2, <2>5, SaveStored DEF Follows, KeepsOff
  <2>6. CASE SaveAll(w, over)
    <3>1. Stored' /\ doc[w].kind = task.kind /\ task'.kind = over.kind
      BY <1>1, <2>4, <2>6, SaveAllStored
    <3>2. "ERROR_FATAL" \in FSM!Events BY DEF FSM!Events
    <3> QED BY <2>3, <2>4, <3>1, <3>2, HappensFollows
  <2> QED BY <1>1, <2>1, <2>5, <2>6, StaleStored
<1>18. CASE Release(w) BY <1>1, <1>18, ForgetStored DEF Release, taskVars
<1> QED BY <1>4, <1>5, <1>6, <1>7, <1>8, <1>9, <1>10, <1>11, <1>12, <1>13, <1>14, <1>15,
           <1>16, <1>17, <1>18 DEF Run

(* The counters of a run and its place in the code *)
LEMMA GotoType ==
    ASSUME Rest, NEW w \in Worker, NEW l \in PCs, Goto(w, l)
    PROVE  pc' \in [Worker -> PCs]
BY DEF Rest, Goto

LEMMA ForgetType ==
    ASSUME Rest, NEW w \in Worker, Forget(w)
    PROVE  /\ pc' \in [Worker -> PCs] /\ job' \in [Worker -> Key \cup {NoJob}]
           /\ tries' \in [Worker -> Retries] /\ turns' \in [Worker -> 0 .. MaxIterations]
<1>1. Goto(w, "idle") /\ "idle" \in PCs BY DEF Forget, PCs
<1>2. pc' \in [Worker -> PCs] BY <1>1, GotoType
<1>3. 0 \in Retries /\ 0 \in 0 .. MaxIterations BY LifecycleAssumption DEF Retries
<1> QED BY <1>2, <1>3 DEF Rest, Forget

LEMMA MishapType ==
    ASSUME Rest, NEW f, Mishap(f)
    PROVE  mishaps' \in Seq(Faults)
BY DEF Rest, Mishap

LEMMA TriesType ==
    ASSUME Rest, NEW w \in Worker, tries' = [tries EXCEPT ![w] = More(tries[w])]
    PROVE  tries' \in [Worker -> Retries]
BY MoreType DEF Rest

LEMMA IterationFailsType ==
    ASSUME Rest, NEW w \in Worker, NEW next \in {"top", "over"}, IterationFails(w, next)
    PROVE  /\ pc' \in [Worker -> PCs]
           /\ tries' \in [Worker -> Retries] /\ turns' \in [Worker -> 0 .. MaxIterations]
<1>1. PICK l \in {"top", "over", "returned"} : Goto(w, l) BY DEF IterationFails
<1>2. pc' \in [Worker -> PCs] BY <1>1, GotoType DEF PCs
<1>3. tries' = [tries EXCEPT ![w] = More(tries[w])] BY DEF IterationFails
<1> QED BY <1>2, <1>3, TriesType DEF Rest, IterationFails

(* What a step of a run leaves alone, and what it may do to the counters *)
LEMMA RunRest ==
    ASSUME Inv, NEW w \in Worker, Run(w), UNCHANGED config
    PROVE  Rest'
<1> USE DEF Inv
<1> DEFINE Counted == /\ pc' \in [Worker -> PCs]
                      /\ tries' \in [Worker -> Retries]
                      /\ turns' \in [Worker -> 0 .. MaxIterations]
<1>1. ASSUME RunStep(w), Counted PROVE Rest'
  BY <1>1 DEF Rest, RunStep, config, leaseVars
<1>2. \A l \in PCs : Goto(w, l) /\ UNCHANGED <<tries, turns>> => Counted
  BY GotoType DEF Rest
<1>3. {"idle", "preflight", "start", "begin", "top", "decide", "goal", "tool", "verify",
       "over", "returned", "threw"} = PCs BY DEF PCs
<1>4. Stale(w) => Counted BY <1>2, <1>3 DEF Stale
<1>5. EndsFailed(w) => Counted BY <1>2, <1>3 DEF EndsFailed
<1>6. Finalize(w) => Counted BY <1>2, <1>3 DEF Finalize
<1>7. IterationFails(w, "top") \/ IterationFails(w, "over") => Counted BY IterationFailsType
<1> HIDE DEF Counted
<1>8. CASE Preflight(w)
  <2>1. CASE Finalize(w) BY <1>1, <1>6, <1>8, <2>1 DEF Preflight
  <2>2. CASE /\ tries' = [tries EXCEPT ![w] = task.retries]
             /\ turns' = [turns EXCEPT ![w] = 0] /\ Goto(w, "start")
    <3>1. pc' \in [Worker -> PCs] BY <1>3, <2>2, GotoType
    <3>2. task.retries \in Retries BY DEF Stored, Tasks
    <3>3. 0 \in 0 .. MaxIterations BY LifecycleAssumption
    <3>4. Counted BY <2>2, <3>1, <3>2, <3>3 DEF Counted, Rest
    <3> QED BY <1>1, <1>8, <3>4 DEF Preflight
  <2> QED BY <1>8, <2>1, <2>2 DEF Preflight
<1>9. CASE Start(w) BY <1>1, <1>2, <1>3, <1>9 DEF Start
<1>10. CASE Begin(w) BY <1>1, <1>2, <1>3, <1>4, <1>10 DEF Begin
<1>11. CASE Iterate(w)
  <2>1. CASE Finalize(w) BY <1>1, <1>6, <1>11, <2>1 DEF Iterate
  <2>2. CASE turns' = [turns EXCEPT ![w] = @ + 1] /\ Goto(w, "decide") /\ UNCHANGED tries
    <3>1. pc' \in [Worker -> PCs] BY <1>3, <2>2, GotoType
    <3>2. turns[w] + 1 \in 0 .. MaxIterations
      BY <1>11, LifecycleAssumption DEF Iterate, MayIterate, Rest
    <3>3. Counted BY <2>2, <3>1, <3>2 DEF Counted, Rest
    <3> QED BY <1>1, <1>11, <3>3 DEF Iterate
  <2> QED BY <1>11, <2>1, <2>2 DEF Iterate
<1>12. CASE Exhaust(w) BY <1>1, <1>4, <1>5, <1>12 DEF Exhaust
<1>13. CASE Abort(w) BY <1>1, <1>4, <1>5, <1>6, <1>13 DEF Abort
<1>14. CASE Achieve(w) BY <1>1, <1>2, <1>3, <1>14 DEF Achieve
<1>15. CASE Complete(w)
  <2>1. Counted BY <1>2, <1>3, <1>4, <1>7, <1>15 DEF Complete
  <2>2. mishaps' \in Seq(Faults) BY <1>15, MishapType DEF Complete, Rest
  <2> QED BY <1>15, <2>1, <2>2 DEF Complete, Counted, Rest, leaseVars, config
<1>16. CASE Clarify(w) BY <1>1, <1>2, <1>3, <1>4, <1>16 DEF Clarify
<1>17. CASE ModelFails(w)
  <2>1. PICK l \in {"returned", "threw"} : Goto(w, l) /\ UNCHANGED <<tries, turns>>
    BY <1>17 DEF ModelFails
  <2>2. Counted BY <1>2, <1>3, <2>1
  <2>3. due' \in {"none", "later", "past"} BY <1>17 DEF ModelFails, Rest
  <2> QED BY <1>17, <2>2, <2>3 DEF ModelFails, Counted, Rest, leaseVars, config
<1>18. CASE StartTool(w) BY <1>1, <1>2, <1>3, <1>4, <1>6, <1>18 DEF StartTool
<1>19. CASE Observe(w) BY <1>1, <1>2, <1>3, <1>4, <1>7, <1>19 DEF Observe
<1>20. CASE Verified(w) BY <1>1, <1>2, <1>3, <1>4, <1>20 DEF Verified
<1>21. CASE NotVerified(w)
  <2>1. CASE Stale(w) BY <1>1, <1>4, <1>21, <2>1 DEF NotVerified
  <2>2. CASE ~Stale(w)
    <3>1. PICK l \in {"top", "returned"} : Goto(w, l) BY <1>21, <2>2 DEF NotVerified
    <3>2. pc' \in [Worker -> PCs] BY <1>3, <3>1, GotoType
    <3>3. tries' = [tries EXCEPT ![w] = More(tries[w])] /\ UNCHANGED turns
      BY <1>21, <2>2 DEF NotVerified
    <3>4. Counted BY <3>2, <3>3, TriesType DEF Counted, Rest
    <3> QED BY <1>1, <1>21, <3>4 DEF NotVerified
  <2> QED BY <2>1, <2>2
<1>22. CASE Release(w)
  <2>1. /\ pc' \in [Worker -> PCs] /\ job' \in [Worker -> Key \cup {NoJob}]
        /\ tries' \in [Worker -> Retries] /\ turns' \in [Worker -> 0 .. MaxIterations]
    BY <1>22, ForgetType DEF Release
  <2>2. PICK outcome \in {"done", "pending"} : queue' = [queue EXCEPT ![job[w]] = outcome]
    BY <1>22 DEF Release
  <2>3. queue' \in [Key -> {"none", "pending", "taken", "done"}] BY <2>2 DEF Rest
  <2>4. owner' \in Worker \cup {Nobody, Gone} BY <1>22 DEF Release, Rest
  <2> QED BY <1>22, <2>1, <2>3, <2>4 DEF Release, Rest, taskVars, config
<1> QED BY <1>8, <1>9, <1>10, <1>11, <1>12, <1>13, <1>14, <1>15, <1>16, <1>17, <1>18, <1>19,
           <1>20, <1>21, <1>22 DEF Run

LEMMA RunFlags ==
    ASSUME Inv, NEW w \in Worker, Run(w)
    PROVE  Flags'
<1>1. UNCHANGED cancel
  BY DEF Run, Preflight, Start, Begin, Iterate, Exhaust, Abort, Achieve, Complete, Clarify,
         ModelFails, StartTool, Observe, Verified, NotVerified, Release, RunStep, taskVars
<1>2. UNCHANGED live \/ live' = FALSE
  BY DEF Run, Preflight, Start, Begin, Iterate, Exhaust, Abort, Achieve, Complete, Clarify,
         ModelFails, StartTool, Observe, Verified, NotVerified, Release, RunStep, leaseVars
<1>3. cancel \in BOOLEAN /\ live \in BOOLEAN BY DEF Inv, Flags
<1>4. cancel' \in BOOLEAN BY <1>1, <1>3
<1>5. live' \in BOOLEAN BY <1>2, <1>3
<1> QED BY <1>4, <1>5 DEF Flags

-----------------------------------------------------------------------------
(* Requests, cancellation, time, scanner and detector *)

LEMMA ProcessCancelStored ==
    ASSUME Stored, ProcessCancel, UNCHANGED doc
    PROVE  Stored' /\ Follows
<1> DEFINE k == FSM!Reduce(task.kind, "CANCEL_REQUESTED")
           asked == At(FSM!LifeOf(k), task.status, k, task.retries)
<1>1. task \in Tasks /\ task.kind \in FSM!Kinds BY DEF Stored, Tasks
<1>2. UNCHANGED <<task, copies>> \/ SaveRead(asked) \/ SaveRead(Cancelled(task))
  BY DEF ProcessCancel
<1>3. k \in FSM!Kinds BY <1>1, ReduceType
<1>4. asked \in Tasks /\ asked.kind = k
  <2> HIDE DEF k
  <2> QED BY <1>1, <1>3, LifeType, AtType DEF Tasks
<1>5. CASE SaveRead(asked)
  <2>1. "CANCEL_REQUESTED" \in FSM!Events BY DEF FSM!Events
  <2> HIDE DEF asked
  <2>2. Stored' /\ task' = asked BY <1>4, <1>5, SaveReadStored
  <2> QED BY <1>4, <2>1, <2>2, HappensFollows
<1>6. CASE SaveRead(Cancelled(task))
  <2>1. Stored' /\ task' = Cancelled(task) BY <1>1, <1>6, CancelledType, SaveReadStored
  <2> QED BY <1>1, <2>1, CancelledFollows
<1> QED BY <1>2, <1>5, <1>6, QuietStored

LEMMA IngressStored ==
    ASSUME Stored, NEW w \in Worker, Ingress(w)
    PROVE  Stored' /\ Follows
<1>1. task \in Tasks BY DEF Stored
<1> PICK k \in Key :
        \/ TakeCancel(w, k) \/ Refuse(w, k) \/ Accept(w, k)
        \/ \E e \in {"POLICY_BLOCKED", "POLICY_APPROVAL_REQUIRED"} : Judge(w, k, e)
  BY DEF Ingress
<1>2. CASE TakeCancel(w, k) BY <1>2, ProcessCancelStored DEF TakeCancel
<1>3. CASE Refuse(w, k)
  <2> DEFINE t == At(task.life, "failed", task.kind, task.retries)
  <2>1. t \in Tasks /\ t.kind = task.kind BY <1>1 DEF At, Tasks, Statuses
  <2>2. SaveRead(t) /\ UNCHANGED doc BY <1>3 DEF Refuse
  <2> HIDE DEF t
  <2> QED BY <2>1, <2>2, SaveReadStored DEF Follows
<1>4. CASE Accept(w, k) BY <1>4, QuietStored DEF Accept, taskVars, runVars
<1>5. ASSUME NEW e \in {"POLICY_BLOCKED", "POLICY_APPROVAL_REQUIRED"}, Judge(w, k, e)
      PROVE  Stored' /\ Follows
  <2> DEFINE j == FSM!Reduce(FSM!Reduce("queued", "POLICY_EVALUATE"), e)
             t == At(FSM!LifeOf(j), FSM!StatusOf(j), j, task.retries)
  <2>1. "queued" \in FSM!Kinds BY DEF FSM!Kinds
  <2>2. j \in FSM!Kinds BY <2>1, ReduceType
  <2>3. SaveRead(t) /\ UNCHANGED doc BY <1>5 DEF Judge
  <2>4. t \in Tasks /\ t.kind = j
    <3> HIDE DEF j
    <3> QED BY <1>1, <2>2, LifeType, StatusType, AtType DEF Tasks
  <2>5. Stored' /\ task' = t
    <3> HIDE DEF t
    <3> QED BY <2>3, <2>4, SaveReadStored
  <2>6. task'.kind = j BY <2>4, <2>5
  <2> QED BY <2>5, <2>6 DEF Follows, FSM!Next, FSM!Judge
<1> QED BY <1>2, <1>3, <1>4, <1>5

(* Stores a new life, date or count, and keeps kind and version *)
LEMMA WithLifeType ==
    ASSUME NEW t \in Tasks, NEW l \in Lives
    PROVE  WithLife(t, l) \in Tasks /\ WithLife(t, l).kind = t.kind
BY DEF WithLife, At, Tasks

LEMMA AfterDueType ==
    ASSUME NEW t \in Tasks
    PROVE  AfterDue(t) \in Tasks /\ AfterDue(t).kind = FSM!Reduce(t.kind, "RETRY_DUE")
<1> DEFINE k == FSM!Reduce(t.kind, "RETRY_DUE")
<1>1. k \in FSM!Kinds /\ FSM!LifeOf(k) \in Lives BY ReduceType, LifeType DEF Tasks
<1>2. AfterDue(t) = IF k = t.kind THEN t ELSE At(FSM!LifeOf(k), t.status, k, t.retries)
  BY DEF AfterDue
<1> HIDE DEF k
<1>3. t.status \in Statuses /\ t.retries \in Retries BY DEF Tasks
<1>4. CASE k = t.kind BY <1>2, <1>4 DEF k
<1>5. CASE k # t.kind
  <2>1. AfterDue(t) \in Tasks /\ AfterDue(t).kind = k BY <1>1, <1>2, <1>3, <1>5, AtType
  <2> QED BY <2>1 DEF k
<1> QED BY <1>4, <1>5

LEMMA DueStored ==
    ASSUME Stored, SaveRead(AfterDue(task)), UNCHANGED doc
    PROVE  Stored' /\ Follows
<1>1. task \in Tasks BY DEF Stored
<1>2. Stored' /\ task' = AfterDue(task) BY <1>1, AfterDueType, SaveReadStored
<1>3. "RETRY_DUE" \in FSM!Events BY DEF FSM!Events
<1> QED BY <1>1, <1>2, <1>3, AfterDueType, HappensFollows

(* The task as a scanner has read it gets what RETRY_DUE makes of it *)
LEMMA SaveDueStored ==
    ASSUME Stored, NEW w \in Worker, NEW t \in read[w],
           SaveRead(Merged(task, t, AfterDue(t))), UNCHANGED doc
    PROVE  Stored' /\ Follows
<1>1. task \in Tasks /\ t \in Tasks /\ t.kind = task.kind
  BY DEF Stored, Readings, FreshKnowsKind
<1>2. AfterDue(t) \in Tasks /\ AfterDue(t).kind = FSM!Reduce(t.kind, "RETRY_DUE")
  BY <1>1, AfterDueType
<1>3. /\ Merged(task, t, AfterDue(t)) \in Tasks
      /\ Merged(task, t, AfterDue(t)).kind = AfterDue(t).kind
  BY <1>1, <1>2, MergedType
<1>4. Stored' /\ task'.kind = AfterDue(t).kind BY <1>3, SaveReadStored
<1>5. "RETRY_DUE" \in FSM!Events BY DEF FSM!Events
<1> QED BY <1>1, <1>2, <1>4, <1>5, HappensFollows

LEMMA ReadDueStored ==
    ASSUME Stored, NEW w \in Worker, ReadDue(w)
    PROVE  Stored' /\ Follows
<1>1. task \in Tasks /\ UNCHANGED <<task, doc, fresh>> BY DEF Stored, ReadDue, ScanStep
<1>2. CASE UNCHANGED read BY <1>1, <1>2, QuietStored
<1>3. CASE AfterDue(task) # task /\ read' = [read EXCEPT ![w] = {task}]
  <2>1. read' \in [Worker -> SUBSET Tasks] BY <1>1, <1>3 DEF Stored, Readings
  <2>2. read'[w] = {task} /\ \A v \in Worker : v # w => read'[v] = read[v]
    BY <1>3 DEF Stored, Readings
  <2>3. Readings' BY <1>3, <2>1, <2>2 DEF Stored, Readings
  <2>4. FreshKnowsKind' BY <1>1, <2>2 DEF Stored, FreshKnowsKind
  <2> QED BY <1>1, <2>3, <2>4 DEF Stored, Follows
<1> QED BY <1>2, <1>3 DEF ReadDue

LEMMA ScanStored ==
    ASSUME Stored, Scan
    PROVE  Stored' /\ Follows
<1>1. task \in Tasks BY DEF Stored
<1>2. {"ready", "retry_scheduled"} \subseteq Lives BY DEF Lives
<1>3. ASSUME NEW w \in Worker, Claim(w) PROVE Stored' /\ Follows
  BY <1>1, <1>2, <1>3, WithLifeType, KeepKindStored DEF Claim, ScanStep
<1>4. ASSUME NEW w \in Worker, Enqueue(w) PROVE Stored' /\ Follows
  <2>1. task' \in Tasks /\ task'.kind = task.kind
    BY <1>1, <1>2, <1>4, WithLifeType DEF Enqueue
  <2> QED BY <1>4, <2>1, KeepKindStored DEF Enqueue, ScanStep
<1>5. ASSUME NEW w \in Worker, ReadDue(w) \/ SaveDue(w) PROVE Stored' /\ Follows
  <2>1. CASE ReadDue(w) BY <2>1, ReadDueStored
  <2>2. CASE SaveDue(w) BY <2>2, SaveDueStored, QuietStored DEF SaveDue, ScanStep
  <2> QED BY <1>5, <2>1, <2>2
<1>6. CASE Promote
  <2>1. CASE SaveRead(AfterDue(task)) BY <1>6, <2>1, DueStored DEF Promote, ScanStep
  <2>2. CASE task' = WithLife(task, "ready") /\ UNCHANGED copies
    BY <1>1, <1>2, <1>6, <2>2, WithLifeType, KeepKindStored DEF Promote, ScanStep
  <2> QED BY <1>6, <2>1, <2>2 DEF Promote
<1> QED BY <1>3, <1>4, <1>5, <1>6 DEF Scan

LEMMA DetectorStored ==
    ASSUME Inv, NEW w \in Worker, DetectStuck(w) \/ RetryStuck(w)
    PROVE  Stored' /\ Follows
<1>1. Stored /\ task \in Tasks /\ task.retries \in Retries /\ stuck[w] \in Retries
  BY DEF Inv, Stored, Rest, Tasks
<1>2. /\ Failed(task, task.retries) \in Tasks
      /\ Failed(task, task.retries).kind = task.kind
      /\ Failed(task, stuck[w]) \in Tasks /\ Failed(task, stuck[w]).kind = task.kind
      /\ Rescheduled(task, stuck[w]) \in Tasks
      /\ Rescheduled(task, stuck[w]).kind = task.kind
  BY <1>1, ReschedulingType
<1>3. \/ task' = task \/ task' = Failed(task, task.retries)
      \/ task' = Failed(task, stuck[w]) \/ task' = Rescheduled(task, stuck[w])
  BY DEF DetectStuck, RetryStuck
<1>4. UNCHANGED <<doc, copies>> BY DEF DetectStuck, RetryStuck, runVars
<1> QED BY <1>1, <1>2, <1>3, <1>4, KeepKindStored

-----------------------------------------------------------------------------
(* Every step *)

LEMMA StepStored ==
    ASSUME Inv, Step
    PROVE  Stored' /\ Follows
<1>1. Stored BY DEF Inv
<1>2. ASSUME NEW k \in Key, Request(k) PROVE Stored' /\ Follows
  BY <1>1, <1>2, QuietStored DEF Request, taskVars, runVars
<1>3. CASE RequestCancel BY <1>1, <1>3, QuietStored DEF RequestCancel, runVars
<1>4. ASSUME NEW w \in Worker,
             Ingress(w) \/ Run(w) \/ Crash(w) \/ DetectStuck(w) \/ RetryStuck(w)
      PROVE  Stored' /\ Follows
  <2>1. CASE Crash(w) BY <1>1, <2>1, ForgetStored DEF Crash, taskVars
  <2> QED BY <1>1, <1>4, <2>1, IngressStored, RunStored, DetectorStored
<1>5. CASE DueComes \/ LeaseRunsOut \/ HeartbeatAges
  BY <1>1, <1>5, QuietStored
  DEF DueComes, LeaseRunsOut, HeartbeatAges, taskVars, runVars
<1>6. CASE Scan BY <1>1, <1>6, ScanStored
<1> QED BY <1>2, <1>3, <1>4, <1>5, <1>6 DEF Step

LEMMA StepFlags ==
    ASSUME Inv, Step
    PROVE  Flags'
<1>1. cancel \in BOOLEAN /\ live \in BOOLEAN BY DEF Inv, Flags
<1>2. ASSUME NEW w \in Worker, Run(w) PROVE Flags' BY <1>2, RunFlags
<1>3. CASE \A w \in Worker : ~Run(w)
  <2>1. UNCHANGED cancel \/ cancel' = TRUE
    BY <1>3 DEF Step, Request, RequestCancel, Ingress, TakeCancel, Refuse, Judge, Accept, Crash,
           DetectStuck, RetryStuck, DueComes, LeaseRunsOut, HeartbeatAges, Scan, Claim,
           Enqueue, ReadDue, SaveDue, Promote, ScanStep, taskVars
  <2>2. UNCHANGED live \/ live' = FALSE \/ live' = TRUE
    BY <1>3 DEF Step, Request, RequestCancel, Ingress, TakeCancel, ProcessCancel, Refuse, Judge,
           Accept, Crash, DetectStuck, RetryStuck, DueComes, LeaseRunsOut, HeartbeatAges, Scan,
           Claim, Enqueue, ReadDue, SaveDue, Promote, ScanStep, leaseVars
  <2>3. cancel' \in BOOLEAN BY <1>1, <2>1
  <2>4. live' \in BOOLEAN BY <1>1, <2>2
  <2> QED BY <2>3, <2>4 DEF Flags
<1> QED BY <1>2, <1>3

(* An event that is enqueued, taken or done *)
LEMMA QueueType ==
    ASSUME Rest, NEW k, NEW v \in {"none", "pending", "taken", "done"},
           queue' = [queue EXCEPT ![k] = v]
    PROVE  queue' \in [Key -> {"none", "pending", "taken", "done"}]
BY DEF Rest

LEMMA StepRest ==
    ASSUME Inv, Step, UNCHANGED config
    PROVE  Rest'
<1>1. Rest BY DEF Inv
<1>2. ASSUME NEW k \in Key, Request(k) PROVE Rest'
  <2>1. queue' \in [Key -> {"none", "pending", "taken", "done"}]
    BY <1>1, <1>2, QueueType DEF Request
  <2> QED BY <1>1, <1>2, <2>1 DEF Request, Rest, taskVars, leaseVars, runVars, config
<1>3. CASE RequestCancel
  <2>1. queue' \in [Key -> {"none", "pending", "taken", "done"}]
    BY <1>1, <1>3, QueueType DEF RequestCancel, Rest
  <2>2. mishaps' \in Seq(Faults) BY <1>1, <1>3, MishapType DEF RequestCancel, Rest
  <2> QED BY <1>1, <1>3, <2>1, <2>2 DEF RequestCancel, Rest, leaseVars, runVars, config
<1>4. ASSUME NEW w \in Worker, Ingress(w) PROVE Rest'
  <2> PICK k \in Key :
          \/ TakeCancel(w, k) \/ Refuse(w, k) \/ Accept(w, k)
          \/ \E e \in {"POLICY_BLOCKED", "POLICY_APPROVAL_REQUIRED"} : Judge(w, k, e)
    BY <1>4 DEF Ingress
  <2>1. queue' \in [Key -> {"none", "pending", "taken", "done"}]
    BY <1>1, QueueType DEF TakeCancel, Refuse, Accept, Judge
  <2>2. CASE TakeCancel(w, k)
    <3>1. owner' \in Worker \cup {Nobody, Gone}
      BY <1>1, <2>2 DEF TakeCancel, ProcessCancel, Rest
    <3> QED BY <1>1, <2>1, <2>2, <3>1 DEF TakeCancel, Rest, config
  <2>6. Intrudes => mishaps' \in Seq(Faults) BY <1>1, MishapType DEF Intrudes, Rest
  <2>3. CASE Refuse(w, k)
    BY <1>1, <2>1, <2>3, <2>6 DEF Refuse, Rest, leaseVars, config
  <2>4. CASE Accept(w, k)
    <3>1. pc' \in [Worker -> PCs] BY <1>1, <2>4, GotoType DEF Accept, PCs
    <3>2. job' \in [Worker -> Key \cup {NoJob}] BY <1>1, <2>4 DEF Accept, Rest
    <3>3. mishaps' \in Seq(Faults) BY <1>1, <2>4, MishapType DEF Accept, Rest
    <3> QED BY <1>1, <2>1, <2>4, <3>1, <3>2, <3>3 DEF Accept, Rest, taskVars, runVars, config
  <2>5. ASSUME NEW e \in {"POLICY_BLOCKED", "POLICY_APPROVAL_REQUIRED"}, Judge(w, k, e)
        PROVE  Rest'
    BY <1>1, <2>1, <2>5, <2>6 DEF Judge, Rest, leaseVars, config
  <2> QED BY <2>2, <2>3, <2>4, <2>5
<1>5. ASSUME NEW w \in Worker, Run(w) PROVE Rest' BY <1>5, RunRest
<1>6. ASSUME NEW w \in Worker, Crash(w) PROVE Rest'
  <2>1. /\ pc' \in [Worker -> PCs] /\ job' \in [Worker -> Key \cup {NoJob}]
        /\ tries' \in [Worker -> Retries] /\ turns' \in [Worker -> 0 .. MaxIterations]
    BY <1>1, <1>6, ForgetType DEF Crash
  <2>2. queue' \in [Key -> {"none", "pending", "taken", "done"}]
    BY <1>1, <1>6, QueueType DEF Crash, Rest
  <2>3. mishaps' \in Seq(Faults) BY <1>1, <1>6, MishapType DEF Crash
  <2>4. 0 \in Retries BY LifecycleAssumption DEF Retries
  <2>5. stuck' \in [Worker -> Retries] BY <1>1, <1>6, <2>4 DEF Crash, Rest
  <2>6. owner' \in Worker \cup {Nobody, Gone} BY <1>1, <1>6 DEF Crash, Rest
  <2>7. scan' \in [Worker -> {"idle", "claimed", "enqueued", "due"} \X Retries]
    BY <1>1, <1>6, <2>4 DEF Crash, Rest, NoScan
  <2> QED BY <1>1, <1>6, <2>1, <2>2, <2>3, <2>5, <2>6, <2>7 DEF Crash, Rest, taskVars, config
<1>7. ASSUME NEW w \in Worker, DetectStuck(w) PROVE Rest'
  <2>1. More(task.retries) \in Retries BY MoreType DEF Inv, Stored, Tasks
  <2>2. stuck' \in [Worker -> Retries] BY <1>1, <1>7, <2>1 DEF DetectStuck, Rest
  <2> QED BY <1>1, <1>7, <2>2 DEF DetectStuck, Rest, runVars, config
<1>8. ASSUME NEW w \in Worker, RetryStuck(w) PROVE Rest'
  <2>1. 0 \in Retries BY LifecycleAssumption DEF Retries
  <2>2. stuck' \in [Worker -> Retries] BY <1>1, <1>8, <2>1 DEF RetryStuck, Rest
  <2>3. due' \in {"none", "later", "past"} BY <1>1, <1>8 DEF RetryStuck, Rest
  <2> QED BY <1>1, <1>8, <2>2, <2>3 DEF RetryStuck, Rest, leaseVars, runVars, config
<1>9. CASE DueComes BY <1>1, <1>9 DEF DueComes, Rest, leaseVars, runVars, config
<1>10. CASE LeaseRunsOut
  <2>1. mishaps' \in Seq(Faults) BY <1>1, <1>10, MishapType DEF LeaseRunsOut, Rest
  <2> QED BY <1>1, <1>10, <2>1 DEF LeaseRunsOut, Rest, taskVars, runVars, config
<1>11. CASE HeartbeatAges BY <1>1, <1>11 DEF HeartbeatAges, Rest, taskVars, runVars, config
<1>12. CASE Scan
  <2>1. queue' \in [Key -> {"none", "pending", "taken", "done"}]
    BY <1>1, <1>12, QueueType DEF Scan, Claim, Enqueue, ReadDue, SaveDue, Promote, Rest
  <2>4. task.retries \in Retries /\ 0 \in Retries
    BY LifecycleAssumption DEF Inv, Stored, Tasks, Retries
  <2>2. scan' \in [Worker -> {"idle", "claimed", "enqueued", "due"} \X Retries]
    <3>1. scan \in [Worker -> {"idle", "claimed", "enqueued", "due"} \X Retries] BY <1>1 DEF Rest
    <3>2. \/ UNCHANGED scan
          \/ \E w \in Worker : scan' = [scan EXCEPT ![w] = <<"claimed", task.retries>>]
          \/ \E w \in Worker : scan' = [scan EXCEPT ![w] = <<"enqueued", 0>>]
          \/ \E w \in Worker : scan' = [scan EXCEPT ![w] = <<"due", 0>>]
          \/ \E w \in Worker : scan' = [scan EXCEPT ![w] = <<"idle", 0>>]
      BY <1>12 DEF Scan, Claim, Enqueue, ReadDue, SaveDue, Promote, NoScan
    <3>3. \A s \in {"idle", "claimed", "enqueued", "due"}, n \in Retries :
              <<s, n>> \in {"idle", "claimed", "enqueued", "due"} \X Retries
      OBVIOUS
    <3> QED BY <2>4, <3>1, <3>2, <3>3
  <2>3. ScanStep BY <1>12 DEF Scan, Claim, Enqueue, ReadDue, SaveDue, Promote
  <2> QED BY <1>1, <2>1, <2>2, <2>3 DEF ScanStep, Rest, leaseVars, config
<1> QED BY <1>2, <1>3, <1>4, <1>5, <1>6, <1>7, <1>8, <1>9, <1>10, <1>11, <1>12 DEF Step

LEMMA InitInv == Init => Inv
<1> SUFFICES ASSUME Init PROVE Inv OBVIOUS
<1>1. NewTask \in Tasks
  BY LifecycleAssumption DEF NewTask, At, Tasks, Lives, Statuses, FSM!Kinds, Retries
<1>2. 0 \in Retries /\ 0 \in 0 .. MaxIterations /\ <<>> \in Seq(Faults)
  BY LifecycleAssumption DEF Retries
<1>3. fresh \in [Worker -> BOOLEAN] BY Zenon DEF Init
<1>4. \A w \in Worker : ~fresh[w] BY DEF Init
<1>5. Stored BY <1>1, <1>3, <1>4 DEF Init, Stored, FreshKnowsKind, Readings
<1>6. Flags BY DEF Init, Flags
<1>7. Rest BY <1>2 DEF Init, Rest, PCs, NoScan
<1> QED BY <1>5, <1>6, <1>7 DEF Inv

LEMMA NextInv == Inv /\ [Next]_vars => Inv' /\ [FSM!Next]_(task.kind)
<1> SUFFICES ASSUME Inv, [Next]_vars PROVE Inv' /\ [FSM!Next]_(task.kind) OBVIOUS
<1>1. CASE Next
  <2>1. Step /\ UNCHANGED config BY <1>1 DEF Next
  <2>2. Stored' /\ Follows BY <2>1, StepStored
  <2>3. Flags' /\ Rest' BY <2>1, StepFlags, StepRest
  <2> QED BY <2>2, <2>3 DEF Inv, Follows
<1>2. CASE UNCHANGED vars
  <2>1. UNCHANGED <<task, doc, copies>> BY <1>2 DEF vars
  <2>2. Stored' BY <2>1, QuietStored DEF Inv
  <2>3. UNCHANGED <<cancel, live>> /\ cancel \in BOOLEAN /\ live \in BOOLEAN
    BY <1>2 DEF vars, Inv, Flags
  <2>4. Flags' BY <2>3, Zenon DEF Flags
  <2>5. Rest' BY <1>2 DEF vars, Inv, Rest
  <2> QED BY <2>1, <2>2, <2>4, <2>5 DEF Inv
<1> QED BY <1>1, <1>2

LEMMA SpecInv == Spec => []Inv
<1>1. Inv /\ [Next]_vars => Inv' BY NextInv
<1> QED BY InitInv, <1>1, PTL DEF Spec

(* TypeOK: every variable keeps its type *)
THEOREM LifecycleTypes == Spec => []TypeOK
<1>1. Inv => TypeOK BY InvParts
<1> QED BY <1>1, SpecInv, PTL

(* FreshKnowsKind: a run or a scanner that may still save knows the stored *)
(* state, because every write of the state is a save, and a save makes the *)
(* copies of all others stale                                              *)
THEOREM SavingRunKnowsKind == Spec => []FreshKnowsKind
<1>1. Inv => FreshKnowsKind BY InvParts
<1> QED BY <1>1, SpecInv, PTL

(* FollowsFSM: the stored state follows the state machine, whoever writes  *)
(* it and however the writes interleave: TaskLifecycle implements          *)
(* ExecutionFSM                                                            *)
THEOREM ImplementsFSM == Spec => FollowsFSM
<1>1. Init => FSM!Init BY DEF Init, NewTask, At, FSM!Init
<1>2. Inv /\ [Next]_vars => [FSM!Next]_(task.kind) BY NextInv
<1> QED BY <1>1, <1>2, SpecInv, PTL DEF Spec, FollowsFSM, FSM!Spec
-----------------------------------------------------------------------------
(* What a behaviour without some of the mishaps keeps.  The three layers   *)
(* below need fewer and fewer mishaps: without a heartbeat that is late    *)
(* the run that has the lease is alone; without intruders as well, the     *)
(* counts of run and task go together; without crashes and overtaking as   *)
(* well, so do the keys that are spent.                                    *)

Slow == {"slow"}
Intruded == {"slow", "refuse"}
Disturbed == {"crash", "slow", "refuse", "overtake"}

LEMMA MishapAppears ==
    ASSUME mishaps \in Seq(Faults), UNCHANGED remedy, NEW f, Mishap(f), NEW F, Without(F)'
    PROVE  Without(F) /\ f \notin F
<1>1. mishaps' = Append(mishaps, f) /\ f \in Faults BY DEF Mishap
<1>2. Len(mishaps) \in Nat /\ DOMAIN mishaps = 1 .. Len(mishaps) OBVIOUS
<1>3. DOMAIN mishaps' = 1 .. Len(mishaps) + 1 /\ mishaps'[Len(mishaps) + 1] = f BY <1>1
<1>4. \A i \in DOMAIN mishaps : mishaps'[i] = mishaps[i] BY <1>1, <1>2
<1>5. \A i \in DOMAIN mishaps' : mishaps'[i] \notin F BY DEF Without
<1>6. f \notin F BY <1>2, <1>3, <1>5
<1>7. \A i \in DOMAIN mishaps : mishaps[i] \notin F BY <1>2, <1>3, <1>4, <1>5
<1>8. remedy # "retry" BY DEF Without
<1> QED BY <1>6, <1>7, <1>8 DEF Without

(* A step has one mishap at most *)
LEMMA StepMishaps ==
    ASSUME Step
    PROVE  UNCHANGED mishaps \/ \E f : Mishap(f)
<1>1. ASSUME NEW w \in Worker, Run(w) PROVE UNCHANGED mishaps \/ \E f : Mishap(f)
  BY <1>1 DEF Run, Preflight, Start, Begin, Iterate, Exhaust, Abort, Achieve, Complete, Clarify,
              ModelFails, StartTool, Observe, Verified, NotVerified, Release, RunStep
<1>2. ASSUME NEW w \in Worker, Ingress(w) PROVE UNCHANGED mishaps \/ \E f : Mishap(f)
  BY <1>2 DEF Ingress, TakeCancel, Refuse, Accept, Judge, Intrudes
<1> QED BY <1>1, <1>2 DEF Step, Request, RequestCancel, Crash, DetectStuck, RetryStuck, DueComes,
             LeaseRunsOut, HeartbeatAges, Scan, Promote, Claim, Enqueue, ReadDue, SaveDue, ScanStep

LEMMA StepWithout ==
    ASSUME Inv, Step, UNCHANGED config, NEW F, Without(F)'
    PROVE  Without(F) /\ remedy # "retry" /\ \A f \in F : ~Mishap(f)
<1>1. mishaps \in Seq(Faults) /\ UNCHANGED remedy BY DEF Inv, Rest, config
<1>2. \A f : Mishap(f) => Without(F) /\ f \notin F BY <1>1, MishapAppears
<1>3. CASE UNCHANGED mishaps BY <1>1, <1>2, <1>3 DEF Without
<1> QED BY <1>2, <1>3, StepMishaps DEF Without

-----------------------------------------------------------------------------
(* The first layer: while no heartbeat is late, the worker that holds the  *)
(* lease is the one that runs the task, whoever died before, nothing looks *)
(* stuck that is not, and a final cancellation meets no run                *)

Active == {"start", "begin", "top", "decide", "goal", "tool", "verify", "over"}

Exclusive ==
    /\ live => beats = "fresh"
    /\ \A w \in Worker : /\ pc[w] # "idle" <=> owner = w
                         /\ pc[w] # "idle" => live
                         /\ stuck[w] = 0

Final ==
    /\ \A w \in Worker : job[w] # CancelKey
    /\ queue[CancelKey] # "none" => cancel
    /\ task.kind = "cancelled" =>
          /\ cancel /\ task.life = "failed" /\ task.status = "failed"
          /\ \A w \in Worker : pc[w] \in {"idle", "returned", "threw"}

Sole == Exclusive /\ Final

LEMMA KeyNames ==
    /\ CancelKey \in Key /\ CancelKey # NoJob
    /\ \A n \in 1 .. MaxRetries + 1 : RetryKey(n) \in Key
    /\ \A n : RetryKey(n) # CancelKey
    /\ \A n, m : RetryKey(n) = RetryKey(m) => n = m
    /\ \A k \in Requests \X {0} : k \in Key /\ k # CancelKey /\ \A n : RetryKey(n) # k
BY LifecycleAssumption DEF Key, CancelKey, RetryKey, NoJob

LEMMA PlaceNames ==
    /\ Active \cup {"returned", "threw"} = PCs \ {"idle", "preflight"}
    /\ Active \cap {"returned", "threw", "idle", "preflight"} = {}
BY DEF Active, PCs

(* Where a step takes the run *)
LEMMA GotoGoes ==
    ASSUME Inv, NEW w \in Worker, NEW l, Goto(w, l)
    PROVE  pc'[w] = l /\ \A v \in Worker : v # w => pc'[v] = pc[v]
BY DEF Inv, Rest, Goto

(* No run while nobody has the lease *)
LEMMA NobodyRuns ==
    ASSUME Exclusive, ~Leased
    PROVE  \A v \in Worker : pc[v] = "idle"
BY LifecycleAssumption DEF Exclusive, Leased

(* A key that is not the cancellation's *)
LEMMA OtherKeys ==
    ASSUME Inv, NEW k, k # CancelKey, NEW s, queue' = [queue EXCEPT ![k] = s]
    PROVE  queue'[CancelKey] = queue[CancelKey]
BY KeyNames DEF Inv, Rest

(* A run goes on, under its lease *)
LEMMA GoesOnExclusive ==
    ASSUME Inv, Exclusive, NEW w \in Worker, pc[w] # "idle", NEW l, l # "idle", Goto(w, l),
           UNCHANGED <<owner, live, beats, stuck>>
    PROVE  Exclusive'
BY GotoGoes DEF Exclusive

(* Where an active run goes *)
LEMMA ActiveGoes ==
    ASSUME NEW w \in Worker, Run(w), pc[w] \in Active
    PROVE  /\ \E l \in PCs \ {"idle", "preflight"} : Goto(w, l)
           /\ UNCHANGED <<cancel, owner, live, beats, queue, scan, job, stuck>>
<1> USE DEF PCs
<1>1. CASE Start(w) BY <1>1 DEF Start, RunStep, leaseVars
<1>2. CASE Begin(w) BY <1>2 DEF Begin, Stale, RunStep, leaseVars
<1>3. CASE Iterate(w) BY <1>3 DEF Iterate, Finalize, RunStep, leaseVars
<1>4. CASE Exhaust(w) BY <1>4 DEF Exhaust, EndsFailed, Stale, RunStep, leaseVars
<1>5. CASE Abort(w) BY <1>5 DEF Abort, Finalize, EndsFailed, Stale, RunStep, leaseVars
<1>6. CASE Achieve(w) BY <1>6 DEF Achieve, RunStep, leaseVars
<1>7. CASE Complete(w) BY <1>7 DEF Complete, Stale, IterationFails, leaseVars
<1>8. CASE Clarify(w) BY <1>8 DEF Clarify, Stale, RunStep, leaseVars
<1>9. CASE ModelFails(w) BY <1>9 DEF ModelFails, leaseVars
<1>10. CASE StartTool(w) BY <1>10 DEF StartTool, Finalize, Stale, RunStep, leaseVars
<1>11. CASE Observe(w) BY <1>11 DEF Observe, IterationFails, Stale, RunStep, leaseVars
<1>12. CASE Verified(w) BY <1>12 DEF Verified, Stale, RunStep, leaseVars
<1>13. CASE NotVerified(w) BY <1>13 DEF NotVerified, Stale, RunStep, leaseVars
<1>14. ~Preflight(w) /\ ~Release(w) BY DEF Preflight, Release, Active
<1> QED BY <1>1, <1>2, <1>3, <1>4, <1>5, <1>6, <1>7, <1>8, <1>9, <1>10, <1>11, <1>12, <1>13,
           <1>14 DEF Run

LEMMA RunPlaces ==
    ASSUME NEW w \in Worker, Run(w)
    PROVE  Preflight(w) \/ Release(w) \/ pc[w] \in Active
BY DEF Run, Start, Begin, Iterate, Exhaust, Abort, Achieve, Complete, Clarify, ModelFails,
       StartTool, Observe, Verified, NotVerified, Active

(* A cancellation that has become final *)
LEMMA CancelledEnds ==
    ASSUME NEW t \in Tasks
    PROVE  /\ Cancelled(t) \in Tasks /\ Cancelled(t).retries = t.retries
           /\ Cancelled(t).life = "failed" /\ Cancelled(t).status = "failed"
           /\ Cancelled(t).kind # "retry_scheduled"
<1> DEFINE k == FSM!Reduce(t.kind, "CANCEL_REQUESTED")
           m == FSM!Reduce(k, "CANCEL_FINALIZED")
<1>1. k \in FSM!Kinds /\ k # "retry_scheduled"
  BY ReduceType DEF Tasks, FSM!Reduce, FSM!Target, FSM!Sources, FSM!LegalFrom, FSM!Kinds
<1>2. m \in {k, "cancelled"} BY DEF FSM!Reduce, FSM!Target
<1> HIDE DEF k
<1>3. m # "retry_scheduled" BY <1>1, <1>2
<1>4. Cancelled(t) = At("failed", "failed", m, t.retries) BY DEF Cancelled, k
<1> HIDE DEF m
<1> QED BY <1>3, <1>4, CancelledType DEF At

(* The cancellation is final in the worker that holds the lease *)
LEMMA FinalizeSole ==
    ASSUME Inv, Sole, NEW w \in Worker, Finalize(w), pc[w] # "idle",
           UNCHANGED <<cancel, owner, live, beats, queue, job, stuck>>
    PROVE  Sole'
<1>1. cancel /\ task' = Cancelled(task) /\ task \in Tasks /\ Goto(w, "returned")
  BY DEF Finalize, SaveRead, Inv, Stored
<1>2. Exclusive' BY <1>1, GoesOnExclusive DEF Sole
<1>3. pc'[w] = "returned" /\ \A v \in Worker : v # w => pc'[v] = pc[v] BY <1>1, GotoGoes
<1>4. \A v \in Worker : v # w => pc[v] = "idle" BY DEF Sole, Exclusive
<1>5. task'.life = "failed" /\ task'.status = "failed" BY <1>1, CancelledEnds
<1>6. Final' BY <1>1, <1>3, <1>4, <1>5 DEF Sole, Final
<1> QED BY <1>2, <1>6 DEF Sole

LEMMA RunSole ==
    ASSUME Inv, Sole, NEW w \in Worker, Run(w)
    PROVE  Sole'
<1>1. CASE Preflight(w)
  <2>1. /\ pc[w] = "preflight"
        /\ UNCHANGED <<cancel, owner, live, beats, queue, job, stuck>>
    BY <1>1 DEF Preflight, RunStep, leaseVars
  <2>2. CASE Finalize(w) BY <2>1, <2>2, FinalizeSole
  <2>3. CASE ~cancel /\ Goto(w, "start") /\ UNCHANGED task
    <3>1. Exclusive' BY <2>1, <2>3, GoesOnExclusive DEF Sole
    <3>2. Final' BY <2>1, <2>3 DEF Sole, Final
    <3> QED BY <3>1, <3>2 DEF Sole
  <2> QED BY <1>1, <2>2, <2>3 DEF Preflight
<1>2. CASE Release(w)
  <2>1. pc[w] # "idle" BY <1>2 DEF Release
  <2>2. /\ owner = w /\ \A v \in Worker : v # w => pc[v] = "idle" BY <2>1 DEF Sole, Exclusive
  <2>3. /\ owner' = Nobody /\ live' = FALSE /\ Goto(w, "idle") /\ UNCHANGED <<task, cancel, stuck>>
        /\ job' = [job EXCEPT ![w] = NoJob]
        /\ \E s : queue' = [queue EXCEPT ![job[w]] = s]
    BY <1>2, <2>2 DEF Release, Forget, taskVars
  <2>4. \A v \in Worker : pc'[v] = "idle" BY <2>2, <2>3, GotoGoes
  <2>5. Exclusive' BY <2>3, <2>4, LifecycleAssumption DEF Sole, Exclusive
  <2>6. queue'[CancelKey] = queue[CancelKey] BY <2>3, OtherKeys DEF Sole, Final
  <2>7. \A v \in Worker : job'[v] # CancelKey BY <2>3, KeyNames DEF Sole, Final, Inv, Rest
  <2>8. Final' BY <2>3, <2>4, <2>6, <2>7 DEF Sole, Final
  <2> QED BY <2>5, <2>8 DEF Sole
<1>3. CASE pc[w] \in Active
  <2>1. PICK l \in PCs \ {"idle", "preflight"} : Goto(w, l) BY <1>3, ActiveGoes
  <2>2. pc[w] # "idle" /\ UNCHANGED <<cancel, owner, live, beats, queue, job, stuck>>
    BY <1>3, ActiveGoes, PlaceNames
  <2>3. CASE Finalize(w) BY <2>2, <2>3, FinalizeSole
  <2>4. CASE KeepsOff
    <3>1. Exclusive' BY <2>1, <2>2, GoesOnExclusive DEF Sole
    <3>2. task.kind # "cancelled" BY <1>3, PlaceNames DEF Sole, Final
    <3>3. Final' BY <2>2, <2>4, <3>2 DEF Sole, Final, KeepsOff
    <3> QED BY <3>1, <3>3 DEF Sole
  <2> QED BY <2>3, <2>4, RunStored
<1> QED BY <1>1, <1>2, <1>3, RunPlaces

(* A worker takes an event while nobody has the lease, and what it stores  *)
(* is no cancellation, or one that was asked for                           *)
LEMMA JudgedSole ==
    ASSUME Inv, Sole, NEW k \in Key, queue[k] = "pending",
           queue' = [queue EXCEPT ![k] = "done"],
           \A v \in Worker : pc[v] = "idle", live' => live, owner' \in {owner, Nobody},
           task'.kind = "cancelled" =>
               cancel /\ task'.life = "failed" /\ task'.status = "failed",
           UNCHANGED <<cancel, beats, pc, job, stuck>>
    PROVE  Sole'
<1>1. Exclusive' BY LifecycleAssumption DEF Sole, Exclusive
<1>2. queue'[CancelKey] # "none" => queue[CancelKey] # "none" BY KeyNames DEF Inv, Rest
<1>3. Final' BY <1>2 DEF Sole, Final
<1> QED BY <1>1, <1>3 DEF Sole

(* What a cancellation that is left to the run stores *)
LEMMA AskedKind ==
    ASSUME NEW k \in FSM!Kinds
    PROVE  /\ FSM!Reduce(k, "CANCEL_REQUESTED") \in FSM!Kinds \ {"retry_scheduled"}
           /\ FSM!Reduce(k, "CANCEL_REQUESTED") \notin {"queued", "policy_evaluating"}
           /\ FSM!Reduce(k, "CANCEL_REQUESTED") = "cancelled" => k = "cancelled"
BY ReduceType DEF FSM!Reduce, FSM!Target, FSM!Sources, FSM!LegalFrom, FSM!Kinds

LEMMA TakeCancelSole ==
    ASSUME Inv, Sole, NEW w \in Worker, NEW k \in Key, TakeCancel(w, k)
    PROVE  Sole'
<1>1. /\ queue[k] = "pending" /\ queue' = [queue EXCEPT ![k] = "done"]
      /\ UNCHANGED <<cancel, beats, pc, job, stuck>>
  BY DEF TakeCancel
<1>2. cancel BY DEF TakeCancel, Sole, Final
<1>3. task \in Tasks /\ task.kind \in FSM!Kinds BY DEF Inv, Stored, Tasks
<1>4. queue'[CancelKey] # "none" => queue[CancelKey] # "none" BY <1>1, KeyNames DEF Inv, Rest
<1>5. CASE UNCHANGED <<owner, live>> /\ (task'.kind = "cancelled" => UNCHANGED task)
  <2>1. Exclusive' BY <1>1, <1>5 DEF Sole, Exclusive
  <2>2. Final' BY <1>1, <1>4, <1>5 DEF Sole, Final
  <2> QED BY <2>1, <2>2 DEF Sole
<1>6. CASE ~IsTerminal(task) /\ Leased
  <2> DEFINE m == FSM!Reduce(task.kind, "CANCEL_REQUESTED")
  <2>1. UNCHANGED task \/ SaveRead(At(FSM!LifeOf(m), task.status, m, task.retries))
    BY <1>6 DEF TakeCancel, ProcessCancel
  <2>2. m = "cancelled" => task.kind = "cancelled" BY <1>3, AskedKind
  <2> HIDE DEF m
  <2>3. task.kind # "cancelled" BY <1>6 DEF Sole, Final, IsTerminal
  <2>4. UNCHANGED task \/ task'.kind = m BY <2>1 DEF SaveRead, At
  <2>5. UNCHANGED <<owner, live>> BY <1>6 DEF TakeCancel, ProcessCancel
  <2> QED BY <1>5, <2>2, <2>3, <2>4, <2>5
<1>7. CASE ~IsTerminal(task) /\ ~Leased
  <2>1. SaveRead(Cancelled(task)) /\ owner' = Nobody /\ live' = FALSE
    BY <1>7 DEF TakeCancel, ProcessCancel
  <2>2. task'.life = "failed" /\ task'.status = "failed"
    BY <1>3, <2>1, CancelledEnds DEF SaveRead
  <2>3. \A v \in Worker : pc[v] = "idle" BY <1>7, NobodyRuns DEF Sole
  <2> QED BY <1>1, <1>2, <2>1, <2>2, <2>3, JudgedSole
<1> QED BY <1>5, <1>6, <1>7 DEF TakeCancel, ProcessCancel

(* What the policy stores of a request that is not to be executed *)
LEMMA JudgedKind ==
    ASSUME NEW e \in {"POLICY_BLOCKED", "POLICY_APPROVAL_REQUIRED"}
    PROVE  FSM!Reduce(FSM!Reduce("queued", "POLICY_EVALUATE"), e)
               \in {"policy_blocked", "awaiting_approval"}
<1>1. FSM!Reduce("queued", "POLICY_EVALUATE") = "policy_evaluating"
  BY DEF FSM!Reduce, FSM!Target, FSM!Sources, FSM!LegalFrom
<1>2. FSM!Reduce("policy_evaluating", e) \in {"policy_blocked", "awaiting_approval"}
  BY DEF FSM!Reduce, FSM!Target, FSM!Sources, FSM!LegalFrom
<1> QED BY <1>1, <1>2

LEMMA IngressSole ==
    ASSUME Inv, Sole, NEW w \in Worker, Ingress(w)
    PROVE  Sole'
<1> PICK k \in Key :
        \/ TakeCancel(w, k) \/ Refuse(w, k) \/ Accept(w, k)
        \/ \E e \in {"POLICY_BLOCKED", "POLICY_APPROVAL_REQUIRED"} : Judge(w, k, e)
  BY DEF Ingress
<1>1. CASE TakeCancel(w, k) BY <1>1, TakeCancelSole
<1>2. ~cancel => task.kind # "cancelled" BY DEF Sole, Final
<1>3. CASE Refuse(w, k) \/ \E e \in {"POLICY_BLOCKED", "POLICY_APPROVAL_REQUIRED"} : Judge(w, k, e)
  <2>1. /\ k # CancelKey /\ ~cancel /\ queue' = [queue EXCEPT ![k] = "done"]
        /\ UNCHANGED <<cancel, owner, live, beats, pc, job, stuck>>
    BY <1>3 DEF Refuse, Judge, leaseVars
  <2>2. task'.kind # "cancelled"
    <3>1. ASSUME NEW e \in {"POLICY_BLOCKED", "POLICY_APPROVAL_REQUIRED"}, Judge(w, k, e)
          PROVE  task'.kind # "cancelled"
      BY <3>1, JudgedKind DEF Judge, SaveRead, At
    <3>2. CASE Refuse(w, k) BY <1>2, <3>2 DEF Refuse, SaveRead, At
    <3> QED BY <1>3, <3>1, <3>2
  <2>3. queue'[CancelKey] = queue[CancelKey] BY <2>1, OtherKeys
  <2>4. Exclusive' BY <2>1 DEF Sole, Exclusive
  <2>5. Final' BY <2>1, <2>2, <2>3 DEF Sole, Final
  <2> QED BY <2>4, <2>5 DEF Sole
<1>4. CASE Accept(w, k)
  <2>1. /\ pc[w] = "idle" /\ k # CancelKey /\ ~cancel
        /\ ~Leased \/ owner = w
        /\ owner' = w /\ live' = TRUE /\ beats' = "fresh" /\ Goto(w, "preflight")
        /\ queue' = [queue EXCEPT ![k] = "taken"] /\ job' = [job EXCEPT ![w] = k]
        /\ UNCHANGED <<task, cancel, stuck>>
    BY <1>4 DEF Accept, taskVars
  <2>2. \A v \in Worker : pc[v] = "idle" BY <2>1, NobodyRuns DEF Sole, Exclusive
  <2>3. pc'[w] = "preflight" /\ \A v \in Worker : v # w => pc'[v] = "idle"
    BY <2>1, <2>2, GotoGoes
  <2>4. Exclusive' BY <2>1, <2>3 DEF Sole, Exclusive
  <2>5. queue'[CancelKey] = queue[CancelKey] BY <2>1, OtherKeys
  <2>6. \A v \in Worker : job'[v] # CancelKey BY <2>1 DEF Sole, Final, Inv, Rest
  <2>7. Final' BY <1>2, <2>1, <2>5, <2>6 DEF Sole, Final
  <2> QED BY <2>4, <2>7 DEF Sole
<1> QED BY <1>1, <1>3, <1>4

(* The detector, the scanner and time do not meddle with a run *)
LEMMA DetectSole ==
    ASSUME Inv, Sole, NEW w \in Worker, DetectStuck(w), remedy # "retry"
    PROVE  Sole'
<1>1. /\ task.life = "executing" /\ beats = "old" /\ owner' = Nobody /\ live' = FALSE
      /\ task' = Failed(task, task.retries)
      /\ UNCHANGED <<cancel, beats, queue, pc, job, stuck>>
  BY DEF DetectStuck, LooksStuck
<1>2. \A v \in Worker : pc[v] = "idle" BY <1>1 DEF Sole, Exclusive
<1>3. task'.kind = task.kind /\ task.kind # "cancelled"
  BY <1>1 DEF Failed, At, Sole, Final
<1>4. Exclusive' BY <1>1, <1>2, LifecycleAssumption DEF Sole, Exclusive
<1>5. Final' BY <1>1, <1>3 DEF Sole, Final
<1> QED BY <1>4, <1>5 DEF Sole

LEMMA ScanSole ==
    ASSUME Inv, Sole, Scan
    PROVE  Sole'
<1>1. UNCHANGED <<cancel, owner, live, beats, pc, job, stuck>>
  BY DEF Scan, Promote, Claim, Enqueue, ReadDue, SaveDue, ScanStep, leaseVars
<1>2. Exclusive' BY <1>1 DEF Sole, Exclusive
<1>3. queue'[CancelKey] = queue[CancelKey]
  <2>1. \/ UNCHANGED queue \/ queue' = [queue EXCEPT ![RetryKey(task.retries)] = "pending"]
        \/ \E w \in Worker : queue' = [queue EXCEPT ![RetryKey(scan[w][2])] = "pending"]
    BY DEF Scan, Promote, Claim, Enqueue, ReadDue, SaveDue, CandidateKey, ClaimedKey
  <2> QED BY <2>1, KeyNames, OtherKeys
<1>4. task \in Tasks /\ task.kind \in FSM!Kinds BY DEF Inv, Stored, Tasks
<1>5. task'.kind = "cancelled" => UNCHANGED task
  <2>1. ASSUME NEW t \in Tasks, AfterDue(t).kind = "cancelled" PROVE AfterDue(t) = t
    <3> DEFINE m == FSM!Reduce(t.kind, "RETRY_DUE")
    <3>1. m \in {t.kind, "queued"} BY DEF FSM!Reduce, FSM!Target
    <3>2. AfterDue(t) = IF m = t.kind THEN t
                        ELSE At(FSM!LifeOf(m), t.status, m, t.retries)
      BY DEF AfterDue
    <3> HIDE DEF m
    <3> QED BY <2>1, <3>1, <3>2 DEF At
  <2>2. \/ UNCHANGED task \/ task' = AfterDue(task)
        \/ \E w \in Worker : \E t \in read[w] : task' = Merged(task, t, AfterDue(t))
        \/ IsCandidate /\ task' = WithLife(task, "ready")
        \/ task.life = "ready" /\ task' = WithLife(task, "retry_scheduled")
    BY DEF Scan, Promote, Claim, Enqueue, ReadDue, SaveDue, SaveRead
  <2>3. task.kind = "cancelled" => task.life = "failed" BY DEF Sole, Final
  <2>4. ASSUME NEW w \in Worker, NEW t \in read[w], task' = Merged(task, t, AfterDue(t))
        PROVE  task'.kind # "cancelled"
    <3>1. t \in Tasks /\ t.kind = task.kind /\ AfterDue(t) # t
      BY DEF Inv, Stored, Readings, FreshKnowsKind
    <3>2. task'.kind = AfterDue(t).kind BY <1>4, <2>4, <3>1, AfterDueType, MergedType
    <3> QED BY <2>1, <3>1, <3>2
  <2> QED BY <1>4, <2>1, <2>2, <2>3, <2>4 DEF IsCandidate, WithLife, At
<1>6. Final' BY <1>1, <1>3, <1>5 DEF Sole, Final
<1> QED BY <1>2, <1>6 DEF Sole

LEMMA CrashSole ==
    ASSUME Inv, Sole, NEW w \in Worker, Crash(w)
    PROVE  Sole'
<1>1. /\ queue' = IF job[w] = NoJob THEN queue ELSE [queue EXCEPT ![job[w]] = "pending"]
      /\ owner' = IF owner = w THEN Gone ELSE owner
      /\ stuck' = [stuck EXCEPT ![w] = 0] /\ Goto(w, "idle") /\ job' = [job EXCEPT ![w] = NoJob]
      /\ UNCHANGED <<task, cancel, live, beats>>
  BY DEF Crash, Forget, taskVars
<1>2. pc'[w] = "idle" /\ \A v \in Worker : v # w => pc'[v] = pc[v] BY <1>1, GotoGoes
<1>3. \A v \in Worker : stuck'[v] = 0 BY <1>1 DEF Sole, Exclusive, Inv, Rest
<1>4. Exclusive' BY <1>1, <1>2, <1>3, LifecycleAssumption DEF Sole, Exclusive
<1>5. queue'[CancelKey] = queue[CancelKey] BY <1>1, OtherKeys DEF Sole, Final
<1>6. \A v \in Worker : job'[v] # CancelKey BY <1>1, KeyNames DEF Sole, Final, Inv, Rest
<1>7. Final' BY <1>1, <1>2, <1>5, <1>6 DEF Sole, Final
<1> QED BY <1>4, <1>7 DEF Sole

LEMMA QuietSole ==
    ASSUME Sole, UNCHANGED <<task, cancel, owner, queue, pc, job, stuck>>,
           live' => live, live' => UNCHANGED beats, \A w \in Worker : pc[w] # "idle" => live'
    PROVE  Sole'
<1>1. Exclusive' BY DEF Sole, Exclusive
<1>2. Final' BY DEF Sole, Final
<1> QED BY <1>1, <1>2 DEF Sole

LEMMA StepSole ==
    ASSUME Inv, Sole, Step, ~Mishap("slow"), remedy # "retry"
    PROVE  Sole'
<1>1. ASSUME NEW k \in Key, Request(k) PROVE Sole'
  <2>1. /\ k # CancelKey /\ queue' = [queue EXCEPT ![k] = "pending"]
        /\ UNCHANGED <<task, cancel, owner, live, beats, pc, job, stuck>>
    BY <1>1, KeyNames DEF Request, taskVars, leaseVars
  <2>2. queue'[CancelKey] = queue[CancelKey] BY <2>1, OtherKeys
  <2>3. Exclusive' BY <2>1 DEF Sole, Exclusive
  <2>4. Final' BY <2>1, <2>2 DEF Sole, Final
  <2> QED BY <2>3, <2>4 DEF Sole
<1>2. CASE RequestCancel
  <2>1. cancel' /\ UNCHANGED <<task, owner, live, beats, pc, job, stuck>>
    BY <1>2 DEF RequestCancel, leaseVars
  <2>2. Exclusive' BY <2>1 DEF Sole, Exclusive
  <2>3. Final' BY <2>1 DEF Sole, Final
  <2> QED BY <2>2, <2>3 DEF Sole
<1>3. ASSUME NEW w \in Worker, Ingress(w) PROVE Sole' BY <1>3, IngressSole
<1>4. ASSUME NEW w \in Worker, Run(w) PROVE Sole' BY <1>4, RunSole
<1>5. ASSUME NEW w \in Worker, Crash(w) PROVE Sole' BY <1>5, CrashSole
<1>6. ASSUME NEW w \in Worker, DetectStuck(w) PROVE Sole' BY <1>6, DetectSole
<1>7. ASSUME NEW w \in Worker, RetryStuck(w) PROVE Sole'
  BY <1>7 DEF RetryStuck, Sole, Exclusive
<1>8. CASE DueComes
  <2>1. UNCHANGED <<task, cancel, owner, live, beats, queue, pc, job, stuck>>
    BY <1>8 DEF DueComes, leaseVars
  <2> QED BY <2>1, QuietSole DEF Sole, Exclusive
<1>9. CASE LeaseRunsOut
  <2>1. owner = Gone /\ UNCHANGED <<task, cancel, owner, beats, queue, pc, job, stuck>> /\ live' = FALSE
    BY <1>9 DEF LeaseRunsOut, taskVars
  <2>2. \A w \in Worker : pc[w] = "idle" BY <2>1, LifecycleAssumption DEF Sole, Exclusive
  <2> QED BY <2>1, <2>2, QuietSole
<1>10. CASE HeartbeatAges
  <2>1. ~live /\ UNCHANGED <<task, cancel, owner, live, queue, pc, job, stuck>>
    BY <1>10 DEF HeartbeatAges, taskVars
  <2> QED BY <2>1, QuietSole DEF Sole, Exclusive
<1>11. CASE Scan BY <1>11, ScanSole
<1> QED BY <1>1, <1>2, <1>3, <1>4, <1>5, <1>6, <1>7, <1>8, <1>9, <1>10, <1>11 DEF Step

-----------------------------------------------------------------------------
(* The second layer: without intruders as well, the run and the task count *)
(* the same retries, and a retry that is scheduled, or may be scheduled    *)
(* again, is within the budget.  A scanner that was overtaken by a run may *)
(* undo its claim under it, past the version.                              *)

Scheduled(t) == t.kind = "retry_scheduled" \/ t.life = "retry_scheduled"
Pending(t) == Scheduled(t) \/ t.life = "ready"
Early(k) == k \in {"queued", "policy_evaluating"}

(* d as it is stored, but for a claim that was undone                      *)
Near(d, t) == t = d \/ (d.life = "ready" /\ t = WithLife(d, "retry_scheduled"))

Holds(w) ==
    /\ fresh[w] => Near(doc[w], task) /\ pc[w] \notin {"idle", "preflight"}
    /\ pc[w] \in Active =>
          /\ tries[w] = task.retries /\ doc[w].retries = task.retries
          /\ fresh[w] \/ task.kind # "retry_scheduled"
    /\ fresh[w] /\ pc[w] \in Active \ {"start"} => ~Early(doc[w].kind)

Counted ==
    /\ \A w \in Worker : Holds(w)
    /\ Pending(task) => Budgeted(task.retries)

(* What a write may make of the task t: a retry that was not scheduled is  *)
(* scheduled with the next count only, if that is within the budget        *)
Moves(t, new) ==
    \/ /\ new.retries = t.retries
       /\ Scheduled(new) => Scheduled(t)
       /\ Pending(new) => Pending(t)
    \/ /\ new.retries = More(t.retries)
       /\ Pending(new) => Budgeted(new.retries)

(* The run of w has gone on, and holds the task as it is stored            *)
Advances(w) ==
    /\ Moves(task, task')
    /\ \A v \in Worker : fresh'[v] => v = w
    /\ fresh'[w] => Near(doc'[w], task')
    /\ pc'[w] \in Active =>
          /\ tries'[w] = task'.retries /\ doc'[w].retries = task'.retries
          /\ fresh'[w] \/ task'.kind # "retry_scheduled"
    /\ fresh'[w] /\ pc'[w] \in Active => ~Early(doc'[w].kind)
    /\ pc'[w] \in PCs \ {"idle", "preflight"}
    /\ \A v \in Worker : v # w => pc'[v] = pc[v]

(* The events of a run: none of them takes it back to the queue            *)
RunEvents == FSM!Events \ {"POLICY_EVALUATE", "RETRY_DUE", "CANCEL_FINALIZED"}

LEMMA EventNames ==
    {"PLAN_READY", "ITERATION_START", "ERROR_FATAL", "GOAL_ACHIEVED", "CLARIFICATION_REQUIRED",
     "CLARIFICATION_RESOLVED", "APPROVAL_GRANTED", "LEASE_ACQUIRED",
     "TOOL_STARTED", "TOOL_OBSERVED", "TOOL_VERIFIED", "STEP_COMPLETED"}
        \subseteq RunEvents \ {"ERROR_RETRYABLE"}
BY DEF RunEvents, FSM!Events

LEMMA ReduceOnwards ==
    ASSUME NEW k \in FSM!Kinds, NEW e \in RunEvents
    PROVE  /\ FSM!Reduce(k, e) \in FSM!Kinds
           /\ Early(FSM!Reduce(k, e)) => Early(k)
           /\ e # "ERROR_RETRYABLE" /\ FSM!Reduce(k, e) = "retry_scheduled" => k = "retry_scheduled"
<1>1. FSM!Reduce(k, e) \in {k, FSM!Target(e)} BY DEF FSM!Reduce
<1>2. ~Early(FSM!Target(e)) BY DEF FSM!Target, FSM!Events, RunEvents, Early
<1>3. FSM!Target(e) = "retry_scheduled" => e = "ERROR_RETRYABLE"
  BY DEF FSM!Target, FSM!Events, RunEvents
<1> QED BY <1>1, <1>2, <1>3, ReduceType

(* The projected lifecycle is due again only in the states that are *)
LEMMA LifeNames ==
    ASSUME NEW k \in FSM!Kinds
    PROVE  /\ FSM!LifeOf(k) = "retry_scheduled" => k = "retry_scheduled"
           /\ FSM!LifeOf(k) = "ready" => Early(k)
BY DEF FSM!LifeOf, FSM!Kinds, Early

(* One event on a task, as far as retries are concerned *)
LEMMA OnCounts ==
    ASSUME NEW t \in Tasks, NEW e
    PROVE  /\ On(t, e) \in Tasks
           /\ On(t, e).kind = FSM!Reduce(t.kind, e)
           /\ On(t, e).retries = t.retries
           /\ Scheduled(On(t, e)) => On(t, e).kind = "retry_scheduled"
           /\ On(t, e).life = "ready" => Early(On(t, e).kind)
<1> DEFINE k == FSM!Reduce(t.kind, e)
<1>1. k \in FSM!Kinds BY ReduceType DEF Tasks
<1>2. On(t, e) = At(FSM!LifeOf(k), FSM!StatusOf(k), k, t.retries) BY DEF On
<1> HIDE DEF k
<1>3. On(t, e).life = FSM!LifeOf(k) /\ On(t, e).kind = k /\ On(t, e).retries = t.retries
  BY <1>2 DEF At
<1> QED BY <1>1, <1>3, LifeNames, OnType DEF Scheduled

LEMMA OnRuns ==
    ASSUME NEW t \in Tasks, ~Early(t.kind), NEW e \in RunEvents
    PROVE  /\ On(t, e) \in Tasks /\ On(t, e).retries = t.retries
           /\ ~Early(On(t, e).kind) /\ On(t, e).life # "ready"
           /\ e # "ERROR_RETRYABLE" /\ Scheduled(On(t, e)) => t.kind = "retry_scheduled"
<1>1. t.kind \in FSM!Kinds BY DEF Tasks
<1>2. ~Early(FSM!Reduce(t.kind, e)) BY <1>1, ReduceOnwards
<1> QED BY <1>1, <1>2, OnCounts, ReduceOnwards

(* One event, and perhaps another status *)
LEMMA EventMoves ==
    ASSUME NEW t \in Tasks, ~Early(t.kind), NEW e \in RunEvents \ {"ERROR_RETRYABLE"},
           NEW s \in Statuses
    PROVE  /\ On(t, e) \in Tasks /\ On(t, e).retries = t.retries
           /\ ~Early(On(t, e).kind) /\ Moves(t, On(t, e))
           /\ WithTries(On(t, e), s, t.retries) \in Tasks
           /\ WithTries(On(t, e), s, t.retries).retries = t.retries
           /\ ~Early(WithTries(On(t, e), s, t.retries).kind)
           /\ Moves(t, WithTries(On(t, e), s, t.retries))
<1> DEFINE u == On(t, e)
<1>1. u \in Tasks /\ u.retries = t.retries /\ ~Early(u.kind) /\ u.life # "ready"
      /\ (Scheduled(u) => t.kind = "retry_scheduled")
  BY OnRuns
<1> HIDE DEF u
<1>2. Moves(t, u) BY <1>1 DEF Moves, Scheduled, Pending
<1>3. /\ WithTries(u, s, t.retries) \in Tasks /\ WithTries(u, s, t.retries).retries = t.retries
      /\ WithTries(u, s, t.retries).kind = u.kind /\ WithTries(u, s, t.retries).life = u.life
  BY <1>1 DEF WithTries, At, Tasks
<1>4. Moves(t, WithTries(u, s, t.retries)) BY <1>1, <1>3 DEF Moves, Scheduled, Pending
<1> QED BY <1>1, <1>2, <1>3, <1>4 DEF u

(* An error that is not retried ends a retry *)
LEMMA FatalEnds ==
    ASSUME NEW t \in Tasks, ~Early(t.kind)
    PROVE  /\ On(t, "ERROR_FATAL") \in Tasks /\ ~Pending(On(t, "ERROR_FATAL"))
           /\ On(t, "ERROR_FATAL").kind # "retry_scheduled"
<1>1. FSM!Reduce(t.kind, "ERROR_FATAL") # "retry_scheduled"
  BY DEF Tasks, FSM!Reduce, FSM!Target, FSM!Sources, FSM!LegalFrom, FSM!Kinds
<1> QED BY <1>1, OnCounts, OnRuns, EventNames DEF Pending

(* What begins a run takes the task out of the queue *)
LEMMA StartedMoves ==
    ASSUME NEW t \in Tasks
    PROVE  /\ Started(t) \in Tasks /\ Started(t).retries = t.retries
           /\ ~Early(Started(t).kind) /\ Moves(t, Started(t))
<1> DEFINE k == FSM!Baseline(t.kind)
           q == WithKind(t, k)
           p == On(q, "POLICY_EVALUATE")
           r == On(p, "LEASE_ACQUIRED")
<1>1. k \in FSM!Kinds /\ (k = t.kind \/ k = "queued") BY BaselineType DEF Tasks, FSM!Baseline
<1>2. q \in Tasks /\ q.kind = k /\ q.retries = t.retries
  <2> HIDE DEF k
  <2> QED BY <1>1 DEF WithKind, At, Tasks
<1>3. Started(t) = IF k = "paused" THEN On(t, "CLARIFICATION_RESOLVED")
                   ELSE IF k = "awaiting_approval" THEN On(t, "APPROVAL_GRANTED")
                   ELSE IF k = "queued" THEN r
                   ELSE IF k = "policy_evaluating" THEN On(t, "LEASE_ACQUIRED") ELSE t
  <2> HIDE DEF FSM!Baseline
  <2> QED BY DEF Started
<1>4. /\ FSM!Reduce("queued", "POLICY_EVALUATE") = "policy_evaluating"
      /\ FSM!Reduce("policy_evaluating", "LEASE_ACQUIRED") = "planning"
  BY DEF FSM!Reduce, FSM!Target, FSM!Sources, FSM!LegalFrom
<1>5. Started(t) \in Tasks BY StartedType
<1>6. ASSUME NEW u \in Tasks, u.retries = t.retries, u.kind = "planning",
             Scheduled(u) => u.kind = "retry_scheduled", u.life = "ready" => Early(u.kind)
      PROVE  u.retries = t.retries /\ ~Early(u.kind) /\ Moves(t, u)
  BY <1>6 DEF Moves, Scheduled, Pending, Early
<1> HIDE DEF k, q
<1>7. CASE k = "queued"
  <2>1. p \in Tasks /\ p.retries = t.retries /\ p.kind = "policy_evaluating"
    BY <1>2, <1>4, <1>7, OnCounts
  <2> HIDE DEF p
  <2>2. r \in Tasks /\ r.retries = t.retries /\ r.kind = "planning"
        /\ (Scheduled(r) => r.kind = "retry_scheduled") /\ (r.life = "ready" => Early(r.kind))
    BY <1>4, <2>1, OnCounts
  <2>3. Started(t) = r BY <1>3, <1>7
  <2> QED BY <1>5, <1>6, <2>2, <2>3
<1>8. CASE k = "policy_evaluating"
  <2>1. t.kind = "policy_evaluating" BY <1>1, <1>8
  <2>2. Started(t) = On(t, "LEASE_ACQUIRED") BY <1>3, <1>8
  <2> QED BY <1>4, <1>5, <1>6, <2>1, <2>2, OnCounts
<1>9. CASE k \in {"paused", "awaiting_approval"}
  <2>1. ~Early(t.kind) /\ "partial" \in Statuses BY <1>1, <1>9 DEF Early, Statuses
  <2>2. \E e \in RunEvents \ {"ERROR_RETRYABLE"} : Started(t) = On(t, e)
    BY <1>3, <1>9, EventNames
  <2> QED BY <1>5, <2>1, <2>2, EventMoves
<1>10. CASE k \notin {"queued", "policy_evaluating", "paused", "awaiting_approval"}
  BY <1>1, <1>3, <1>5, <1>10 DEF Moves, Early
<1> QED BY <1>7, <1>8, <1>9, <1>10

-----------------------------------------------------------------------------
(* The steps of a run that is alone *)

(* The run of w has saved new; an undone claim outlives a save that does   *)
(* not change the lifecycle                                                *)
Saved(w, new) ==
    /\ fresh[w] /\ doc'[w] = new /\ fresh' = [v \in Worker |-> v = w]
    /\ \/ task' = new
       \/ /\ doc[w].life = "ready" /\ task.life = "retry_scheduled" /\ new.life = "ready"
          /\ task' = WithLife(new, "retry_scheduled")

LEMMA SaveTwiceSaves ==
    ASSUME Inv, NEW w \in Worker, Holds(w), NEW mid \in Tasks, NEW new \in Tasks,
           SaveTwice(w, mid, new)
    PROVE  Saved(w, new)
<1>1. fresh[w] /\ doc[w] \in Tasks /\ task \in Tasks /\ Near(doc[w], task)
  BY DEF SaveTwice, CanSave, Holds, Inv, Stored
<1>2. doc'[w] = new /\ fresh' = [v \in Worker |-> v = w]
  BY DEF SaveTwice, Outdate, Inv, Stored
<1>3. task' = Merged(Merged(task, doc[w], mid), mid, new) BY DEF SaveTwice
<1>4. CASE task = doc[w]
  <2>1. Merged(task, doc[w], mid) = mid BY <1>1, <1>4 DEF Merged, Tasks
  <2>2. Merged(mid, mid, new) = new BY DEF Merged, Tasks
  <2> QED BY <1>1, <1>2, <1>3, <2>1, <2>2 DEF Saved
<1>5. CASE doc[w].life = "ready" /\ task = WithLife(doc[w], "retry_scheduled")
  <2> DEFINE m == Merged(task, doc[w], mid)
  <2>1. task.life = "retry_scheduled" /\ task.status = doc[w].status
        /\ task.kind = doc[w].kind /\ task.retries = doc[w].retries
    BY <1>5 DEF WithLife, At
  <2>2. m = [life    |-> IF mid.life = "ready" THEN "retry_scheduled" ELSE mid.life,
             status  |-> mid.status, kind |-> mid.kind, retries |-> mid.retries]
    BY <1>5, <2>1 DEF Merged
  <2> HIDE DEF m
  <2>3. Merged(m, mid, new) =
           [life    |-> IF new.life # mid.life THEN new.life ELSE m.life,
            status  |-> new.status, kind |-> new.kind, retries |-> new.retries]
    BY <2>2 DEF Merged
  <2>4. new = [life |-> new.life, status |-> new.status, kind |-> new.kind,
               retries |-> new.retries]
    BY DEF Tasks
  <2>5. m.life = IF mid.life = "ready" THEN "retry_scheduled" ELSE mid.life BY <2>2
  <2>6. CASE mid.life = "ready" /\ new.life = "ready"
    <3>1. Merged(m, mid, new) = WithLife(new, "retry_scheduled")
      BY <2>3, <2>5, <2>6 DEF WithLife, At
    <3> QED BY <1>1, <1>2, <1>3, <1>5, <2>1, <2>6, <3>1 DEF Saved, m
  <2>7. CASE ~(mid.life = "ready" /\ new.life = "ready")
    <3>1. Merged(m, mid, new) = new BY <2>3, <2>4, <2>5, <2>7
    <3> QED BY <1>1, <1>2, <1>3, <3>1 DEF Saved, m
  <2> QED BY <2>6, <2>7
<1> QED BY <1>1, <1>4, <1>5 DEF Near

LEMMA SaveSaves ==
    ASSUME Inv, NEW w \in Worker, Holds(w), NEW new \in Tasks, Save(w, new)
    PROVE  Saved(w, new)
BY SaveTwiceSaves DEF Save

LEMMA SaveAllSaves ==
    ASSUME Inv, NEW w \in Worker, NEW new, SaveAll(w, new)
    PROVE  Saved(w, new)
BY DEF SaveAll, Outdate, CanSave, Saved, Inv, Stored

(* What is true of the copy in memory is true of what is stored            *)
LEMMA SavedMoves ==
    ASSUME NEW w \in Worker, Holds(w), NEW new, Saved(w, new), Moves(doc[w], new)
    PROVE  Moves(task, task') /\ Near(new, task') /\ task'.retries = new.retries
<1>1. Near(doc[w], task) BY DEF Saved, Holds
<1>2. task.retries = doc[w].retries /\ task.kind = doc[w].kind
      /\ (task = doc[w] \/ task.life = "retry_scheduled")
  BY <1>1 DEF Near, WithLife, At
<1>3. CASE task' = new
  BY <1>2, <1>3 DEF Near, Moves, Scheduled, Pending
<1>4. CASE task.life = "retry_scheduled" /\ new.life = "ready"
           /\ task' = WithLife(new, "retry_scheduled")
  BY <1>2, <1>4 DEF Near, Moves, Scheduled, Pending, WithLife, At
<1> QED BY <1>3, <1>4 DEF Saved

LEMMA SavedAdvances ==
    ASSUME Inv, NEW w \in Worker, Holds(w), NEW l \in PCs \ {"idle", "preflight"}, NEW new,
           Saved(w, new), Goto(w, l), Moves(doc[w], new),
           l \in Active => tries'[w] = new.retries /\ ~Early(new.kind)
    PROVE  Advances(w)
<1>1. pc'[w] = l /\ \A v \in Worker : v # w => pc'[v] = pc[v] BY GotoGoes
<1>2. fresh'[w] /\ \A v \in Worker : fresh'[v] => v = w BY DEF Saved
<1>3. doc'[w] = new BY DEF Saved
<1>4. Moves(task, task') /\ Near(new, task') /\ task'.retries = new.retries BY SavedMoves
<1> QED BY <1>1, <1>2, <1>3, <1>4 DEF Advances

(* What an active run that is alone knows *)
LEMMA RunKnows ==
    ASSUME Inv, Sole, Counted, NEW w \in Worker, pc[w] \in Active
    PROVE  /\ Holds(w)
           /\ task \in Tasks /\ doc[w] \in Tasks /\ task.retries \in Retries
           /\ tries[w] = task.retries /\ doc[w].retries = task.retries
           /\ More(task.retries) \in Retries
           /\ \A v \in Worker : fresh[v] => v = w
<1>1. task \in Tasks /\ doc[w] \in Tasks BY DEF Inv, Stored
<1>2. Holds(w) BY DEF Counted
<1>3. \A v \in Worker : v # w => pc[v] = "idle" BY PlaceNames DEF Sole, Exclusive
<1>4. \A v \in Worker : fresh[v] => v = w BY <1>3 DEF Counted, Holds
<1> QED BY <1>1, <1>2, <1>4, MoreType DEF Holds, Tasks

(* A run that could not save, and has stored nothing *)
LEMMA StaysAdvances ==
    ASSUME Inv, Sole, Counted, NEW w \in Worker, pc[w] \in Active, ~CanSave(w),
           NEW l \in PCs \ {"idle", "preflight"}, Goto(w, l),
           UNCHANGED <<task, doc, copies>>, l \in Active => UNCHANGED tries
    PROVE  Advances(w)
<1>1. pc'[w] = l /\ \A v \in Worker : v # w => pc'[v] = pc[v] BY GotoGoes
<1>2. Holds(w) /\ \A v \in Worker : fresh[v] => v = w BY RunKnows
<1>3. Moves(task, task') BY DEF Moves
<1> QED BY <1>1, <1>2, <1>3 DEF CanSave, Holds, Advances

LEMMA StaleAdvances ==
    ASSUME Inv, Sole, Counted, NEW w \in Worker, pc[w] \in Active, Stale(w)
    PROVE  Advances(w)
BY StaysAdvances, PlaceNames DEF Stale

LEMMA PersistAdvances ==
    ASSUME Inv, Sole, Counted, NEW w \in Worker, pc[w] \in Active \ {"start"},
           NEW e \in RunEvents \ {"ERROR_RETRYABLE"}, Persist(w, e),
           NEW l \in Active, Goto(w, l), UNCHANGED tries
    PROVE  Advances(w)
<1>1. l \in PCs \ {"idle", "preflight"} BY PlaceNames
<1>2. CASE Save(w, On(doc[w], e))
  <2>1. fresh[w] /\ Holds(w) /\ doc[w] \in Tasks /\ tries[w] = doc[w].retries
    BY <1>2, RunKnows DEF Save, SaveTwice, CanSave
  <2>2. ~Early(doc[w].kind) BY <2>1 DEF Holds
  <2>3. /\ On(doc[w], e) \in Tasks /\ Moves(doc[w], On(doc[w], e))
        /\ On(doc[w], e).retries = doc[w].retries /\ ~Early(On(doc[w], e).kind)
    BY <2>1, <2>2, EventMoves, StatusNames
  <2>4. Saved(w, On(doc[w], e)) BY <1>2, <2>1, <2>3, SaveSaves
  <2> QED BY <1>1, <2>1, <2>3, <2>4, SavedAdvances
<1>3. CASE ~CanSave(w) /\ UNCHANGED <<task, doc, copies>> BY <1>1, <1>3, StaysAdvances
<1> QED BY <1>2, <1>3 DEF Persist

(* An event that is stored, and then a status *)
LEMMA EventAdvances ==
    ASSUME Inv, Sole, Counted, NEW w \in Worker, pc[w] \in Active \ {"start"},
           NEW e \in RunEvents \ {"ERROR_RETRYABLE"}, NEW s \in Statuses,
           SaveTwice(w, On(doc[w], e), WithTries(On(doc[w], e), s, tries[w])),
           NEW l \in PCs \ {"idle", "preflight"}, Goto(w, l), UNCHANGED tries
    PROVE  Advances(w)
<1> DEFINE new == WithTries(On(doc[w], e), s, doc[w].retries)
<1>1. fresh[w] /\ Holds(w) /\ doc[w] \in Tasks /\ tries[w] = doc[w].retries
  BY RunKnows DEF SaveTwice, CanSave
<1>2. ~Early(doc[w].kind) BY <1>1 DEF Holds
<1>3. /\ On(doc[w], e) \in Tasks /\ new \in Tasks /\ Moves(doc[w], new)
      /\ new.retries = doc[w].retries /\ ~Early(new.kind)
  BY <1>1, <1>2, EventMoves
<1>4. SaveTwice(w, On(doc[w], e), new) BY <1>1
<1> HIDE DEF new
<1>5. Saved(w, new) BY <1>1, <1>3, <1>4, SaveTwiceSaves
<1> QED BY <1>1, <1>3, <1>5, SavedAdvances

LEMMA EndsFailedAdvances ==
    ASSUME Inv, Sole, Counted, NEW w \in Worker, pc[w] \in Active \ {"start"}, EndsFailed(w)
    PROVE  Advances(w)
BY EventAdvances, EventNames, StatusNames, PlaceNames DEF EndsFailed

LEMMA IterationFailsAdvances ==
    ASSUME Inv, Sole, Counted, NEW w \in Worker, pc[w] \in Active \ {"start"},
           NEW next \in {"top", "over"}, IterationFails(w, next)
    PROVE  Advances(w)
<1> DEFINE n == More(doc[w].retries)
           again == On(doc[w], "ERROR_RETRYABLE")
           fatal == On(doc[w], "ERROR_FATAL")
<1>1. /\ fresh[w] /\ Holds(w) /\ doc[w] \in Tasks /\ n \in Retries
      /\ tries[w] = doc[w].retries
  BY RunKnows DEF IterationFails, SaveTwice, SaveAll, CanSave
<1>2. ~Early(doc[w].kind) BY <1>1 DEF Holds
<1>3. "ERROR_RETRYABLE" \in RunEvents BY DEF RunEvents, FSM!Events
<1>4. again \in Tasks /\ ~Early(again.kind) BY <1>1, <1>2, <1>3, OnRuns
<1>5. fatal \in Tasks /\ fatal.kind # "retry_scheduled" BY <1>1, <1>2, FatalEnds
<1>6. CASE Budgeted(n)
  <2> DEFINE new == WithTries(again, "executing", n)
  <2>1. SaveTwice(w, again, new) /\ Goto(w, next) /\ tries' = [tries EXCEPT ![w] = n]
    BY <1>1, <1>6 DEF IterationFails, AfterError
  <2> HIDE DEF n, again
  <2>2. new \in Tasks /\ new.retries = n /\ ~Early(new.kind)
    BY <1>1, <1>4, WithTriesType, StatusNames DEF WithTries, At
  <2>3. Moves(doc[w], new) BY <1>6, <2>2 DEF Moves, n
  <2>4. tries'[w] = n BY <2>1 DEF Inv, Rest
  <2> HIDE DEF new
  <2>5. Saved(w, new) BY <1>1, <1>4, <2>1, <2>2, SaveTwiceSaves
  <2> QED BY <1>1, <2>1, <2>2, <2>3, <2>4, <2>5, SavedAdvances DEF PCs
<1>7. CASE ~Budgeted(n)
  <2> DEFINE new == Failed(fatal, n)
  <2>1. SaveAll(w, new) /\ Goto(w, "returned") BY <1>1, <1>7 DEF IterationFails, AfterError
  <2> HIDE DEF n, fatal
  <2>2. new.retries = n /\ ~Pending(new) BY <1>5 DEF Failed, At, Scheduled, Pending
  <2>3. Moves(doc[w], new) BY <2>2 DEF Moves, n
  <2> HIDE DEF new
  <2>4. Saved(w, new) BY <2>1, SaveAllSaves
  <2> QED BY <1>1, <2>1, <2>3, <2>4, PlaceNames, SavedAdvances
<1> QED BY <1>6, <1>7

LEMMA ModelFailsAdvances ==
    ASSUME Inv, Sole, Counted, NEW w \in Worker, ModelFails(w)
    PROVE  Advances(w)
<1>1. pc[w] = "decide" /\ pc[w] \in Active /\ UNCHANGED tries BY DEF ModelFails, Active
<1>2. /\ task \in Tasks /\ doc[w] \in Tasks /\ doc[w].retries = task.retries /\ Holds(w)
      /\ \A v \in Worker : fresh[v] => v = w
  BY <1>1, RunKnows
<1> DEFINE n == More(task.retries)
<1> PICK retryable \in BOOLEAN :
        LET again == retryable /\ Budgeted(n)
            Written(t) == IF again THEN Rescheduled(t, n) ELSE Failed(t, n)
            new == On(Written(doc[w]), IF again THEN "ERROR_RETRYABLE" ELSE "ERROR_FATAL")
        IN  \/ SaveAll(w, new) /\ Goto(w, "returned")
            \/ /\ ~CanSave(w) /\ task' = Written(task)
               /\ UNCHANGED <<doc, copies>> /\ Goto(w, "threw")
  BY <1>2 DEF ModelFails
<1> DEFINE again == retryable /\ Budgeted(n)
           Written(t) == IF again THEN Rescheduled(t, n) ELSE Failed(t, n)
           e == IF again THEN "ERROR_RETRYABLE" ELSE "ERROR_FATAL"
           new == On(Written(doc[w]), e)
<1>3. n \in Retries BY <1>1, RunKnows
<1>4. \A t \in Tasks : /\ Written(t) \in Tasks /\ Written(t).kind = t.kind
                       /\ Written(t).retries = n
                       /\ Written(t).life = "retry_scheduled" => Budgeted(n)
                       /\ Written(t).life # "ready"
  <2> HIDE DEF n
  <2> QED BY <1>3, ReschedulingType DEF Rescheduled, Failed, At
<1>5. \/ SaveAll(w, new) /\ Goto(w, "returned")
      \/ ~CanSave(w) /\ task' = Written(task) /\ UNCHANGED <<doc, copies>> /\ Goto(w, "threw")
  OBVIOUS
<1>6. CASE SaveAll(w, new) /\ Goto(w, "returned")
  <2>1. ~Early(doc[w].kind) BY <1>1, <1>2, <1>6 DEF SaveAll, CanSave, Holds
  <2>2. Written(doc[w]) \in Tasks /\ ~Early(Written(doc[w]).kind) /\ Written(doc[w]).retries = n
    BY <1>2, <1>4, <2>1
  <2>3. Pending(new) => Budgeted(n)
    <3>1. again => Budgeted(n) OBVIOUS
    <3>2. ~again => e = "ERROR_FATAL" OBVIOUS
    <3> HIDE DEF again, Written, n, e
    <3> QED BY <2>2, <3>1, <3>2, FatalEnds DEF new
  <2>4. new.retries = n
    <3> HIDE DEF Written, n, e
    <3> QED BY <2>2, OnCounts
  <2>5. Moves(doc[w], new) BY <1>2, <2>3, <2>4 DEF Moves
  <2> HIDE DEF new
  <2>6. Saved(w, new) BY <1>6, SaveAllSaves
  <2> QED BY <1>2, <1>6, <2>5, <2>6, PlaceNames, SavedAdvances
<1>7. CASE ~CanSave(w) /\ task' = Written(task) /\ UNCHANGED <<doc, copies>> /\ Goto(w, "threw")
  <2>1. task'.retries = n /\ task'.kind = task.kind BY <1>2, <1>4, <1>7
  <2>2. task.kind # "retry_scheduled" BY <1>1, <1>2, <1>7 DEF Holds, CanSave
  <2>3. Pending(task') => Budgeted(n)
    <3> HIDE DEF Written, n
    <3> QED BY <1>2, <1>4, <1>7, <2>1, <2>2 DEF Pending, Scheduled
  <2>4. Moves(task, task') BY <1>2, <2>1, <2>3 DEF Moves
  <2>5. pc'[w] = "threw" /\ \A v \in Worker : v # w => pc'[v] = pc[v] BY <1>7, GotoGoes
  <2> QED BY <1>2, <1>7, <2>4, <2>5, PlaceNames DEF Advances, CanSave
<1> QED BY <1>5, <1>6, <1>7

(* A step of a run that has begun finalizes a cancellation, or advances *)
LEMMA RunAdvances ==
    ASSUME Inv, Sole, Counted, NEW w \in Worker, Run(w), pc[w] \in Active
    PROVE  Finalize(w) \/ Advances(w)
<1> USE PlaceNames
<1>1. /\ Holds(w) /\ task \in Tasks /\ doc[w] \in Tasks /\ task.retries \in Retries
      /\ tries[w] = task.retries /\ doc[w].retries = task.retries
      /\ More(task.retries) \in Retries
  BY RunKnows
<1>2. fresh[w] /\ pc[w] # "start" => ~Early(doc[w].kind) BY <1>1 DEF Holds
<1>3. \A mid, new : SaveTwice(w, mid, new) => fresh[w] BY DEF SaveTwice, CanSave
<1>4. CASE Start(w)
  <2>1. Goto(w, "begin") /\ UNCHANGED tries /\ "begin" \in Active BY <1>4 DEF Start, Active
  <2>2. CASE Save(w, Started(doc[w]))
    <3>1. /\ Started(doc[w]) \in Tasks /\ Moves(doc[w], Started(doc[w]))
          /\ Started(doc[w]).retries = doc[w].retries /\ ~Early(Started(doc[w]).kind)
      BY <1>1, StartedMoves
    <3>2. Saved(w, Started(doc[w])) BY <1>1, <2>2, <3>1, SaveSaves
    <3> QED BY <1>1, <2>1, <3>1, <3>2, SavedAdvances
  <2>3. CASE ~CanSave(w) /\ UNCHANGED <<task, doc, copies>> BY <2>1, <2>3, StaysAdvances
  <2>4. CASE Started(doc[w]) = doc[w] /\ UNCHANGED <<task, doc, copies>>
    <3>1. ~Early(doc[w].kind) BY <1>1, <2>4, StartedMoves
    <3>2. pc'[w] = "begin" /\ \A v \in Worker : v # w => pc'[v] = pc[v] BY <2>1, GotoGoes
    <3>3. Moves(task, task') BY <2>4 DEF Moves
    <3>4. \A v \in Worker : fresh[v] => v = w BY RunKnows
    <3> QED BY <1>1, <2>1, <2>4, <3>1, <3>2, <3>3, <3>4 DEF Advances, Holds
  <2> QED BY <1>4, <2>2, <2>3, <2>4 DEF Start
<1>5. CASE Begin(w)
  <2>1. UNCHANGED tries /\ "top" \in Active /\ pc[w] # "start" BY <1>5 DEF Begin, Active
  <2> DEFINE mid == Executing(w)
             new == On(mid, "PLAN_READY")
  <2>2. CASE SaveTwice(w, mid, new) /\ Goto(w, "top")
    <3>1. /\ mid \in Tasks /\ mid.retries = doc[w].retries /\ mid.kind = doc[w].kind
          /\ mid.life = doc[w].life
      BY <1>1, WithTriesType, StatusNames DEF Executing, WithTries, At
    <3>2. ~Early(mid.kind) BY <1>2, <1>3, <2>1, <2>2, <3>1
    <3> HIDE DEF mid
    <3>3. new \in Tasks /\ new.retries = mid.retries /\ ~Early(new.kind) /\ Moves(mid, new)
      BY <3>1, <3>2, EventMoves, EventNames, StatusNames
    <3> HIDE DEF new
    <3>4. Moves(doc[w], new) BY <3>1, <3>3 DEF Moves, Scheduled, Pending
    <3>5. Saved(w, new) BY <1>1, <2>2, <3>1, <3>3, SaveTwiceSaves
    <3> QED BY <1>1, <2>1, <2>2, <3>1, <3>3, <3>4, <3>5, SavedAdvances
  <2>3. CASE ~CanSave(w) /\ UNCHANGED <<task, doc, copies>> /\ Goto(w, "top")
    BY <2>1, <2>3, StaysAdvances
  <2> QED BY <1>5, <2>2, <2>3, StaleAdvances DEF Begin
<1>6. CASE Iterate(w)
  <2>1. "decide" \in Active /\ pc[w] # "start" BY <1>6 DEF Iterate, Active
  <2> QED BY <1>6, <2>1, PersistAdvances, EventNames DEF Iterate
<1>7. CASE Exhaust(w) BY <1>7, EndsFailedAdvances, StaleAdvances DEF Exhaust
<1>8. CASE Abort(w) BY <1>8, EndsFailedAdvances, StaleAdvances DEF Abort
<1>9. CASE Achieve(w)
  <2>1. "goal" \in Active /\ pc[w] # "start" BY <1>9 DEF Achieve, Active
  <2> QED BY <1>9, <2>1, PersistAdvances, EventNames DEF Achieve
<1>10. CASE Complete(w)
  <2> DEFINE new == WithTries(doc[w], "completed", doc[w].retries)
  <2>1. CASE Save(w, new) /\ Goto(w, "returned")
    <3>1. new \in Tasks /\ Moves(doc[w], new)
      BY <1>1, WithTriesType, StatusNames DEF WithTries, At, Moves, Scheduled, Pending
    <3> HIDE DEF new
    <3>2. Saved(w, new) BY <1>1, <2>1, <3>1, SaveSaves
    <3> QED BY <1>1, <2>1, <3>1, <3>2, SavedAdvances
  <2>2. pc[w] # "start" BY <1>10 DEF Complete
  <2> QED BY <1>10, <2>1, <2>2, StaleAdvances, IterationFailsAdvances DEF Complete
<1>11. CASE Clarify(w)
  <2> DEFINE asked == On(doc[w], "CLARIFICATION_REQUIRED")
             new == At("paused", "waiting_for_input", asked.kind, asked.retries)
  <2>1. CASE SaveTwice(w, asked, new) /\ Goto(w, "returned")
    <3>1. ~Early(doc[w].kind) BY <1>2, <1>3, <1>11, <2>1 DEF Clarify
    <3>2. /\ asked \in Tasks /\ asked.retries = doc[w].retries /\ Moves(doc[w], asked)
          /\ (Scheduled(asked) => doc[w].kind = "retry_scheduled")
      BY <1>1, <3>1, EventMoves, OnRuns, EventNames, StatusNames
    <3> HIDE DEF asked
    <3>3. new \in Tasks /\ new.kind = asked.kind /\ new.retries = asked.retries
          /\ new.life = "paused"
      BY <3>2 DEF At, Tasks, Lives, Statuses
    <3> HIDE DEF new
    <3>4. Moves(doc[w], new) BY <3>2, <3>3 DEF Moves, Scheduled, Pending
    <3>5. Saved(w, new) BY <1>1, <2>1, <3>2, <3>3, SaveTwiceSaves
    <3> QED BY <1>1, <2>1, <3>4, <3>5, SavedAdvances
  <2> QED BY <1>11, <2>1, StaleAdvances DEF Clarify
<1>12. CASE ModelFails(w) BY <1>12, ModelFailsAdvances
<1>13. CASE StartTool(w)
  <2>1. pc[w] # "start" /\ "tool" \in Active BY <1>13 DEF StartTool, Active
  <2>2. CASE Save(w, On(doc[w], "TOOL_STARTED")) /\ Goto(w, "tool") /\ UNCHANGED tries
    <3>1. Persist(w, "TOOL_STARTED") BY <2>2 DEF Persist
    <3> QED BY <2>1, <2>2, <3>1, PersistAdvances, EventNames
  <2> QED BY <1>13, <2>2, StaleAdvances DEF StartTool
<1>14. CASE Observe(w)
  <2> DEFINE seen == On(doc[w], "TOOL_OBSERVED")
             new == On(seen, "TOOL_VERIFIED")
  <2>1. pc[w] # "start" /\ "verify" \in Active BY <1>14 DEF Observe, Active
  <2>2. CASE SaveTwice(w, seen, new) /\ Goto(w, "verify") /\ UNCHANGED tries
    <3>1. ~Early(doc[w].kind) BY <1>2, <1>3, <2>1, <2>2
    <3>2. seen \in Tasks /\ seen.retries = doc[w].retries /\ Moves(doc[w], seen)
          /\ ~Early(seen.kind)
      BY <1>1, <3>1, EventMoves, EventNames, StatusNames
    <3>4. seen.kind = "retry_scheduled" => doc[w].kind = "retry_scheduled"
      <4>1. doc[w].kind \in FSM!Kinds /\ seen.kind = FSM!Reduce(doc[w].kind, "TOOL_OBSERVED")
        BY <1>1, OnType DEF Tasks
      <4> HIDE DEF seen
      <4> QED BY <4>1, ReduceOnwards, EventNames
    <3> HIDE DEF seen
    <3>3. new \in Tasks /\ new.retries = seen.retries /\ Moves(seen, new) /\ ~Early(new.kind)
          /\ (Scheduled(new) => seen.kind = "retry_scheduled") /\ new.life # "ready"
      BY <3>2, EventMoves, OnRuns, EventNames, StatusNames
    <3> HIDE DEF new
    <3>5. Moves(doc[w], new) BY <3>2, <3>3, <3>4 DEF Moves, Scheduled, Pending
    <3>6. Saved(w, new) BY <1>1, <2>2, <3>2, <3>3, SaveTwiceSaves
    <3> QED BY <1>1, <2>1, <2>2, <3>2, <3>3, <3>5, <3>6, SavedAdvances
  <2> QED BY <1>14, <2>1, <2>2, IterationFailsAdvances, StaleAdvances DEF Observe
<1>15. CASE Verified(w)
  <2>1. pc[w] # "start" /\ "top" \in Active BY <1>15 DEF Verified, Active
  <2> QED BY <1>15, <2>1, EventAdvances, EventNames, StatusNames, StaleAdvances DEF Verified
<1>16. CASE NotVerified(w)
  <2> DEFINE n == More(task.retries)
             on == WithTries(doc[w], "executing", n)
             over == Failed(doc[w], n)
             new == On(over, "ERROR_FATAL")
  <2>1. \/ Stale(w)
        \/ Budgeted(n) /\ Save(w, on) /\ Goto(w, "top") /\ tries' = [tries EXCEPT ![w] = n]
        \/ ~Budgeted(n) /\ SaveAll(w, new) /\ Goto(w, "returned")
    BY <1>1, <1>16 DEF NotVerified
  <2>2. pc[w] # "start" BY <1>16 DEF NotVerified
  <2>3. CASE Budgeted(n) /\ Save(w, on) /\ Goto(w, "top") /\ tries' = [tries EXCEPT ![w] = n]
    <3>1. ~Early(doc[w].kind) BY <1>2, <1>3, <2>2, <2>3 DEF Save
    <3> HIDE DEF n
    <3>2. on \in Tasks /\ on.retries = n /\ on.kind = doc[w].kind
      BY <1>1, WithTriesType, StatusNames DEF WithTries, At, n
    <3>3. Moves(doc[w], on) BY <1>1, <2>3, <3>2 DEF Moves, n
    <3>4. tries'[w] = n BY <2>3 DEF Inv, Rest
    <3> HIDE DEF on
    <3>5. Saved(w, on) BY <1>1, <2>3, <3>2, SaveSaves
    <3> QED BY <1>1, <2>3, <3>1, <3>2, <3>3, <3>4, <3>5, SavedAdvances DEF PCs
  <2>4. CASE ~Budgeted(n) /\ SaveAll(w, new) /\ Goto(w, "returned")
    <3>1. ~Early(doc[w].kind) BY <1>2, <2>2, <2>4 DEF SaveAll, CanSave
    <3> HIDE DEF n
    <3>2. over \in Tasks /\ over.retries = n /\ over.kind = doc[w].kind
      BY <1>1, ReschedulingType DEF Failed, At, n
    <3> HIDE DEF over
    <3>3. new.retries = n /\ ~Pending(new) BY <3>1, <3>2, FatalEnds, OnCounts
    <3> HIDE DEF new
    <3>4. Moves(doc[w], new) BY <1>1, <3>3 DEF Moves, n
    <3>5. Saved(w, new) BY <2>4, SaveAllSaves
    <3> QED BY <1>1, <2>4, <3>4, <3>5, SavedAdvances
  <2> QED BY <2>1, <2>3, <2>4, StaleAdvances
<1>17. ~Preflight(w) /\ ~Release(w) BY DEF Preflight, Release, Active
<1> QED BY <1>4, <1>5, <1>6, <1>7, <1>8, <1>9, <1>10, <1>11, <1>12, <1>13, <1>14, <1>15,
           <1>16, <1>17 DEF Run

-----------------------------------------------------------------------------
(* The counts go together whatever else happens *)

(* The run of w alone holds anything *)
LEMMA AloneHolds ==
    ASSUME Inv, Sole, Counted, NEW w \in Worker, pc[w] # "idle"
    PROVE  \A v \in Worker : v # w => pc[v] = "idle" /\ ~fresh[v]
BY DEF Sole, Exclusive, Counted, Holds

LEMMA NobodyHolds ==
    ASSUME Inv, Sole, Counted, ~Leased
    PROVE  \A v \in Worker : pc[v] = "idle" /\ ~fresh[v]
BY NobodyRuns DEF Sole, Counted, Holds

(* A worker that is idle holds nothing *)
LEMMA IdleHolds ==
    ASSUME NEW w \in Worker, pc'[w] \notin Active, ~fresh'[w]
    PROVE  Holds(w)'
BY DEF Holds

LEMMA AdvancesCounted ==
    ASSUME Inv, Sole, Counted, NEW w \in Worker, pc[w] # "idle", Advances(w)
    PROVE  Counted'
<1>1. \A v \in Worker : v # w => pc[v] = "idle" BY AloneHolds
<1>2. \A v \in Worker : v # w => pc'[v] \notin Active /\ ~fresh'[v]
  BY <1>1, PlaceNames DEF Advances
<1>3. Holds(w)' BY DEF Holds, Advances
<1>4. \A v \in Worker : Holds(v)' BY <1>2, <1>3, IdleHolds
<1>5. Pending(task') => Budgeted(task'.retries) BY DEF Advances, Moves, Counted
<1> QED BY <1>4, <1>5 DEF Counted

(* A save by somebody else that does not schedule a retry *)
LEMMA ReadCounted ==
    ASSUME Inv, Counted, \A v \in Worker : ~fresh'[v],
           task'.retries = task.retries, Pending(task') => Pending(task),
           \A v \in Worker : \/ pc'[v] \notin Active
                             \/ /\ pc'[v] = pc[v] /\ tries'[v] = tries[v] /\ doc'[v] = doc[v]
                                /\ task'.kind # "retry_scheduled"
    PROVE  Counted'
BY DEF Counted, Holds

LEMMA RunCounted ==
    ASSUME Inv, Sole, Counted, NEW w \in Worker, Run(w)
    PROVE  Counted'
<1>1. ASSUME Finalize(w), pc[w] # "idle" PROVE Counted'
  <2>1. /\ task' = Cancelled(task) /\ task \in Tasks
        /\ (\A v \in Worker : ~fresh'[v]) /\ Goto(w, "returned")
    BY <1>1, SaveReadOutdates DEF Finalize, Inv, Stored
  <2>2. \A v \in Worker : pc'[v] \notin Active
    BY <1>1, <2>1, GotoGoes, AloneHolds, PlaceNames
  <2>3. task'.retries = task.retries /\ ~Pending(task')
    BY <2>1, CancelledEnds DEF Pending, Scheduled
  <2> QED BY <2>1, <2>2, <2>3, ReadCounted
<1>2. CASE Preflight(w)
  <2>1. pc[w] = "preflight" BY <1>2 DEF Preflight
  <2>2. CASE /\ doc' = [doc EXCEPT ![w] = task] /\ fresh' = [fresh EXCEPT ![w] = TRUE]
             /\ tries' = [tries EXCEPT ![w] = task.retries] /\ Goto(w, "start") /\ UNCHANGED task
    <3>1. pc'[w] = "start" /\ \A v \in Worker : v # w => pc'[v] = pc[v] BY <2>2, GotoGoes
    <3>2. doc'[w] = task /\ fresh'[w] /\ tries'[w] = task.retries
      BY <2>2 DEF Inv, Stored, Rest
    <3>3. \A v \in Worker : v # w => pc'[v] \notin Active /\ ~fresh'[v]
      BY <2>1, <2>2, <3>1, AloneHolds, PlaceNames
    <3>4. Holds(w)' BY <2>2, <3>1, <3>2 DEF Holds, Near
    <3>5. \A v \in Worker : Holds(v)' BY <3>3, <3>4, IdleHolds
    <3> QED BY <2>2, <3>5 DEF Counted
  <2> QED BY <1>1, <1>2, <2>1, <2>2 DEF Preflight
<1>3. CASE Release(w)
  <2>1. pc[w] # "idle" BY <1>3 DEF Release
  <2>2. Goto(w, "idle") /\ fresh' = [fresh EXCEPT ![w] = FALSE] /\ UNCHANGED task
    BY <1>3 DEF Release, Forget, taskVars
  <2>3. \A v \in Worker : pc'[v] \notin Active /\ ~fresh'[v]
    BY <2>1, <2>2, GotoGoes, AloneHolds, PlaceNames DEF Inv, Stored
  <2> QED BY <2>2, <2>3, ReadCounted
<1>4. CASE pc[w] \in Active
  <2>1. pc[w] # "idle" BY <1>4, PlaceNames
  <2> QED BY <1>1, <1>4, <2>1, RunAdvances, AdvancesCounted
<1> QED BY <1>2, <1>3, <1>4, RunPlaces

LEMMA IngressCounted ==
    ASSUME Inv, Sole, Counted, NEW w \in Worker, Ingress(w), ~Mishap("refuse")
    PROVE  Counted'
<1> PICK k \in Key :
        \/ TakeCancel(w, k) \/ Refuse(w, k) \/ Accept(w, k)
        \/ \E e \in {"POLICY_BLOCKED", "POLICY_APPROVAL_REQUIRED"} : Judge(w, k, e)
  BY DEF Ingress
<1>1. task \in Tasks /\ task.kind \in FSM!Kinds BY DEF Inv, Stored, Tasks
<1>2. CASE TakeCancel(w, k)
  <2> DEFINE m == FSM!Reduce(task.kind, "CANCEL_REQUESTED")
             t == At(FSM!LifeOf(m), task.status, m, task.retries)
  <2>1. UNCHANGED <<pc, doc, tries>> BY <1>2 DEF TakeCancel
  <2>2. \/ UNCHANGED <<task, copies>> \/ SaveRead(t) \/ SaveRead(Cancelled(task))
    BY <1>2 DEF TakeCancel, ProcessCancel
  <2>3. CASE UNCHANGED <<task, copies>> BY <2>1, <2>3 DEF Counted, Holds
  <2>4. t.retries = task.retries /\ t.kind # "retry_scheduled" /\ ~Pending(t)
    <3>1. m \in FSM!Kinds /\ m # "retry_scheduled" /\ ~Early(m)
      BY <1>1, AskedKind DEF Early
    <3> HIDE DEF m
    <3> QED BY <3>1, LifeNames DEF At, Pending, Scheduled
  <2> HIDE DEF t
  <2>5. CASE SaveRead(t)
    <3>1. task' = t /\ \A v \in Worker : ~fresh'[v] BY <2>5, SaveReadOutdates
    <3> QED BY <2>1, <2>4, <3>1, ReadCounted
  <2>6. CASE SaveRead(Cancelled(task))
    <3>1. task' = Cancelled(task) /\ \A v \in Worker : ~fresh'[v] BY <2>6, SaveReadOutdates
    <3>2. task'.retries = task.retries /\ task'.kind # "retry_scheduled" /\ ~Pending(task')
      BY <1>1, <3>1, CancelledEnds DEF Pending, Scheduled
    <3> QED BY <2>1, <3>1, <3>2, ReadCounted
  <2> QED BY <2>2, <2>3, <2>5, <2>6
<1>3. CASE Refuse(w, k)
  <2> DEFINE t == At(task.life, "failed", task.kind, task.retries)
  <2>1. ~Leased /\ SaveRead(t) /\ UNCHANGED pc BY <1>3 DEF Refuse, Intrudes
  <2>2. task'.retries = task.retries /\ (Pending(task') => Pending(task))
        /\ \A v \in Worker : ~fresh'[v]
    BY <2>1, SaveReadOutdates DEF At, Pending, Scheduled
  <2> QED BY <2>1, <2>2, NobodyHolds, ReadCounted, PlaceNames
<1>4. ASSUME NEW e \in {"POLICY_BLOCKED", "POLICY_APPROVAL_REQUIRED"}, Judge(w, k, e)
      PROVE  Counted'
  <2> DEFINE m == FSM!Reduce(FSM!Reduce("queued", "POLICY_EVALUATE"), e)
             t == At(FSM!LifeOf(m), FSM!StatusOf(m), m, task.retries)
  <2>1. ~Leased /\ SaveRead(t) /\ UNCHANGED pc BY <1>4 DEF Judge, Intrudes
  <2>2. m \in {"policy_blocked", "awaiting_approval"} BY JudgedKind
  <2> HIDE DEF m
  <2>3. m \in FSM!Kinds /\ ~Early(m) /\ m # "retry_scheduled" BY <2>2 DEF FSM!Kinds, Early
  <2>4. task'.retries = task.retries /\ ~Pending(task') /\ \A v \in Worker : ~fresh'[v]
    BY <2>1, <2>3, LifeNames, SaveReadOutdates DEF At, Pending, Scheduled
  <2> QED BY <2>1, <2>4, NobodyHolds, ReadCounted, PlaceNames
<1>5. CASE Accept(w, k)
  <2>1. /\ ~Leased \/ owner = w
        /\ pc[w] = "idle" /\ Goto(w, "preflight") /\ UNCHANGED <<task, doc, copies, tries>>
    BY <1>5 DEF Accept, taskVars, runVars
  <2>2. \A v \in Worker : pc[v] = "idle" /\ ~fresh[v] BY <2>1, NobodyHolds DEF Sole, Exclusive
  <2>3. \A v \in Worker : pc'[v] \notin Active BY <2>1, <2>2, GotoGoes, PlaceNames
  <2> QED BY <2>1, <2>2, <2>3, ReadCounted
<1> QED BY <1>2, <1>3, <1>4, <1>5

LEMMA AfterDueCounts ==
    ASSUME NEW t \in Tasks
    PROVE  \/ AfterDue(t) = t
           \/ /\ t.kind = "retry_scheduled" /\ AfterDue(t).kind # "retry_scheduled"
              /\ AfterDue(t).kind # "cancelled"
              /\ AfterDue(t).retries = t.retries /\ AfterDue(t).life # "retry_scheduled"
<1> DEFINE m == FSM!Reduce(t.kind, "RETRY_DUE")
<1>1. m \in FSM!Kinds BY ReduceType DEF Tasks
<1>2. m # t.kind => t.kind = "retry_scheduled" /\ m = "queued"
  BY DEF FSM!Reduce, FSM!Sources, FSM!Target
<1>3. AfterDue(t) = IF m = t.kind THEN t ELSE At(FSM!LifeOf(m), t.status, m, t.retries)
  BY DEF AfterDue
<1> HIDE DEF m
<1> QED BY <1>1, <1>2, <1>3, LifeNames DEF At

(* The claim of a scanner, and its undoing *)
LEMMA WithLifeCounts ==
    ASSUME NEW t \in Tasks, NEW l
    PROVE  /\ WithLife(t, l).life = l /\ WithLife(t, l).kind = t.kind
           /\ WithLife(t, l).retries = t.retries /\ WithLife(t, l).status = t.status
BY DEF WithLife, At

(* What the scanner of w stores as RETRY_DUE *)
LEMMA DueCounts ==
    ASSUME Stored, NEW w \in Worker, NEW t \in read[w], task' = Merged(task, t, AfterDue(t))
    PROVE  /\ task.kind = "retry_scheduled" /\ task'.kind # "retry_scheduled"
           /\ task'.retries = task.retries
           /\ task'.life # "retry_scheduled" \/ task'.life = task.life
<1>1. task \in Tasks /\ t \in Tasks /\ t.kind = task.kind /\ AfterDue(t) # t
  BY DEF Stored, Readings, FreshKnowsKind
<1>2. /\ t.kind = "retry_scheduled" /\ AfterDue(t).kind # "retry_scheduled"
      /\ AfterDue(t).retries = t.retries /\ AfterDue(t).life # "retry_scheduled"
  BY <1>1, AfterDueCounts
<1> QED BY <1>1, <1>2 DEF Merged

LEMMA ScanCounted ==
    ASSUME Inv, Sole, Counted, Scan
    PROVE  Counted'
<1>1. UNCHANGED <<doc, tries, pc>> BY DEF Scan, Promote, Claim, Enqueue, ReadDue, SaveDue, ScanStep
<1>2. task \in Tasks BY DEF Inv, Stored
<1>3. \/ UNCHANGED <<task, copies>>
      \/ task' = task /\ UNCHANGED fresh
      \/ SaveRead(AfterDue(task)) /\ AfterDue(task) # task
      \/ \E w \in Worker : \E t \in read[w] : SaveRead(Merged(task, t, AfterDue(t)))
      \/ IsCandidate /\ task' = WithLife(task, "ready") /\ UNCHANGED copies
      \/ task.life = "ready" /\ task' = WithLife(task, "retry_scheduled") /\ UNCHANGED copies
  BY DEF Scan, Promote, Claim, Enqueue, ReadDue, SaveDue
<1>4. CASE UNCHANGED <<task, fresh>> BY <1>1, <1>4 DEF Counted, Holds
<1>8. ASSUME NEW w \in Worker, NEW t \in read[w], SaveRead(Merged(task, t, AfterDue(t)))
      PROVE  Counted'
  <2>1. task' = Merged(task, t, AfterDue(t)) /\ \A v \in Worker : ~fresh'[v]
    BY <1>8, SaveReadOutdates
  <2>2. task'.retries = task.retries /\ task'.kind # "retry_scheduled" /\ Pending(task)
    BY <2>1, DueCounts DEF Inv, Pending, Scheduled
  <2> QED BY <1>1, <2>1, <2>2, ReadCounted
<1>5. CASE SaveRead(AfterDue(task)) /\ AfterDue(task) # task
  <2>1. task' = AfterDue(task) /\ \A v \in Worker : ~fresh'[v] BY <1>5, SaveReadOutdates
  <2>2. /\ task'.retries = task.retries /\ task'.kind # "retry_scheduled" /\ Pending(task)
    BY <1>2, <1>5, <2>1, AfterDueCounts DEF Pending, Scheduled
  <2> QED BY <1>1, <2>1, <2>2, ReadCounted
<1>6. CASE IsCandidate /\ task' = WithLife(task, "ready") /\ UNCHANGED copies
  <2>1. \A v \in Worker : pc'[v] \notin Active /\ ~fresh'[v]
    BY <1>1, <1>6, NobodyHolds, PlaceNames DEF IsCandidate
  <2>2. task'.retries = task.retries /\ Pending(task)
    BY <1>2, <1>6, WithLifeCounts DEF IsCandidate, Pending, Scheduled
  <2> QED BY <2>1, <2>2, ReadCounted
<1>7. CASE task.life = "ready" /\ task' = WithLife(task, "retry_scheduled") /\ UNCHANGED copies
  <2>1. task'.retries = task.retries /\ task'.kind = task.kind /\ Pending(task)
    BY <1>2, <1>7, WithLifeCounts DEF Pending
  <2>2. ASSUME NEW v \in Worker PROVE Holds(v)'
    <3>1. Near(doc[v], task) => Near(doc[v], task')
      BY <1>7 DEF Near, WithLife, At
    <3> QED BY <1>1, <1>7, <2>1, <3>1 DEF Counted, Holds
  <2> QED BY <2>1, <2>2 DEF Counted
<1> QED BY <1>3, <1>4, <1>5, <1>6, <1>7, <1>8

LEMMA StepCounted ==
    ASSUME Inv, Sole, Counted, Step, ~Mishap("refuse"), remedy # "retry"
    PROVE  Counted'
<1>1. ASSUME UNCHANGED <<task, doc, copies, tries, pc>> PROVE Counted'
  BY <1>1 DEF Counted, Holds
<1>2. ASSUME NEW k \in Key, Request(k) PROVE Counted'
  BY <1>1, <1>2 DEF Request, taskVars, runVars
<1>3. CASE RequestCancel BY <1>1, <1>3 DEF RequestCancel, runVars
<1>4. ASSUME NEW w \in Worker, Ingress(w) PROVE Counted' BY <1>4, IngressCounted
<1>5. ASSUME NEW w \in Worker, Run(w) PROVE Counted' BY <1>5, RunCounted
<1>6. ASSUME NEW w \in Worker, Crash(w) PROVE Counted'
  <2>1. /\ Goto(w, "idle") /\ UNCHANGED task
        /\ doc' = [doc EXCEPT ![w] = NewTask] /\ fresh' = [fresh EXCEPT ![w] = FALSE]
        /\ tries' = [tries EXCEPT ![w] = 0]
    BY <1>6 DEF Crash, Forget, taskVars
  <2>2. pc'[w] = "idle" /\ ~fresh'[w] BY <2>1, GotoGoes DEF Inv, Stored
  <2>3. \A v \in Worker : v # w => /\ pc'[v] = pc[v] /\ fresh'[v] = fresh[v]
                                   /\ doc'[v] = doc[v] /\ tries'[v] = tries[v]
    BY <2>1, GotoGoes DEF Inv, Stored, Rest
  <2>4. Holds(w)' BY <2>2, IdleHolds, PlaceNames
  <2>5. \A v \in Worker : v # w => Holds(v)' BY <2>1, <2>3 DEF Counted, Holds
  <2> QED BY <2>1, <2>4, <2>5 DEF Counted
<1>7. ASSUME NEW w \in Worker, DetectStuck(w) PROVE Counted'
  <2>1. /\ beats = "old" /\ task' = Failed(task, task.retries) /\ UNCHANGED <<copies, pc>>
    BY <1>7 DEF DetectStuck, LooksStuck, runVars
  <2>2. \A v \in Worker : pc'[v] \notin Active /\ ~fresh'[v]
    BY <2>1, NobodyHolds, PlaceNames DEF Sole, Exclusive, Leased
  <2>3. task'.retries = task.retries /\ (Pending(task') => Pending(task))
    BY <2>1 DEF Failed, At, Pending, Scheduled
  <2> QED BY <2>2, <2>3, ReadCounted
<1>8. ASSUME NEW w \in Worker, RetryStuck(w) PROVE Counted'
  BY <1>8 DEF RetryStuck, Sole, Exclusive
<1>9. CASE DueComes \/ LeaseRunsOut \/ HeartbeatAges
  BY <1>1, <1>9 DEF DueComes, LeaseRunsOut, HeartbeatAges, taskVars, runVars
<1>10. CASE Scan BY <1>10, ScanCounted
<1> QED BY <1>2, <1>3, <1>4, <1>5, <1>6, <1>7, <1>8, <1>9, <1>10 DEF Step

-----------------------------------------------------------------------------
(* The third layer: without crashes and overtaking as well, one scanner at *)
(* a time is at work, and no run while it is, and a retry that is          *)
(* scheduled has a count, and so a key, that was not reached before        *)

Quiet == \A w \in Worker : scan[w] = NoScan

(* One scanner at a time is at work, and no run while it is; RETRY_DUE is  *)
(* not lost while it matters                                               *)
Scanning ==
    \A w \in Worker : scan[w] # NoScan =>
        /\ task.life # "retry_scheduled"
        /\ \A v \in Worker : pc[v] = "idle" /\ (v # w => scan[v] = NoScan)
        /\ scan[w][1] = "claimed" =>
              /\ scan[w][2] = task.retries /\ task.retries \in 1 .. MaxRetries
              /\ queue[RetryKey(task.retries)] = "none"
        /\ scan[w][1] = "due" => read[w] # {} \/ ~Scheduled(task)

(* A retry that is scheduled is within the budget, and its key unused      *)
Budget ==
    Scheduled(task) => /\ task.retries \in 1 .. MaxRetries
                       /\ Quiet => queue[RetryKey(task.retries)] = "none"

(* Only keys of counts that were reached are spent                         *)
Keys ==
    /\ \A n \in 1 .. MaxRetries + 1 : queue[RetryKey(n)] # "none" => n <= task.retries
    /\ \A w \in Worker : pc[w] # "idle" => job[w] \in Key /\ queue[job[w]] # "none"

Calm == owner # Gone /\ Scanning /\ Budget /\ Keys

(* The same keys are spent after the step *)
SameKeys == \A k \in Key : queue'[k] = "none" <=> queue[k] = "none"

(* An event that is queued and goes on *)
LEMMA SettledKeys ==
    ASSUME Inv, NEW k \in Key, queue[k] # "none", NEW s \in {"pending", "taken", "done"},
           queue' = [queue EXCEPT ![k] = s]
    PROVE  SameKeys
BY DEF SameKeys, Inv, Rest

(* No scanner while a run is at work *)
LEMMA NobodyScans ==
    ASSUME Calm, NEW w \in Worker, pc[w] # "idle"
    PROVE  Quiet
BY DEF Calm, Scanning, Quiet

(* Whoever leases the task runs it, unless the worker has died *)
LEMMA LeasedScans ==
    ASSUME Inv, Sole, Calm, Leased
    PROVE  Quiet
<1>1. owner \in Worker BY DEF Leased, Calm, Inv, Rest
<1>2. pc[owner] # "idle" BY <1>1 DEF Sole, Exclusive
<1> QED BY <1>1, <1>2, NobodyScans

(* The next count, when it is within the budget *)
LEMMA MoreBudget ==
    ASSUME NEW n \in Retries, Budgeted(More(n))
    PROVE  More(n) = n + 1 /\ More(n) \in 1 .. MaxRetries
BY LifecycleAssumption DEF Retries, More, Budgeted

(* A task that is no retry, and the keys as they were *)
LEMMA NoRetryCalm ==
    ASSUME Inv, Calm, SameKeys, ~Scheduled(task'), task'.retries = task.retries, Quiet,
           owner' # Gone, UNCHANGED scan,
           \A w \in Worker : pc'[w] # "idle" => job'[w] \in Key /\ queue'[job'[w]] # "none"
    PROVE  Calm'
<1>1. Scanning' BY DEF Scanning, Quiet
<1>2. Budget' BY DEF Budget
<1>3. Keys' BY KeyNames DEF Calm, Keys, SameKeys
<1> QED BY <1>1, <1>2, <1>3 DEF Calm

(* Neither the keys nor what they depend on have changed *)
LEMMA KeptCalm ==
    ASSUME Inv, Calm, SameKeys, task'.retries = task.retries,
           task'.life = "retry_scheduled" => task.life = "retry_scheduled",
           Scheduled(task') => Scheduled(task),
           owner' # Gone, UNCHANGED scan,
           Quiet \/ \A w \in Worker : pc'[w] = "idle",
           Quiet \/ UNCHANGED read \/ ~Scheduled(task'),
           \A w \in Worker : pc'[w] # "idle" => job'[w] \in Key /\ queue'[job'[w]] # "none"
    PROVE  Calm'
<1>1. 1 .. MaxRetries \subseteq 1 .. MaxRetries + 1 BY LifecycleAssumption
<1>2. Scanning' BY <1>1, KeyNames DEF Calm, Scanning, SameKeys, Quiet
<1>3. Budget' BY <1>1, KeyNames DEF Calm, Budget, SameKeys, Quiet
<1>4. Keys' BY KeyNames DEF Calm, Keys, SameKeys
<1> QED BY <1>2, <1>3, <1>4 DEF Calm

LEMMA AdvancesCalm ==
    ASSUME Inv, Sole, Counted, Calm, NEW w \in Worker, pc[w] \in Active, Advances(w),
           UNCHANGED <<owner, queue, scan, job>>
    PROVE  Calm'
<1>1. pc[w] # "idle" /\ task.retries \in Retries BY RunKnows, PlaceNames
<1>2. Quiet BY <1>1, NobodyScans
<1>3. \A v \in Worker : pc'[v] # "idle" => pc[v] # "idle" BY <1>1 DEF Advances
<1>4. CASE task'.retries = task.retries /\ (Scheduled(task') => Scheduled(task))
  <2>1. Scanning' BY <1>2 DEF Scanning, Quiet
  <2>2. Budget' BY <1>4 DEF Calm, Budget, Quiet
  <2>3. Keys' BY <1>3, <1>4 DEF Calm, Keys
  <2> QED BY <2>1, <2>2, <2>3 DEF Calm
<1>5. CASE task'.retries = More(task.retries) /\ (Pending(task') => Budgeted(task'.retries))
  <2>1. Scanning' BY <1>2 DEF Scanning, Quiet
  <2>2. task'.retries \in Retries /\ task'.retries >= task.retries
    BY <1>1, <1>5, MoreType DEF Retries, More
  <2>3. ASSUME Scheduled(task')
        PROVE  task'.retries \in 1 .. MaxRetries /\ queue[RetryKey(task'.retries)] = "none"
    <3>1. task'.retries = task.retries + 1 /\ task'.retries \in 1 .. MaxRetries
      BY <1>1, <1>5, <2>3, MoreBudget DEF Pending
    <3>2. task'.retries \in 1 .. MaxRetries + 1 /\ ~(task'.retries <= task.retries)
      BY <1>1, <3>1, LifecycleAssumption DEF Retries
    <3> QED BY <3>1, <3>2 DEF Calm, Keys
  <2>4. Budget' BY <2>3 DEF Budget
  <2>5. \A n \in 1 .. MaxRetries + 1 : n <= task.retries => n <= task'.retries
    BY <1>1, <2>2, LifecycleAssumption DEF Retries
  <2>6. Keys' BY <1>3, <2>5 DEF Calm, Keys
  <2> QED BY <2>1, <2>4, <2>6 DEF Calm
<1> QED BY <1>4, <1>5 DEF Advances, Moves

LEMMA RunCalm ==
    ASSUME Inv, Sole, Counted, Calm, NEW w \in Worker, Run(w)
    PROVE  Calm'
<1>1. ASSUME Finalize(w), pc[w] # "idle", UNCHANGED <<owner, queue, scan, job>> PROVE Calm'
  <2>1. task' = Cancelled(task) /\ task \in Tasks /\ Goto(w, "returned")
    BY <1>1 DEF Finalize, SaveRead, Inv, Stored
  <2>2. task'.retries = task.retries /\ ~Scheduled(task') BY <2>1, CancelledEnds DEF Scheduled
  <2>3. \A v \in Worker : pc'[v] # "idle" => pc[v] # "idle" BY <1>1, <2>1, GotoGoes
  <2>4. SameKeys BY <1>1 DEF SameKeys
  <2> QED BY <1>1, <2>2, <2>3, <2>4, NobodyScans, NoRetryCalm DEF Calm, Keys
<1>2. CASE Preflight(w)
  <2>1. pc[w] = "preflight" /\ UNCHANGED <<owner, queue, scan, job>>
    BY <1>2 DEF Preflight, RunStep, leaseVars
  <2>2. CASE Goto(w, "start") /\ UNCHANGED task
    <3>1. \A v \in Worker : pc'[v] # "idle" => pc[v] # "idle" BY <2>1, <2>2, GotoGoes
    <3>2. SameKeys /\ Quiet BY <2>1, NobodyScans DEF SameKeys
    <3> QED BY <2>1, <2>2, <3>1, <3>2, KeptCalm DEF Calm, Keys
  <2> QED BY <1>1, <1>2, <2>1, <2>2 DEF Preflight
<1>3. CASE Release(w)
  <2>1. pc[w] # "idle" BY <1>3 DEF Release
  <2>2. job[w] \in Key /\ queue[job[w]] # "none" BY <2>1 DEF Calm, Keys
  <2>3. \E s \in {"pending", "taken", "done"} : queue' = [queue EXCEPT ![job[w]] = s]
    BY <1>3 DEF Release
  <2>4. SameKeys BY <2>2, <2>3, SettledKeys
  <2>5. Goto(w, "idle") /\ UNCHANGED <<task, scan>> /\ owner' \in {owner, Nobody}
    BY <1>3 DEF Release, Forget, taskVars
  <2>6. \A v \in Worker : pc'[v] = "idle" BY <2>1, <2>5, GotoGoes, AloneHolds
  <2>7. owner' # Gone BY <2>5, LifecycleAssumption DEF Calm
  <2> QED BY <2>1, <2>4, <2>5, <2>6, <2>7, NobodyScans, KeptCalm
<1>4. CASE pc[w] \in Active
  <2>1. pc[w] # "idle" /\ UNCHANGED <<owner, queue, scan, job>>
    BY <1>4, ActiveGoes, PlaceNames
  <2> QED BY <1>1, <1>4, <2>1, RunAdvances, AdvancesCalm
<1> QED BY <1>2, <1>3, <1>4, RunPlaces

LEMMA IngressCalm ==
    ASSUME Inv, Sole, Counted, Calm, NEW w \in Worker, Ingress(w),
           ~Mishap("refuse"), ~Mishap("overtake")
    PROVE  Calm'
<1> PICK k \in Key :
        \/ TakeCancel(w, k) \/ Refuse(w, k) \/ Accept(w, k)
        \/ \E e \in {"POLICY_BLOCKED", "POLICY_APPROVAL_REQUIRED"} : Judge(w, k, e)
  BY DEF Ingress
<1>1. task \in Tasks /\ task.kind \in FSM!Kinds BY DEF Inv, Stored, Tasks
<1>2. \E s \in {"pending", "taken", "done"} :
          queue[k] = "pending" /\ queue' = [queue EXCEPT ![k] = s]
  BY DEF TakeCancel, Refuse, Accept, Judge
<1>3. SameKeys BY <1>2, SettledKeys
<1>4. owner' # Gone /\ UNCHANGED scan
  BY LifecycleAssumption DEF TakeCancel, ProcessCancel, Refuse, Accept, Judge, leaseVars, Calm
<1>5. ASSUME UNCHANGED <<pc, job>>
      PROVE  \A v \in Worker : pc'[v] # "idle" => job'[v] \in Key /\ queue'[job'[v]] # "none"
  BY <1>3, <1>5 DEF Calm, Keys, SameKeys
<1>6. CASE TakeCancel(w, k)
  <2> DEFINE m == FSM!Reduce(task.kind, "CANCEL_REQUESTED")
             t == At(FSM!LifeOf(m), task.status, m, task.retries)
  <2>1. UNCHANGED <<pc, job>> BY <1>6 DEF TakeCancel
  <2>2. UNCHANGED <<task, copies>> \/ (Leased /\ task' = t) \/ (~Leased /\ task' = Cancelled(task))
    BY <1>6 DEF TakeCancel, ProcessCancel, SaveRead
  <2>3. CASE UNCHANGED <<task, copies>>
    <3>1. Quiet \/ \A v \in Worker : pc'[v] = "idle" BY <2>1, NobodyScans
    <3> QED BY <1>3, <1>4, <1>5, <2>1, <2>3, <3>1, KeptCalm
  <2>4. CASE Leased /\ task' = t
    <3>1. t.retries = task.retries /\ ~Scheduled(t)
      <4>1. m \in FSM!Kinds /\ m # "retry_scheduled" BY <1>1, AskedKind
      <4> HIDE DEF m
      <4> QED BY <4>1, LifeNames DEF At, Scheduled
    <3> HIDE DEF t
    <3> QED BY <1>3, <1>4, <1>5, <2>1, <2>4, <3>1, LeasedScans, NoRetryCalm
  <2>5. CASE ~Leased /\ task' = Cancelled(task)
    <3>1. task'.retries = task.retries /\ ~Scheduled(task') /\ task'.life # "retry_scheduled"
      BY <1>1, <2>5, CancelledEnds DEF Scheduled
    <3>2. \A v \in Worker : pc'[v] = "idle" BY <2>1, <2>5, NobodyHolds
    <3> QED BY <1>3, <1>4, <1>5, <2>1, <3>1, <3>2, KeptCalm
  <2> QED BY <2>2, <2>3, <2>4, <2>5
<1>7. CASE Refuse(w, k) \/ \E e \in {"POLICY_BLOCKED", "POLICY_APPROVAL_REQUIRED"} : Judge(w, k, e)
  <2>1. ~Leased /\ Quiet /\ UNCHANGED <<pc, job>>
    BY <1>7 DEF Refuse, Judge, Intrudes, Scanned, Quiet
  <2>2. \A v \in Worker : pc'[v] = "idle" BY <2>1, NobodyHolds
  <2>3. CASE Refuse(w, k)
    <3>1. task'.retries = task.retries /\ task'.life = task.life /\ task'.kind = task.kind
      BY <2>3 DEF Refuse, SaveRead, At
    <3> QED BY <1>3, <1>4, <1>5, <2>1, <2>2, <3>1, KeptCalm DEF Scheduled
  <2>4. ASSUME NEW e \in {"POLICY_BLOCKED", "POLICY_APPROVAL_REQUIRED"}, Judge(w, k, e)
        PROVE  Calm'
    <3> DEFINE m == FSM!Reduce(FSM!Reduce("queued", "POLICY_EVALUATE"), e)
               t == At(FSM!LifeOf(m), FSM!StatusOf(m), m, task.retries)
    <3>1. task' = t BY <2>4 DEF Judge, SaveRead
    <3>2. m \in {"policy_blocked", "awaiting_approval"} BY JudgedKind
    <3> HIDE DEF m
    <3>3. m \in FSM!Kinds /\ m # "retry_scheduled" BY <3>2 DEF FSM!Kinds
    <3>4. task'.retries = task.retries /\ ~Scheduled(task') /\ task'.life # "retry_scheduled"
      BY <3>1, <3>3, LifeNames DEF At, Scheduled
    <3> QED BY <1>3, <1>4, <1>5, <2>1, <2>2, <3>4, KeptCalm
  <2> QED BY <1>7, <2>3, <2>4
<1>8. CASE Accept(w, k)
  <2>1. Quiet BY <1>8 DEF Accept, Scanned, Quiet
  <2>2. UNCHANGED task /\ Goto(w, "preflight") /\ job' = [job EXCEPT ![w] = k]
    BY <1>8 DEF Accept, taskVars
  <2>3. ASSUME NEW v \in Worker, pc'[v] # "idle"
        PROVE  job'[v] \in Key /\ queue'[job'[v]] # "none"
    <3>1. CASE v = w
      <4>1. job'[v] = k BY <2>2, <3>1 DEF Inv, Rest
      <4> QED BY <1>2, <1>3, <4>1 DEF SameKeys
    <3>2. CASE v # w
      <4>1. pc[v] # "idle" /\ job'[v] = job[v] BY <2>2, <2>3, <3>2, GotoGoes DEF Inv, Rest
      <4> QED BY <1>3, <4>1 DEF Calm, Keys, SameKeys
    <3> QED BY <3>1, <3>2
  <2> QED BY <1>3, <1>4, <2>1, <2>2, <2>3, KeptCalm
<1> QED BY <1>6, <1>7, <1>8

(* One key more is spent, that of the count of the task *)
LEMMA SpentKeys ==
    ASSUME Inv, Calm, queue' = [queue EXCEPT ![RetryKey(task.retries)] = "pending"],
           task.retries \in 1 .. MaxRetries, UNCHANGED <<pc, job>>, task'.retries = task.retries
    PROVE  Keys'
<1>1. RetryKey(task.retries) \in Key BY KeyNames, LifecycleAssumption
<1>2. \A k \in Key : /\ k # RetryKey(task.retries) => queue'[k] = queue[k]
                     /\ queue[k] # "none" => queue'[k] # "none"
  BY <1>1 DEF Inv, Rest
<1>3. ASSUME NEW n \in 1 .. MaxRetries + 1, queue'[RetryKey(n)] # "none"
      PROVE  n <= task.retries
  <2>1. CASE n = task.retries BY <2>1, LifecycleAssumption
  <2>2. CASE n # task.retries BY <1>2, <1>3, <2>2, KeyNames DEF Calm, Keys
  <2> QED BY <2>1, <2>2
<1> QED BY <1>2, <1>3 DEF Calm, Keys

LEMMA ScanCalm ==
    ASSUME Inv, Sole, Counted, Calm, Scan
    PROVE  Calm'
<1>1. UNCHANGED <<owner, pc, job>>
  BY DEF Scan, Promote, Claim, Enqueue, ReadDue, SaveDue, ScanStep, leaseVars
<1>2. task \in Tasks /\ task.retries \in Retries BY DEF Inv, Stored, Tasks
<1>3. IsCandidate => /\ Quiet /\ task.retries \in 1 .. MaxRetries
                     /\ queue[RetryKey(task.retries)] = "none"
                     /\ \A v \in Worker : pc[v] = "idle"
  BY NobodyHolds DEF IsCandidate, Calm, Scanning, Budget, Quiet, Scheduled
<1>4. Scheduled(AfterDue(task)) => AfterDue(task) = task BY <1>2, AfterDueCounts DEF Scheduled
<1>5. AfterDue(task).retries = task.retries BY <1>2, AfterDueCounts
<1>6. CASE Promote
  <2>1. IsCandidate /\ UNCHANGED scan BY <1>6 DEF Promote
  <2>2. Scanning' BY <1>3, <2>1 DEF Scanning, Quiet
  <2>3. CASE AfterDue(task) # task
    <3>1. task' = AfterDue(task) /\ UNCHANGED queue BY <1>6, <2>3 DEF Promote, SaveRead
    <3>2. ~Scheduled(task') /\ task'.retries = task.retries BY <1>4, <1>5, <2>3, <3>1
    <3>3. SameKeys BY <3>1 DEF SameKeys
    <3> QED BY <1>1, <1>3, <2>1, <3>2, <3>3, NoRetryCalm DEF Calm
  <2>4. CASE AfterDue(task) = task
    <3>1. task.kind # "retry_scheduled"
      BY <1>2, <2>4 DEF AfterDue, At, FSM!Reduce, FSM!Sources, FSM!Target, FSM!LegalFrom
    <3>2. /\ task' = WithLife(task, "ready")
          /\ queue' = [queue EXCEPT ![RetryKey(task.retries)] = "pending"]
      BY <1>6, <2>4 DEF Promote, CandidateKey
    <3>3. task'.life = "ready" /\ task'.kind = task.kind /\ task'.retries = task.retries
      BY <3>2, <1>2, WithLifeCounts
    <3>4. Keys' BY <1>1, <1>3, <2>1, <3>2, <3>3, SpentKeys
    <3>5. Budget' BY <3>1, <3>3 DEF Budget, Scheduled
    <3> QED BY <1>1, <2>2, <3>4, <3>5 DEF Calm
  <2> QED BY <2>3, <2>4
<1>7. ASSUME NEW w \in Worker, Claim(w) PROVE Calm'
  <2>1. /\ IsCandidate /\ task' = WithLife(task, "ready") /\ UNCHANGED queue
        /\ scan' = [scan EXCEPT ![w] = <<"claimed", task.retries>>]
    BY <1>7 DEF Claim
  <2>2. task'.life = "ready" /\ task'.kind = task.kind /\ task'.retries = task.retries
    BY <2>1, <1>2, WithLifeCounts
  <2>3. scan'[w] = <<"claimed", task.retries>> /\ \A v \in Worker : v # w => scan'[v] = NoScan
    BY <1>3, <2>1 DEF Inv, Rest, Quiet
  <2>4. scan'[w] # NoScan BY <2>3 DEF NoScan
  <2>5. Scanning' BY <1>1, <1>3, <2>1, <2>2, <2>3 DEF Scanning
  <2>6. Budget' BY <1>3, <2>1, <2>2, <2>4 DEF Budget, Quiet
  <2>7. Keys' BY <1>1, <2>1, <2>2 DEF Calm, Keys
  <2> QED BY <1>1, <2>5, <2>6, <2>7 DEF Calm
<1>8. ASSUME NEW w \in Worker, Enqueue(w) PROVE Calm'
  <2>1. scan[w] # NoScan /\ scan[w][1] = "claimed" BY <1>8 DEF Enqueue, NoScan
  <2>2. /\ task.life # "retry_scheduled"
        /\ \A v \in Worker : pc[v] = "idle" /\ (v # w => scan[v] = NoScan)
        /\ ClaimedKey(w) = RetryKey(task.retries) /\ task.retries \in 1 .. MaxRetries
        /\ queue[ClaimedKey(w)] = "none"
    BY <2>1 DEF Calm, Scanning, ClaimedKey
  <2>3. /\ queue' = [queue EXCEPT ![RetryKey(task.retries)] = "pending"]
        /\ scan' = [scan EXCEPT ![w] = <<"enqueued", 0>>] /\ UNCHANGED task
    BY <1>8, <2>2 DEF Enqueue
  <2>4. scan'[w] = <<"enqueued", 0>> /\ \A v \in Worker : v # w => scan'[v] = NoScan
    BY <2>2, <2>3 DEF Inv, Rest
  <2>5. scan'[w] # NoScan /\ scan'[w][1] # "claimed" BY <2>4 DEF NoScan
  <2>6. Scanning' BY <1>1, <2>2, <2>3, <2>4, <2>5 DEF Scanning
  <2>7. Budget' BY <2>2, <2>3, <2>5 DEF Calm, Budget, Quiet
  <2>8. Keys' BY <1>1, <2>2, <2>3, SpentKeys
  <2> QED BY <1>1, <2>6, <2>7, <2>8 DEF Calm
<1>9. ASSUME NEW w \in Worker, scan' = [scan EXCEPT ![w] = NoScan], UNCHANGED queue,
             \A v \in Worker : v # w => scan[v] = NoScan,
             ~Scheduled(task'), task'.retries = task.retries
      PROVE  Calm'
  <2>1. Quiet' BY <1>9 DEF Quiet, Inv, Rest
  <2>2. Scanning' BY <2>1 DEF Scanning, Quiet
  <2>3. Budget' BY <1>9 DEF Budget
  <2>4. Keys' BY <1>1, <1>9 DEF Calm, Keys
  <2> QED BY <1>1, <2>2, <2>3, <2>4 DEF Calm
<1>10. task.kind = "retry_scheduled" => AfterDue(task) # task
  BY <1>2 DEF AfterDue, At, FSM!Reduce, FSM!Sources, FSM!Target, FSM!LegalFrom
<1>11. ASSUME NEW w \in Worker, ReadDue(w) PROVE Calm'
  <2>1. scan[w] # NoScan BY <1>11 DEF ReadDue, NoScan
  <2>2. /\ task.life # "retry_scheduled"
        /\ \A v \in Worker : pc[v] = "idle" /\ (v # w => scan[v] = NoScan)
    BY <2>1 DEF Calm, Scanning
  <2>3. UNCHANGED <<task, queue>> BY <1>11 DEF ReadDue
  <2>4. CASE AfterDue(task) = task
    <3>1. scan' = [scan EXCEPT ![w] = NoScan] BY <1>11, <2>4 DEF ReadDue
    <3>2. ~Scheduled(task') BY <1>10, <2>2, <2>3, <2>4 DEF Scheduled
    <3> QED BY <1>9, <2>2, <2>3, <3>1, <3>2
  <2>5. CASE AfterDue(task) # task
    <3>1. scan' = [scan EXCEPT ![w] = <<"due", 0>>] /\ read' = [read EXCEPT ![w] = {task}]
      BY <1>11, <2>5 DEF ReadDue
    <3>2. scan'[w] = <<"due", 0>> /\ \A v \in Worker : v # w => scan'[v] = NoScan
      BY <2>2, <3>1 DEF Inv, Rest
    <3>3. scan'[w] # NoScan /\ scan'[w][1] # "claimed" BY <3>2 DEF NoScan
    <3>4. read'[w] # {} BY <3>1 DEF Inv, Stored, Readings
    <3>5. Scanning' BY <1>1, <2>2, <2>3, <3>2, <3>3, <3>4 DEF Scanning
    <3>6. Budget' BY <2>3, <3>3 DEF Calm, Budget, Quiet
    <3>7. Keys' BY <1>1, <2>3 DEF Calm, Keys
    <3> QED BY <1>1, <3>5, <3>6, <3>7 DEF Calm
  <2> QED BY <2>4, <2>5
<1>12. ASSUME NEW w \in Worker, SaveDue(w) PROVE Calm'
  <2>1. scan[w] # NoScan /\ scan[w][1] = "due" BY <1>12 DEF SaveDue, NoScan
  <2>2. /\ task.life # "retry_scheduled" /\ (read[w] # {} \/ ~Scheduled(task))
        /\ \A v \in Worker : v # w => scan[v] = NoScan
    BY <2>1 DEF Calm, Scanning
  <2>3. scan' = [scan EXCEPT ![w] = NoScan] /\ UNCHANGED queue BY <1>12 DEF SaveDue
  <2>4. ASSUME NEW t \in read[w], task' = Merged(task, t, AfterDue(t))
        PROVE  ~Scheduled(task') /\ task'.retries = task.retries
    BY <2>2, <2>4, DueCounts DEF Inv, Scheduled
  <2>5. ~Scheduled(task') /\ task'.retries = task.retries
    BY <1>12, <2>2, <2>4 DEF SaveDue, SaveRead
  <2> QED BY <1>9, <2>2, <2>3, <2>5
<1> QED BY <1>6, <1>7, <1>8, <1>11, <1>12 DEF Scan

LEMMA QuietCalm ==
    ASSUME Calm, UNCHANGED <<task, owner, queue, scan, read, pc, job>>
    PROVE  Calm'
<1>1. Scanning' BY DEF Calm, Scanning
<1>2. Budget' BY DEF Calm, Budget, Quiet
<1>3. Keys' BY DEF Calm, Keys
<1> QED BY <1>1, <1>2, <1>3 DEF Calm

(* A key that is no retry's is spent *)
LEMMA OtherKeyCalm ==
    ASSUME Inv, Calm, NEW k \in Key, \A n : RetryKey(n) # k,
           queue' = [queue EXCEPT ![k] = "pending"],
           UNCHANGED <<task, owner, scan, read, pc, job>>
    PROVE  Calm'
<1>1. 1 .. MaxRetries \subseteq 1 .. MaxRetries + 1 BY LifecycleAssumption
<1>2. \A n \in 1 .. MaxRetries + 1 : queue'[RetryKey(n)] = queue[RetryKey(n)]
  BY KeyNames DEF Inv, Rest
<1>3. \A j \in Key : queue[j] # "none" => queue'[j] # "none" BY DEF Inv, Rest
<1>4. Scanning' BY <1>1, <1>2 DEF Calm, Scanning
<1>5. Budget' BY <1>1, <1>2 DEF Calm, Budget, Quiet
<1>6. Keys' BY <1>2, <1>3 DEF Calm, Keys
<1> QED BY <1>4, <1>5, <1>6 DEF Calm

LEMMA StepCalm ==
    ASSUME Inv, Sole, Counted, Calm, Step, \A f \in Disturbed : ~Mishap(f), remedy # "retry"
    PROVE  Calm'
<1>1. ~Mishap("crash") /\ ~Mishap("refuse") /\ ~Mishap("overtake") BY DEF Disturbed
<1>2. ASSUME NEW k \in Key, Request(k) PROVE Calm'
  <2>1. /\ queue' = [queue EXCEPT ![k] = "pending"] /\ k \in Requests \X {0}
        /\ UNCHANGED <<task, owner, scan, read, pc, job>>
    BY <1>2 DEF Request, taskVars, leaseVars, runVars
  <2> QED BY <2>1, KeyNames, OtherKeyCalm
<1>3. CASE RequestCancel
  <2>1. /\ UNCHANGED queue \/ queue' = [queue EXCEPT ![CancelKey] = "pending"]
        /\ UNCHANGED <<task, owner, scan, read, pc, job>>
    BY <1>3 DEF RequestCancel, leaseVars, runVars
  <2> QED BY <2>1, KeyNames, OtherKeyCalm, QuietCalm
<1>4. ASSUME NEW w \in Worker, Ingress(w) PROVE Calm' BY <1>1, <1>4, IngressCalm
<1>5. ASSUME NEW w \in Worker, Run(w) PROVE Calm' BY <1>5, RunCalm
<1>6. ASSUME NEW w \in Worker, Crash(w) PROVE Calm' BY <1>1, <1>6 DEF Crash
<1>7. ASSUME NEW w \in Worker, DetectStuck(w) PROVE Calm'
  <2>1. /\ beats = "old" /\ task' = Failed(task, task.retries) /\ owner' = Nobody
        /\ UNCHANGED <<queue, scan, read, pc, job>>
    BY <1>7 DEF DetectStuck, LooksStuck, runVars
  <2>2. \A v \in Worker : pc'[v] = "idle" BY <2>1, NobodyHolds DEF Sole, Exclusive, Leased
  <2>3. task'.life = "failed" /\ task'.kind = task.kind /\ task'.retries = task.retries
    BY <2>1 DEF Failed, At
  <2>4. SameKeys BY <2>1 DEF SameKeys
  <2> QED BY <2>1, <2>2, <2>3, <2>4, KeptCalm, LifecycleAssumption DEF Scheduled
<1>8. ASSUME NEW w \in Worker, RetryStuck(w) PROVE Calm'
  BY <1>8 DEF RetryStuck, Sole, Exclusive
<1>9. CASE DueComes \/ LeaseRunsOut \/ HeartbeatAges
  BY <1>9, QuietCalm
  DEF DueComes, LeaseRunsOut, HeartbeatAges, taskVars, leaseVars, runVars
<1>10. CASE Scan BY <1>10, ScanCalm
<1> QED BY <1>2, <1>3, <1>4, <1>5, <1>6, <1>7, <1>8, <1>9, <1>10 DEF Step

-----------------------------------------------------------------------------
(* The invariant: the three layers, each while its mishaps have not        *)
(* happened                                                                *)

Layers ==
    /\ Without(Slow) => Sole
    /\ Without(Intruded) => Counted
    /\ Without(Disturbed) => Calm
IInv == Inv /\ Layers

(* Fewer mishaps that matter are absent too *)
LEMMA WithoutLess ==
    /\ Without(Disturbed) => Without(Intruded)
    /\ Without(Intruded) => Without(Slow)
BY DEF Without, Disturbed, Intruded, Slow

LEMMA InitLayers == Init => Layers
<1> SUFFICES ASSUME Init PROVE Layers OBVIOUS
<1>1. \A k \in Key : queue[k] = "none" BY DEF Init
<1>2. task.life = "ready" /\ task.kind = "queued" /\ task.retries = 0 BY DEF Init, NewTask, At
<1>3. \A w \in Worker : /\ pc[w] = "idle" /\ ~fresh[w] /\ scan[w] = NoScan /\ stuck[w] = 0
                        /\ job[w] = NoJob
  BY DEF Init
<1>4. owner = Nobody /\ live = FALSE BY DEF Init
<1>5. Exclusive BY <1>3, <1>4, LifecycleAssumption DEF Exclusive
<1>6. Final BY <1>1, <1>2, <1>3, KeyNames DEF Final
<1>7. Counted BY <1>2, <1>3, PlaceNames, LifecycleAssumption DEF Counted, Holds, Budgeted
<1>8. Scanning BY <1>3 DEF Scanning
<1>9. Budget BY <1>2 DEF Budget, Scheduled
<1>10. Keys BY <1>1, <1>3, KeyNames DEF Keys
<1>11. Calm BY <1>4, <1>8, <1>9, <1>10, LifecycleAssumption DEF Calm
<1> QED BY <1>5, <1>6, <1>7, <1>11 DEF Layers, Sole

LEMMA NextLayers == IInv /\ [Next]_vars => Layers'
<1> SUFFICES ASSUME IInv, [Next]_vars PROVE Layers' OBVIOUS
<1>1. CASE Next
  <2>1. Inv /\ Layers /\ Step /\ UNCHANGED config BY <1>1 DEF Next, IInv
  <2>2. ASSUME Without(Slow)' PROVE Sole'
    <3>1. Without(Slow) /\ remedy # "retry" /\ \A f \in Slow : ~Mishap(f)
      BY <2>1, <2>2, StepWithout
    <3>2. ~Mishap("slow") BY <3>1 DEF Slow
    <3> QED BY <2>1, <3>1, <3>2, StepSole DEF Layers
  <2>3. ASSUME Without(Intruded)' PROVE Counted'
    <3>1. Without(Intruded) /\ remedy # "retry" /\ \A f \in Intruded : ~Mishap(f)
      BY <2>1, <2>3, StepWithout
    <3>2. ~Mishap("refuse") BY <3>1 DEF Intruded
    <3> QED BY <2>1, <3>1, <3>2, WithoutLess, StepCounted DEF Layers
  <2>4. ASSUME Without(Disturbed)' PROVE Calm'
    <3>1. Without(Disturbed) /\ remedy # "retry" /\ \A f \in Disturbed : ~Mishap(f)
      BY <2>1, <2>4, StepWithout
    <3> QED BY <2>1, <3>1, WithoutLess, StepCalm DEF Layers
  <2> QED BY <2>2, <2>3, <2>4 DEF Layers
<1>2. CASE UNCHANGED vars
  <2>1. \A F : Without(F)' => Without(F) BY <1>2 DEF vars, Without
  <2>2. Sole => Sole' BY <1>2 DEF vars, Sole, Exclusive, Final
  <2>3. Counted => Counted' BY <1>2 DEF vars, Counted, Holds
  <2>4. Calm => Calm' BY <1>2, QuietCalm DEF vars
  <2> QED BY <2>1, <2>2, <2>3, <2>4 DEF IInv, Layers
<1> QED BY <1>1, <1>2

LEMMA SpecIInv == Spec => []IInv
<1>1. Init => IInv BY InitInv, InitLayers DEF IInv
<1>2. IInv /\ [Next]_vars => IInv' BY NextInv, NextLayers DEF IInv
<1> QED BY <1>1, <1>2, PTL DEF Spec

(* While no heartbeat is so late that a lease runs out under a run, two    *)
(* workers never run the task at once, and the one that does holds a lease *)
(* that has not run out: whoever dies, whatever is asked for, judged,      *)
(* scanned or detected in the meantime.                                    *)
THEOREM OneRunAtATime ==
    Spec => [](Without({"slow"}) =>
                   /\ \A v, w \in Worker : pc[v] # "idle" /\ pc[w] # "idle" => v = w
                   /\ \A w \in Worker : pc[w] # "idle" => owner = w /\ live)
<1>1. IInv => (Without({"slow"}) =>
                   /\ \A v, w \in Worker : pc[v] # "idle" /\ pc[w] # "idle" => v = w
                   /\ \A w \in Worker : pc[w] # "idle" => owner = w /\ live)
  BY DEF IInv, Layers, Slow, Sole, Exclusive
<1> QED BY <1>1, SpecIInv, PTL

(* RetryWithinBudget: whatever dies, is told too late or overtakes the     *)
(* scanner, a retry is scheduled within the budget, although the loop,     *)
(* scheduleTaskRetry and the projection of the state machine each keep a   *)
(* count or a lifecycle of their own                                       *)
THEOREM RetriesWithinBudget == Spec => []RetryWithinBudget
<1>1. IInv => RetryWithinBudget
  BY DEF RetryWithinBudget, IInv, Layers, Intruded, Counted, Pending, Scheduled, Budgeted
<1> QED BY <1>1, SpecIInv, PTL

(* RetryKeyIsUnused: without crashes, and while nobody takes up a request  *)
(* before a scanner has stored RETRY_DUE, the scanner never finds a due    *)
(* retry whose dedupe key, made of the count alone, was used before, since *)
(* nobody else can then make its save of RETRY_DUE fail                    *)
THEOREM RetryKeysUnused == Spec => []RetryKeyIsUnused
<1>1. IInv => RetryKeyIsUnused
  BY DEF RetryKeyIsUnused, IsCandidate, CandidateKey, IInv, Layers, Disturbed, Calm, Budget,
         Scheduled, Quiet
<1> QED BY <1>1, SpecIInv, PTL

(* No step touches a task whose cancellation is final, a crash neither *)
LEMMA CancelledStays ==
    ASSUME Inv, Sole, Step, task.kind = "cancelled"
    PROVE  UNCHANGED <<task.life, task.status>>
<1>1. /\ cancel /\ task.life = "failed" /\ task.status = "failed"
      /\ \A w \in Worker : pc[w] \in {"idle", "returned", "threw"} /\ stuck[w] = 0
  BY DEF Sole, Final, Exclusive
<1>2. ASSUME NEW w \in Worker, Ingress(w) PROVE UNCHANGED task
  BY <1>1, <1>2 DEF Ingress, TakeCancel, ProcessCancel, IsTerminal, Refuse, Accept, Judge, taskVars
<1>3. ASSUME NEW w \in Worker, Run(w) PROVE UNCHANGED task
  BY <1>1, <1>3 DEF Run, Preflight, Start, Begin, Iterate, Exhaust, Abort, Achieve, Complete,
     Clarify, ModelFails, StartTool, Observe, Verified, NotVerified, Release, taskVars
<1>4. CASE Scan
  <2>1. task \in Tasks BY DEF Inv, Stored
  <2>2. AfterDue(task) = task BY <2>1, AfterDueCounts
  <2>3. ~IsCandidate BY <1>1 DEF IsCandidate
  <2>4. \A w \in Worker : read[w] = {}
    BY AfterDueCounts DEF Inv, Stored, Readings, FreshKnowsKind
  <2> QED BY <1>1, <1>4, <2>2, <2>3, <2>4 DEF Scan, Promote, Claim, Enqueue, ReadDue, SaveDue
<1>5. ASSUME NEW w \in Worker, DetectStuck(w) PROVE FALSE
  BY <1>1, <1>5 DEF DetectStuck, LooksStuck
<1>6. ASSUME NEW w \in Worker, RetryStuck(w) PROVE FALSE BY <1>1, <1>6 DEF RetryStuck
<1> QED BY <1>2, <1>3, <1>4, <1>5, <1>6 DEF Step, Request, RequestCancel, Crash, DueComes,
           LeaseRunsOut, HeartbeatAges, taskVars

(* CancelIsFinal: while no run has lost its lease to a late heartbeat,     *)
(* neither a run nor a retry nor a request takes a task back from its      *)
(* final cancellation, whichever worker dies                               *)
THEOREM CancellationStays == Spec => CancelIsFinal
<1>1. ASSUME IInv, [Next]_vars
      PROVE  [task.kind = "cancelled" /\ Without({"slow"})' =>
                  UNCHANGED <<task.life, task.status>>]_vars
  <2> SUFFICES ASSUME Next, task.kind = "cancelled", Without({"slow"})'
               PROVE  UNCHANGED <<task.life, task.status>>
    BY <1>1
  <2>1. Inv /\ Step /\ UNCHANGED config BY <1>1 DEF Next, IInv
  <2>2. Without({"slow"}) BY <2>1, StepWithout
  <2>3. Sole BY <1>1, <2>2 DEF IInv, Layers, Slow
  <2> QED BY <2>1, <2>3, CancelledStays
<1>2. IInv /\ [Next]_vars =>
          [task.kind = "cancelled" /\ Without({"slow"})' => UNCHANGED <<task.life, task.status>>]_vars
  BY <1>1
<1> QED BY <1>2, SpecIInv, PTL DEF Spec, CancelIsFinal
=============================================================================
