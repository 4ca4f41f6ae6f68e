# Semantask: TLA+ models and proofs

Semantask turns chat messages into tasks and runs them with an agent. Messages,
approvals and retries reach the agent through a transactional outbox that one or
more task-worker processes poll; the web application and the socket server are
producers and observers. This directory holds the TLA+ models of that system, the
TLC runs that check them on small instances, and proofs about them that TLAPS
checks for every instance.

All paths below are relative to `src/` unless they start with `tla/`.

## 1. Inventory

### Components, their state and their operations

| component | where | state it keeps | operations that change state |
|---|---|---|---|
| Outbox and worker loop | `packages/services/outbox.service.ts`, `outbox.helpers.ts`, `packages/db/models/OutboxEvent.ts`, `apps/task-worker/index.ts` (`run`), `services/worker-shutdown.ts`, `services/outbox-processed-marker.ts` | one Mongo row per dedupe key (status, attempts, lockedAt, lockedBy, availableAt); a Redis marker per processed event; in the process: the claimed batch, the event in progress, the stop state | enqueue, claim, complete, fail, defer, dead-letter, requeue, archive, release at a stop |
| Event dispatch and execution ingress | `apps/task-worker/index.ts` (`processTaskExecutionRequested`, `processTaskExecutionApproved`, `processTaskCancelRequested`), `services/execution-policy.ts`, `services/suggest-only-execution-gate.ts` | the task, its actions | the chain cancel, organization, policy, tool grant, approval, lease, workflow |
| Approvals | `apps/web/app/api/task-approvals/route.ts`, `packages/services/task-execution-request.service.ts`, `task-execution-enqueue.service.ts`, `execution-proposal.service.ts` | `TaskAction` rows (requested, approval_pending, approved, rejected), the outbox | request, propose, approve, reject |
| Task lease | `apps/task-worker/services/lease.service.ts`, `task-lease.ts` | leaseOwner and leaseExpiresAt of the task | acquire, heartbeat, release, the abort of the run |
| Tool idempotency | `apps/task-worker/services/agent/tool-executor.ts` | reservation rows of `TaskAction` | reserve, finish, replay |
| Agent loop | `apps/task-worker/services/agent/step-loop.ts`, `agent-runner.ts`, `context.ts`, `planner.ts` | plan, checkpoints, step results, iteration counters | plan, execute step, reflect, wait, finish |
| Execution state machine | `apps/task-worker/services/execution-state-machine.ts`, `execution-state-shadow.ts`, `policy-shadow.ts`, `retry-shadow.ts`, `state-projection.ts`, `state-divergence-check.ts` | the shadow execution state next to the legacy lifecycle fields | reduce, project, compare |
| Retries, stuck tasks, cancellation | `apps/task-worker/services/schedule-retry.ts`, `retry-scheduler.ts`, `retry-manager.ts`, `stuck-task-detector.ts`, `task-cancellation.ts` | retryCount, nextRetryAt, executionState, cancelRequestedAt | schedule, claim a due retry, requeue, finalise a cancellation |
| Message ingress and task intelligence | `packages/services/message.service.ts`, `message-classifier.service.ts`, `task-intelligence.service.ts`, `repositories/task.repo.ts` | messages, tasks, their links | create message and event in one transaction, classify, create or update a task |
| Work suggestions | `packages/services/work-suggestion.service.ts` | suggestion rows (proposed, converted, dismissed), tasks, their events | record, accept, dismiss, assign |
| Organizations, quotas, policies, grants | `packages/services/organization*.service.ts`, `tool-grant.service.ts`, `authorization.service.ts`, `usage-event.service.ts` | memberships, invitations, counters, policies, grants | invite, accept, remove, reserve quota, grant |
| Sessions | `packages/auth/`, `apps/web/app/api/auth/` | refresh sessions, token versions, one-time codes | login, rotate, revoke, verify |
| Socket server | `apps/socket/` | presence in Redis, rooms, delivery receipts | connect, disconnect, deliver, mark seen |
| Web client | `apps/web/store/`, `hooks/`, `lib/utils/` | offline queue, optimistic state, token refresh in flight | send, retry, reconcile |
| Mobile client | `apps/mobile/` | optimistic state, no offline queue | send, reconcile |
| LLM providers and prompts | `apps/task-worker/services/llm/`, `prompt-guard.ts` | none that outlives a call | none |
| User interface | `apps/web/app`, `apps/web/components` | component state | rendering |
| Observability | `packages/observability/` | metrics and spans | recording |

### How they interact

The web API and the socket bridge write the outbox, inside the transaction of the
message or next to the update of a task action. A worker claims a batch with
single-row `findOneAndUpdate` statements, handles the events one after the other
and settles each row. The handler of an execution event walks the ingress chain,
takes the lease of the task and runs the agent loop, which reserves a row for each
tool call. Two loops on timers in the same process scan for due retries and for
stuck tasks and write the outbox and the task. A stop signal starts a third
activity of the process, which hands the claimed rows back. Nothing but the
database is shared between processes; within one process every `await` is a point
where another activity runs.

### What is hard

* Two workers on one event: a row is claimed again when its lock looks stale, and
  the updates that settle a row are addressed by `_id` alone.
* A crash between the handler, the marker, the completion; a reply that is lost.
* The shutdown timer and the loop of one process working on the same rows.
* A counter that several paths decrement.
* Check-then-act sequences on a task action (approve, reject) and on a suggestion
  (accept, dismiss) without a compare-and-set.
* A lease that expires under a running handler; a reservation whose owner died.
* Retries scheduled while a cancellation is on its way.
* Rotation of refresh tokens by concurrent requests.

`PROJECT.json` lists every hazard at its line, with the properties that watch it, or
the reason why none does yet.

### What makes each component correct

* Outbox: at-least-once delivery; no event finished unhandled; one handler at a time
  while handlers respect the cutoff; every event settles; attempts count what failed.
* Ingress and approvals: nothing that needs approval runs without one; a rejected
  request does not run; an approval is not lost.
* Lease and tools: one run of a task at a time; a side effect happens once per key.
* State machine: only legal transitions; the projection agrees with the legacy fields.
* Retries: bounded, not after a cancellation, never forgotten.
* Suggestions: one decision per suggestion, one task per accepted one, none left behind
  of a dismissed one; an accept that says it succeeded is complete.
* Message intake: no event is finished with its message unclassified; no message is taken
  for work that nobody can find.
* Sessions: a revoked session stays revoked.
* Presence: connected peers see each other; nobody is taken offline without cause; who is
  gone is removed.
* Clients: a message typed offline leaves the queue only when it is stored.

## 2. Plan

In order of importance. Everything that has a section below is done.

1. `Outbox`, `EventDelivery`, `MCOutbox`, `Outbox_proofs` (section 3).
2. `ExecutionPolicy`, `Approval`, `MCApproval`, `Approval_proofs`: request, approve,
   reject, cancel and the ingress chain over one task (section 4).
3. `ExecutionRun`, `CallLedger`, `MCExecutionRun`, `ExecutionRun_proofs`: the lease with expiry and
   heartbeat, and the reservation of a tool call, under at-least-once delivery (section 5).
4. `ExecutionFSM`, `TaskLifecycle`, `MCTaskLifecycle`, `TaskLifecycle_proofs`: what a run,
   the retry scanner, the detector of stuck tasks and a cancellation store in one task; the
   state machine is the abstract specification (section 6).
5. `SuggestionVerdict`, `WorkSuggestion`, `MessageIntake`, `MCMessageIntake`,
   `MessageIntake_proofs`: from a message typed offline to a decided suggestion;
   `MessageIntake` extends `WorkSuggestion`, which implements `SuggestionVerdict`
   (section 7).
6. `Presence`, `MCPresence`, `Presence_proofs`: who is online, over the pods of the socket
   server, Redis and the tabs of the client (section 8).

Further modules: the counters of an organization
(`organization-quota.service.ts`), and the persistent runner, once it gets past its first
iteration (section 5).

One configuration answers all the questions about a module that its instance can
answer, so a module has one or two passing runs. A run that expects a violation stands for a place
where the code does not do what the repository says; the other places are described in the
sections.

## 3. The outbox

### `Outbox.tla`

| variable | code |
|---|---|
| `ev[e]` | the row: `status`, `attempts`, `lockedBy`; `due` stands for `availableAt <= now`, `stale` for `lockedAt` older than five minutes |
| `older` | the order of `createdAt`, by which a claim sorts |
| `marker` | keys in the processed-marker store |
| `pc`, `cur`, `batch`, `seen` | where the loop of `run` is, the event in progress, the `unfinished` set, the rows as claimed (the code decides about the dead letter with the `attempts` it read at the claim) |
| `requested`, `fin`, `toRelease` | the closure of `createWorkerShutdown` |
| `successes`, `spent` | history: handler successes and failed claims per event |
| `unreleased` | history: the rows `releaseAndExit` failed to hand back, upon which it only logs |

Every database statement and Redis command is one action. An action has the
name of the function or of the branch it models. `Settle` is the `finally` of the
loop and is part of the action that settles the row. Handlers are reduced to their
outcomes: success, error, busy lease. The clock is replaced by `BecomeDue` and
`BecomeStale`; a live worker's row goes stale only where the fault `overrun` is on.
A process that ends leaves its rows with the owner `Gone`, because worker ids are
random and never reused. `RunRejects` is a statement that fails outside of the loop's
`try` (the claim, or the update in its `catch`), upon which the process exits.

The faults (`Faults`) are switched per run: a crash at any point; a handler that
outlives the stale cutoff; a grace period that ends inside a handler; statements that
fail without an effect; a completing update that is applied but reported as
failed; markers that are not written or expire.

`EventDelivery.tla` is what a producer may rely on: queued, then finished only if
delivered, or given up, and finished only once. `DeliversAtLeastOnce` is its
specification under the refinement mapping in `Outbox.tla`.

Definitions marked `variant`, here and in the other modules, are broken forms of the
definition they precede; they document which mistake each property would catch and occur
in no specification.

### Runs

| run | configuration | question |
|---|---|---|
| `outbox_safety` | 2 workers, 2 events, batch 1, 2 attempts, crashes and failing statements, one mishap | one handler per event; completed is final; a marked event is not handled again; attempts equal spent claims; refinement of `EventDelivery` |
| `outbox_faults` | 2 workers, 1 event, batch 2, 2 attempts, every fault, one mishap, `FairSpec` | types; nothing unhandled finishes; every lock has an owner; an exit on request leaves only those behind it could not hand back; every event settles |
| `outbox_stop_reopens` | 2 workers, 1 event, grace may expire | finds the violation described below |

Bounds. Two workers are enough for every pairwise race on a row. Two events are enough
for the order by age and for a requeue next to a claim. Two attempts let an event be
retried once and dead-lettered after that, and `Requeue` starts over. `MaxMishaps` bounds
the crashes, failed claims, overruns, expired graces and failed releases of a behaviour,
and nothing else: ordinary handler failures, retries, stops and restarts are unbounded.
`successes` saturates at `MaxSuccesses`; it is 2 where a second success is what is
looked for. The properties that are about a well-behaved environment name the faults they exclude
in their own text, so a reader does not have to compare configurations.

Deadlock checking is off because nothing obliges a producer to submit or a process to
live: a system in which every row is settled and every worker waits may stop.

### Fairness (`FairSpec`)

Weak fairness of the loop and of the shutdown of each worker (they are driven by
the event loop), of the restart of a process (the containers restart unless stopped),
of time; and, per event, strong fairness of an outcome that is not a busy lease: the
lease in the way is released or expires, so an event that is tried again and again
does not find it busy every time. Liveness is conditional on stop signals not
arriving for ever, because every stop may hand an event back before it is tried.

### What was found

* A stop can reopen a completed event (`outbox_stop_reopens`). When the grace period
  ends inside a handler, the row is handed back while the handler goes on; another
  worker completes it; then the first handler fails and `markOutboxEventFailed`, which
  looks at nothing but `_id`, makes it claimable again.
* In the same situation the counter of attempts can become negative, although the schema
  says `min: 0`: the hand-over and the deferral of one claim both take one off. This is
  why `AttemptsCountSpentClaims` is checked without expired graces.

## 4. Requests, approvals and the execution policy

### `ExecutionPolicy.tla`

The decision of a worker about an execution event as functions of the payload and the
policy: `Outcome` is `evaluateExecutionPolicy` with the mode gate, `Verdict` the order of
the guards in `processTaskExecutionRequested` with the two exceptions for `suggest_only`.
Tools are reduced to two kinds, arguments to the four classes the policy tells apart, the
confidence to three levels around the baseline. Where the execution mode is not enforced
(`isExecutionModeEnforce`) the code behaves as under `auto_execute`.

### `Approval.tla`

| variable | code |
|---|---|
| `policy`, `changes` | the organization's policy and its changes |
| `origin`, `sure`, `status`, `ended`, `cancelled`, `lease` | how the task came to be, the classifier's confidence, `task.status`, whether `lifecycleState` is terminal, `cancelRequestedAt` and its event, the lease |
| `row[r]` | the `TaskAction` with a given idempotency key: state, `patch.after.explicitManagerRequest`, confidence, parameters |
| `event[e]` | the outbox row with a given dedupe key: absent, queued or done |
| `hand[m]` | the web request of manager `m`: which statement is next |
| `pc`, `job`, `verdict` | the worker's place in its handler, its event, and the policy and payload it has read |
| `approvals`, `lapsed` | history: rows a reviewer has approved; a cancellation was left to a run that did not end the task |

Each statement of `requestTaskExecution`, of `POST /api/task-approvals` and of the cancel
route is an action, and so is each stretch of a handler between two awaits that matter.
The outbox is used as section 3 shows it: an event is handled by one worker at a time, and
again when the handler throws or dies, or (`redeliver`) after it has finished.

Simplifications: one message triggers the task, so the key of a gate row depends on the kind
only; what a run does is left open, but for how it leaves the task: ended (`RunEnds`), or waiting
for an answer or a retry (`RunPauses`), neither of which is taken up again here; the expiry of a dead
worker's lease is part of `HandlerEnds`; the state in which `proposeExecutionFromSuggestion`
writes its row is left open between the two it may have; authorization is the set `Manager`.

### Runs

| run | configuration | question |
|---|---|---|
| `approval_safety` | 1 manager, 2 workers, 7 policies one of which may replace another, crashes, redelivery, every origin of a task | whatever runs is authorised by the policy that was read and, where one is needed, by a reviewer |
| `approval_progress` | 2 managers, 2 workers, `suggest_only` or `auto_execute`, a cancellation, `FairSpec` | requests and approvals reach a worker; a cancelled task ends, unless the cancellation was left to a run that then pauses |
| `approval_asked_again` | 1 manager, 1 worker, `require_approval` | finds the violation described below |

Bounds. Two managers race about one row, which is what its unconditional updates are
exposed to; two workers handle two events of one task at once. The seven policies differ
in one respect each from the plain one of their mode, so that each guard of the chain
decides in some behaviour. One change of policy lets it differ between the enqueue, the
decision and the run. In the liveness run the task comes from a doubtful message, for
which a reviewer has to be asked; the other origins are in the safety run.

Fairness: a web request that has started runs on, and so does a worker. Nobody is obliged
to ask for an execution or to decide about one. The liveness run has no crashes: a web
process that dies between the two statements of a request or of an approval does lose it
(hazard at `route.ts:218`, which names both places).

### What was found

* The event of an approved action is answered by asking for approval again
  (`approval_asked_again`): the comment on the re-entry says that the approval satisfies the
  gate, but only `needsApproval` is cleared. Under `require_approval`, for a tool of
  `requireApprovalFor` or for arguments the policy wants seen, `Outcome` is the same as
  before; the row exists already, and the task waits for an approval nobody can give. The
  proof of `RunVerdict` shows how far this goes: only `auto_execute` runs anything.
* Under `suggest_only` the approved request of a manager is refused for the mode, in spite
  of the exception written for it: the approval row the worker writes for the request does
  not carry `explicitManagerRequest`, so the re-entry has both flags false (`FlagsOK`,
  proved).
* Two reviewers who have read the same pending row can approve and reject it; the row
  says rejected, and is set to approved and executed when the event arrives.
* A worker that is slow to write `partial` after it asked for an approval overwrites
  whatever happened since: a task that was cancelled and found finished is unfinished
  again, and its cancellation is over. `CancellationIsHonoured` therefore says that a
  cancelled task comes to an end, and not that it stays there.
* `processTaskCancellation` leaves the cancellation of a leased task to the run. A run that
  has looked for it before and then waits for an answer, or schedules a retry, leaves it to
  nobody: the cancellation event is done. `lapsed` marks exactly this, and
  `CancellationIsHonoured` shows that a cancellation is carried out in every other case.

## 5. Runs of a task: the lease and the reservations

### `ExecutionRun.tla`

| variable | code |
|---|---|
| `loop`, `faults` | the configured runner; which mishaps there may be, chosen in the initial state and never changed |
| `work` | whether an outbox event asks for a run |
| `owner`, `live` | `task.leaseOwner`, and `leaseExpiresAt` lying in the future |
| `row[c]` | `executionState` of the reservation with the key of call `c` |
| `pc`, `call`, `keyed`, `got` | the worker's place in `withExecutionLease` and `ToolExecutor.execute`, its call, whether it has a key, what it has read |
| `lost` | `heartbeatLost`, which aborts the run |
| `effects` | history: how often the call had its effect |

Every statement on the lease or on a reservation is an action. `LeaseRunsOut` is time for a
lease nobody renews, `LeaseRunsOutInUse` a heartbeat that comes too late. The reservation
is read, then inserted or updated on condition (`ReadReservation`, `Reserve`); results are
written by key alone (`Settle`, `Spoil`).

Simplifications: which call a run makes is left open, because the planner is asked again in
every run and may come to the same call; an idle worker may start a run whenever work is
queued; renewal keeps `live` true; the cancellation of a run is in `TaskLifecycle`;
whether a provider honours the `Idempotency-Key` it is sent is not modelled.

`CallLedger.tla` is what the reservations promise to whoever plans a call again: it is made
while it is reserved, once, its reservation is then never given up, and only what was made is
kept for replay. That `ExecutionRun` implements it is proved (section 9); no run checks it, as
`EffectAtMostOnce`, `SuccessIsReal` and `SucceededIsFinal` are its visible consequences.

### Runs

| run | configuration | question |
|---|---|---|
| `run_takeover` | 2 workers, 1 call, either runner, 3 mishaps; three sets of faults, `FairSpec` | types; the lease excludes; one worker in a call; at most one effect; a recorded success is real and final; work gets done |
| `run_duplicate` | 2 workers, a late heartbeat, a preparation that throws | finds the violation described below |
| `run_gives_up` | the persistent runner, no faults | finds the violation described below |

Bounds. Three mishaps allow a late heartbeat, a crash and a failure of the release in one
behaviour. The three sets of faults are those under which the reservation alone has to
hold (workers together, nothing throws before it), those under which the lease has to
(anything throws, one worker), and all; the properties say in their text (`Guarded`) for
which they hold. Calls do not interact, so one is enough.

Fairness: time goes on, workers run on, and a run that can leave its loop again and again
does so some time, because `agentMaxIterationsPlan` bounds its iterations (strong
fairness of `Leave`).

### What was found

* A call may have its effect twice across a handoff of the lease (`run_duplicate`). The
  handler of `execute` writes `failed` by key alone, also when its worker never reserved
  the row: a worker whose lease has gone unnoticed looks a call up, another reserves and makes
  it, the first throws while it prepares and frees the row, and the next run makes the
  call again. `Guarded` names exactly what must not coincide.
* The persistent runner gives up in its first iteration (`run_gives_up`): it renews the lease
  under another id than the one it was taken under. The documented flow
  (`docs/archive/optional-autonomy/task-worker-execution-flow.md:190`) gives up a run when its
  lease is lost, and this one is held.
* A call that was aborted by a timeout or a lost lease leaves its reservation
  running, and every later run is refused as a duplicate, for ever. `EffectAtMostOnce`
  relies on that: the mutant that frees the row breaks it.
* A connection that is down while the key is computed lets a call be made without any
  reservation (`SkipLookup`); the properties are about calls with a key.

## 6. The life of a task

### `ExecutionFSM.tla`

`LegalFrom` is the table `LEGAL_EXECUTION_TRANSITIONS`, `Sources` and `Target` are the guards
and the results of `reduceExecutionState`, `Reduce` is the reducer as it is used: an event
that is refused is logged and leaves the state alone. `LifeOf` and `StatusOf` are the
projection to the two legacy fields. `ERROR_OCCURRED` is two events, because whether it is
retryable, within the budget and dated decides its target. As a specification the module says
how the stored state may move: by one event or two of what was stored, by the first save of a
run, by a judgement of the policy, by a cancellation.

### `TaskLifecycle.tla`

| variable | code |
|---|---|
| `remedy`, `txn` | `TASK_STUCK_REMEDIATION`; whether the database has transactions; chosen in the initial state |
| `task` | the stored `lifecycleState`, `status`, `executionState.kind`, `retryCount` |
| `due`, `cancel` | `nextRetryAt` against the clock; `cancelRequestedAt` |
| `owner`, `live`, `beats` | `leaseOwner`, `leaseExpiresAt` in the future, the age of `lastHeartbeatAt` |
| `queue[k]` | the outbox row with dedupe key `k`: of a request, of the cancellation, of a retry count |
| `scan[w]` | what the retry scanner of worker `w` has done with the task it claimed, and the retry count it read at the claim |
| `read[w]` | the task as the scanner has read it in `emitRetryDueShadowState`, while a save of it would pass the version check |
| `pc`, `job` | the worker's place in the ingress and in `runTask`, its event |
| `doc`, `fresh` | the copy of the task a run holds, and whether a save of it would pass the version check |
| `tries`, `turns` | `context.retryCount` and the iterations of the run |
| `stuck` | the retry count the detector of a worker is about to schedule |

`Task.ts` sets `optimisticConcurrency`: `task.save()` writes the fields that changed in memory
(`Merged`), and only if nobody saved since the read (`CanSave`); `updateOne` and
`findOneAndUpdate` neither look at the version nor change it. Which writer is which is the
subject of the module. `persistShadowExecutionState` swallows a failed save, `updateTask` lets
it throw (`Stale`); `scheduleTaskRetry` writes first without and then with the check
(`ModelFails`). The scanner reads the task to apply `RETRY_DUE` (`ReadDue`) and saves it
(`SaveDue`); a save by anybody else in between empties `read`, and then the failure is swallowed
and `RETRY_DUE` is lost, as is the case for a scanner that dies there. With transactions the scanner's `RETRY_DUE` is saved outside of the
transaction that claimed the task (`Promote`).

Simplifications: the default configuration, in which the projection is enforced, and
`runTask`, the default runner; the outbox delivers again only when a handler threw or its
worker died; a retry count above the budget saturates at one above it; the answers of the
model and of tools, and whether an error is retryable, are left open; a save and the
assignments before it are one step. Two saves of one process that follow each other (an event and
then the status, `SaveTwice`) are one step as well, so another process does not save and the
worker does not die between the two; each of the two is a legal move of the state machine.

### Runs

| run | configuration | question |
|---|---|---|
| `lifecycle` | 2 workers with scanner and detector, a cancellation, 1 retry, 2 iterations, both databases, the detector as `fail` and as `retry`; one request with one mishap of any kind, or two requests without | what is stored follows the state machine; a run that may save knows it; each without the mishaps that break it, retries keep to the budget and to unused keys, and a final cancellation stays |

Bounds. Two workers give every pair of writers that exist: a run against a run that lost its
lease, against the scanner, the detector, the cancellation, the ingress of another event. One
retry and two iterations reach both sides of the budget and of the iteration limit, and let an
iteration fail, the run go on and fail again. A second request can be taken up between a scanner's
claim and its save of `RETRY_DUE`; it comes after the first and not together with a mishap
(`Few`), which the theorems do not ask for.

A mishap is a crash, a late heartbeat, a failed emit, a web process that dies, a request that is
refused or judged while a run holds the task (`refuse`: both store what they find without
asking for the lease), or a request that is taken up, to be executed, refused or judged, before a
scanner has stored `RETRY_DUE` (`overtake`). `mishaps` remembers them, and the properties about counts and finality name the
ones they are about (`Without`): a final cancellation stays unless a lease has run out under
its run; retries keep to the budget unless, besides, a request was judged under a run; they keep
to unused keys without crashes and overtaking as well. All are about a detector that does not
schedule retries (`remedy`). Instances with more retries, mishaps or requests show that these
exclusions are needed: dropping one of them yields a counterexample, for the reasons listed
below. (Of `refuse` this was seen for the budget only: the keys need it for their
proof.) The run has one mishap, the theorems hold for any number (section 9).

Deadlock checking is off because a task that is done stops.

### What was found

* A completed task is executed again, with two retries and without any mishap. An iteration that fails within
  the budget is stored as a scheduled retry while its run goes on. `ITERATION_START` and
  `GOAL_ACHIEVED` are illegal from there, so the lifecycle stays `retry_scheduled` when the
  status becomes `completed`; if an earlier retry has left a `nextRetryAt`, the scanner takes
  the task for due.
* A cancellation that is deferred to the run holding the lease is finalized by nobody when
  that run has looked for it the last time and then pauses or schedules a retry. That it is
  carried out otherwise is `CancellationIsHonoured` of `Approval`.
* With transactions the claim of a due retry conflicts with the save of its own shadow state.
  The claim is rolled back, the save goes through, and the next attempt finds no candidate:
  the state is `queued`, and no event exists (`Promote`).
* Without transactions a scanner that dies between the claim and the event leaves the task
  `ready` without one (`retry-scheduler.ts:144`). Its late `RETRY_DUE` may also meet a task
  that a run has meanwhile moved on.
* A run that exhausts its iterations after a successful step ends with status `failed` and
  lifecycle `executing`, since no event leads from `step_complete` to `failed`; so
  does a crash in `tool_executing` followed by a run that completes, with `completed` and
  `executing`. The detector of stuck tasks takes the former up again.
* A task that the policy blocked and that is requested again ends with a mix of `completed`
  and `failed`, as `policy_blocked` has no way to `planning`.
* Refusing or judging a request takes no lease. The save of such a judgement makes the copy of the
  run that holds the task stale; if a call of its model then fails, the unconditional update
  of `scheduleTaskRetry` writes a count and a lifecycle over it that do not belong to the stored
  execution state, and a later projection can schedule a task beyond its budget.
* Without transactions the event of a retry is visible before `RETRY_DUE` is stored. A run that
  is faster works on a task that is still scheduled, every event of it is illegal, and it
  may end completed with the lifecycle `retry_scheduled`: the scanner claims the task,
  finds the key used and gives it back, in every round (`RetryKeyIsUnused` without `overtake`
  excluded).
* `emitRetryDueShadowState` reads the task and saves it later, and only logs a `VersionError`
  (`retry-shadow.ts:34,75-84`). A request of the task that is refused in between changes its
  status and makes that save fail: the state stays `retry_scheduled` with the key of its count
  spent, without any lease and without a run. With two requests TLC finds this when
  `overtake` does not count such a refusal.
* In its mode `retry` the detectors of two workers can both claim a task
  (`stuck-task-detector.ts:167`), and the slower one sets the count back to what it had read.
* The detector in its mode `retry` undoes a final cancellation, as its claim is followed by
  a write by id alone; two detectors can both claim. A run with a late heartbeat whose call
  of the model fails does the same by the unconditional update of `scheduleTaskRetry`.
* A failed emit after the status `completed` was stored is treated as a failed iteration and
  stores `executing` over it.
* A cancellation that is stored but not enqueued waits for the next event of its task
  (`cancel/route.ts:81`).

## 7. From a message to work

### `WorkSuggestion.tla`

| variable | code |
|---|---|
| `status`, `of`, `tool`, `linked` | `status`, `messageId`, `suggestedTool`, `convertedTaskId` of a suggestion |
| `task` | the task stored under its accept key (unique), named after the request that created it |
| `told` | the outbox events about it: accepted, dismissed, its task created, updated |
| `proposed` | the tasks its tool was proposed for; the idempotency key makes it a set |
| `accepted` | history: suggestions whose accept was answered with success |
| `pc`, `at`, `mine`, `made` | a request's next statement (`over` when it has ended, `dead` when it was stopped), its suggestion, the task it holds, whether it created it |
| `limit`, `mishaps` | the bounds of a behaviour |

A request is a call of `acceptWorkSuggestion`, `dismissWorkSuggestion` or
`assignWorkSuggestion`, and every statement on the database is an action. Any statement may
be the last of its request (`Dies`); the user who tries again is another request. Nothing is
a transaction: what keeps requests apart is the condition of the three updates that decide
(`Convert`, `Strike`), the unique key of the task (`Insert`), and what a loser finds when it
looks again (`Reread`, `Recheck`).

`SuggestionVerdict.tla` is what the people around may rely on: a suggestion is decided once,
and only the verdict that stands is announced. `DecidedOnce` is its specification under the
mapping in `WorkSuggestion.tla`.

### `MessageIntake.tla`

| variable | code |
|---|---|
| `from`, `ai`, `manual` | the queued entry a message was sent from, `aiStatus`, `manualOverride` |
| `sort` | `semanticType` with `semanticConfidence`: `chat`, `task` (a type of work that is sure enough to act on) or `hunch` (one that is not) |
| `event` | the outbox row `message.created` |
| `work`, `asked` | whether it has a task of its own, and an execution request |
| `wpc`, `wmsg` | the worker's place in `processMessageTaskIntelligence` and its message |
| `entry` | the offline queue, in the store and in IndexedDB |
| `here` | the mount of the chat workspace that is on the screen |
| `loop`, `batch`, `cur`, `tries`, `sent` | per mount, the loop that sends the queue again: its place, what it has still to send, what it sends, its attempts, the message whose answer it waits for |
| `cut` | history: entries whose message was posted, and whose sending ended before the page had removed them |
| `twin` | history: entries a loop still had to send when the workspace was mounted again |
| `web` | the request for a new message, per message |

With transactions (`limit.txn`) message and event are stored at once, without them one after
the other. `isResending` is a ref of the mounted `ChatWorkspace`: a loop belongs to a mount,
goes on when the user leaves for another page of the app, and does not keep the loop of the
next mount from starting (`Remount`). The worker reads the message, asks the model, stores the
model's own type when it is no work or not sure enough (`MarkChat`); else it writes a
suggestion, and then either marks the message, or stores a task, links it, marks the message and asks for an execution,
as the organization's mode says. An event whose handling fails, or whose worker dies, comes
again; an overrun gives it to a second worker while the first goes on. A person may override
the classification at any time.

Simplifications: text messages only (the event of any other is done unclassified); one tab,
whose effect sees the queue as it is; the store and IndexedDB change together (IndexedDB
orders its transactions, so that what `loadQueue` reads is never older than a removal the
store knows of); the order of the queue is left open; what the classifier answers, and the mode, are left open
at each use; the second read after a duplicate key in `createWorkSuggestion` is taken with the
insert; message intents and the audit rows of task actions are left out.

### Run

`message_to_work` checks all properties over six kinds of behaviours (`Scenes`), each with its
bound on mishaps (`limit.mishaps`): three requests decide about one suggestion, and one request
or worker dies (`Decide`); two requests, and two deaths (`Falter`); two workers have one event,
with a person overriding and another deciding in between (`Repeat`); two messages are typed
offline and sent (`Send`), one without transactions (`Halfway`), while answers, removals and
the page are lost and the user leaves the workspace and comes back; one is sent and classified
(`Whole`).

Bounds. Three requests are the fewest in which one creates the task, one takes it over and one
dismisses. Two mishaps interrupt an accept and its repetition. Two messages are what a resend
can make of one entry; two rows what a repeated event can make of one message. Two mounts are
a loop and the one that starts beside it; a mount whose loop has ended serves as the next one.
Two attempts are the bound and one below it.

Deadlock checking is off because what is decided, sent and handled stays so. There is no
fairness and no liveness property: a request that dies is not repeated by anybody, and a
queue that was given up is not sent again by itself (see below).

### What was seen

* Two accepts at once without any fault may lose `task.created`: the request that finds the
  task of the other can win the update, and since it did not create the task it does not
  announce it; the other one reads that its task has won and announces only the acceptance.
  A request that dies after it created the task loses the event too.
* A request that dies between task and update leaves a task without a suggestion when the
  suggestion is dismissed; hence the exception for the one that made it in `NoOrphanTask`. Nobody
  else's death leaves one.
* A worker that dies between suggestion and mark, and a decision in between, give the message
  a second suggestion: the unique index is about proposed rows only.
* In the modes that create a task at once, a worker that dies after the link leaves a message
  that is marked already: the repetition of its event does nothing, and the
  execution request and the notifications are never sent (the comment at
  `task-intelligence.service.ts:222` is about the classification only).
* An override between the worker's read and its mark is overwritten, while `manualOverride`
  stays true.
* Without transactions a server that dies between message and event leaves a message nobody
  classifies; a message of the offline queue is then sent again and stored twice.
* A user who leaves the chat workspace and comes back while queued messages are being sent (a
  round of backoffs takes 15 seconds per message) starts a second loop beside the first: what
  the first had still to send is then sent by both, and stored twice, although nothing was
  lost. `QueueLosesNothing` says that, together with a sending cut short, nothing else does.
* The toast at `useOfflineMessageSync.ts:119` says "Retrying automatically."; the loop starts
  again only when the connection or the queue changes.

## 8. Presence

### `Presence.tla`

| variable | code |
|---|---|
| `sockets`, `beats`, `active` | the Redis keys `user_sockets`, `user_presence` (present or expired) and `active_users` |
| `used`, `linked` | the connections a tab has had (`useSocketPresence.ts`, `socket-provider.ts`), and whether it has one |
| `view` | `onlineUsers` in the store of a tab |
| `pc`, `rest`, `found` | the place of a connection's handler (`presenceHandler`), or of the sweep of a pod (`initSocket`), the users it has still to look at or to clear, and those it found online, or stale |
| `leave` | the place of the handler of `disconnect` |
| `disturbed` | history: users whose heartbeat has expired, who have been without a socket, about whom a snapshot got no reply, or whose peers the web server did not name, until a connection begins their presence anew (`Begins`: no other connection of theirs, and nobody about to clear or report them) |

A round trip to Redis is one action: the `MULTI` of `trackSocketConnected` (`Track`), the
`SMEMBERS` and the pipeline of a snapshot (`List`, `Judge`), each `clearPresenceState`
(`Clear`), the three steps of `trackSocketDisconnected` (`Remove`, `Count`, `Wipe`). The
handlers of all connections, of all their ends and the sweeps of all pods interleave. A closed
tab is known to its pod some time later, and the client may have a new connection by then. What a
pod emits reaches the tabs of a user that are connected at that moment, on whichever pod.

A call of Redis can fail in two ways. The `MULTI` of a connection and single commands throw, and
the handler or the sweep ends where it is (`Fail`, the fault `error`). The pipeline of a snapshot
does not throw for the errors of its commands, and `getPresenceSnapshot` reads an error, and a
missing result, as zero (`presence.redis.service.ts:38-39,50-51`): `Judge` may find any set of
users stale who are not, and the caller clears them (the fault `reply`). A reply about a user
who is stale anyway makes no difference.

Simplifications: the peers of a user do not change, and are looked up with the emit;
`socketCount` and `becameOnline` of a new connection are used by nobody; `online_user` and
`user_active_conv` decide nothing here; an answer of the web server that failed is cached as
"no peers" for a minute, which the model has only for the call itself, so that a use of the
cached answer is another fault (the user who announced itself with it counts as disturbed).

### Run

`presence`: two users who are peers, one with two connections one after the other, the other
with one, one pod; a crash of the pod, a late heartbeat, an exception in a handler, a snapshot without some
of its replies or a silent web server, one of them. It checks that connected peers see each other
(`ConnectedSeeEachOther`), that nobody is taken offline without cause
(`UndisturbedStaysOnline`), and that what is left of a user who is gone is removed
(`PresenceSelfHeals`).

Bounds. Two handlers that connect at once are what the order of track, list and announce is
about; the second connection gives a user two sockets for a while, so that the end of the old
one meets the new one. The sweep runs next to the handlers, so a second pod would add a sweep
that competes with the first, which the handlers' own snapshots do already. Connections that
end before their handler has announced them (the fault `hurry`) are left to the proofs, which
have every fault, any number of pods, of tabs and of faults. Each kind of fault needs to
occur once to break something. Deadlock checking is off because everybody may go offline.

Fairness: handlers that were started run on, the sweep comes again (its timer is cleared only
when the server closes), keys of users who do not ping expire. A page is not obliged to do anything.

### What was seen

* The document says (`realtime-messaging-system.md:233`) that a user is stale when the heartbeat has
  expired and there is no socket; the code says "or", and has to: the sockets of a pod that
  died are never removed, and with "and" they would keep the user online for ever
  (`IsOnline_Either`). The document's 60 s are 12 s in `keys.ts`.
* A user who has been interrupted can be connected and yet invisible. If a page is reloaded and
  the end of the old connection is handled around the start of the new one, `Count` may see
  no socket before `Track` and `Wipe` come after it; a sweep that judged the
  user stale before the connection does the same. The pings that follow set only the
  heartbeat, neither `user_sockets` nor `active_users`, so the user stays offline for
  everybody until the next connection. The same holds for a page whose timers were suspended for
  longer than the heartbeat lives. This is why both invariants are about users who are not
  interrupted. An interruption ends: with the first connection of the user that is tracked when
  no other one is and no sweep or ended connection is still to clear the user, they are seen and
  stay online again, whatever had failed before.
* A snapshot whose replies are errors takes users offline who are connected and send their
  pings, in the sweep and in the handler of any other connection, and nothing repairs it until
  they connect anew. Both invariants therefore exclude, besides the interruptions above, a user
  about whom a snapshot got no reply; that it harms nobody else is part of what they say.
* `getActiveUsers` clears the stale users it meets in the handler of a connection, and tells
  nobody: the sweep does not find them any more, and their peers go on showing them online.

## 9. Proofs

All theorems hold for every value of the constants that the named assumption of the
component's module admits. Liveness is outside what the prover handles and stays with TLC.

### `Outbox_proofs.tla` (`OutboxAssumption`)

| theorem | states | needs |
|---|---|---|
| `TypeCorrect` | `[]TypeOK` | any faults |
| `EveryLockIsOwned` | `[]LocksHaveOwners` | any faults |
| `OnlyHandledFinish` | `[]OnlyHandledEventsFinish` | any faults |
| `OneHandler` | `[]OneHandlerPerEvent` | the property is about runs without overruns and expired graces |
| `CompletedStays` | `CompletedIsFinal` | the property is about runs without overruns, expired graces and lost replies |
| `ImplementsDelivery` | `DeliversAtLeastOnce` | `Faithful`, the same three faults absent |
| `AttemptsAreSpent` | `[]AttemptsCountSpentClaims` | `Faithful` |
| `MarkedOnce` | `MarkedIsNotRepeated` | the property is about runs without overruns and expired graces |
| `CleanExit` | `[]CleanExitHoldsNothing` | any faults |

The invariant has these layers, each inductive relative to those before it.

1. `TypeInv`: types, and `BusyInv`: a worker at a point where it works on an event has
   one, in its batch. Without the second part the marker could receive `NoEvent`.
2. `LocksHaveOwners` is inductive as it stands: the step that removes an event from a
   batch has just written its row, and the end of a process orphans all rows it held.
3. `HandledInv`: between the handler and the completing update the success is
   remembered by the position of the loop alone.
4. `HoldInv`: only orphaned rows go stale; a worker that began to stop is idle; a worker
   that is not handing back holds every row of its batch (or has completed it
   without knowing); handlers differ. The third part is what makes the unguarded updates
   harmless, and it is the part that an overrun or an expired grace breaks.

5. `Counted`: one event at a time, the attempts are the spent claims and the one under way. An
   update by `_id` alone keeps that because its worker holds the row (`BusyRows`).
6. `MarkerInv`: a handler is under way only for an event without a marker; the worker that
   could write the marker is the one in the handler.
7. `ReleaseInv`: from when a worker has read what it hands back it claims nothing, and what it
   still holds is on its list, or could not be handed back.

`BusyRows` and `StatusSteps` then say what a step can do to a status, from which the
action property and the refinement follow step by step.

### `Approval_proofs.tla` (`ApprovalAssumption`)

| theorem | states | needs |
|---|---|---|
| `TypeCorrect` | `[]TypeOK` | any faults |
| `OnlyAuthorisedRuns` | `[]RunsAreAuthorised` | any faults, any policies |

`IndInv` follows an approval from the reviewer to the run: the request that enqueues holds
an approved row (`HandsOK`), an approval event stands for an approved row (`EventsOK`), no
such row carries the flag of a manager (`FlagsOK`), and the payload a worker acts on comes
from a reviewer, from a manager or from the ingress and has the flags of that origin
(`JobsOK`). The last part is needed because the payload is read one step before it is
judged and two before the run. `RunVerdict` is the part about the pure decision.

### `ExecutionRun_proofs.tla` (`RunAssumption`)

| theorem | states | needs |
|---|---|---|
| `TypeCorrect` | `[]TypeOK` | any faults |
| `LeaseIsExclusive` | `[]LeaseExcludes` | the property is about runs without late heartbeats |
| `SuccessReal` | `[]SuccessIsReal` | any faults |
| `OneInFlight` | `[]OneReservation` | the property is about `Guarded` runs |
| `SucceededStays` | `SucceededIsFinal` | the property is about `Guarded` runs |
| `AtMostOnce` | `[]EffectAtMostOnce` | `Guarded`, and no tool that fails after the fact |
| `ImplementsLedger` | every step is a step of `CallLedger` or leaves it alone | the same |

The reservation argument (`Kept`) has two branches, as `Guarded` has. Where nothing throws
before the reservation, a worker in a call is the one that set its row to running, and
nobody else writes the row until it does. Where something may throw, no run loses its lease
(`NeverLost`), so the exclusive lease leaves one runner at a time (`OneRunner`) and the
update by key alone hits nobody else's row. `AtMostOnce` adds that a row that may
be reserved again stands for a call without an effect (`Once`). `Account` is all of that; with
it four actions are steps of the ledger, the others leave row and effects alone, and `Spoil`
writes a row that counts as free already.

### `TaskLifecycle_proofs.tla` (`LifecycleAssumption`)

| theorem | states | needs |
|---|---|---|
| `LifecycleTypes` | `[]TypeOK` | any mishaps |
| `SavingRunKnowsKind` | `[]FreshKnowsKind` | any mishaps |
| `ImplementsFSM` | `FollowsFSM` | any mishaps |
| `OneRunAtATime` | one worker at a time runs the task, and holds a lease that is in force | any mishaps but late heartbeats |
| `CancellationStays` | `CancelIsFinal` | the property is about behaviours without late heartbeats |
| `RetriesWithinBudget` | `[]RetryWithinBudget` | ... and without requests judged under a run |
| `RetryKeysUnused` | `[]RetryKeyIsUnused` | ... and without crashes and overtaking |

`Inv` is the types together with `FreshKnowsKind`: a copy, of a run or of a scanner about to
store `RETRY_DUE`, that would pass the version check holds the execution state that is stored
(and a scanner's is one that `RETRY_DUE` changes, `Readings`). It is what makes the refinement
go through, since both compute the next state from their copy, and it is inductive because the writers that leave
the version alone (`scheduleTaskRetry`, the claim of the scanner, the detector) leave the
execution state alone too. The lemmas on `On`, `Merged`, `Started`, `Cancelled` and
`Rescheduled` say which event of the state machine each save amounts to.

The other four need three layers. Each is inductive relative to those before it and holds
`Without` some of the mishaps, whatever else fails (`Layers`); `StepWithout` says that a step
which leaves a mishap absent is not that mishap.

1. `Sole`, without late heartbeats: the lease keeps every worker but one out of the task, as it
   neither runs out under its run nor outlives it, except in the hands of a dead worker
   (`Exclusive`); a final cancellation was asked for and meets no run (`Final`).
2. `Counted`, without judgements under a run as well: what a run holds is what is stored, or
   differs by a claim of the scanner that was undone past the version (`Near`); its own count is
   the stored one, and a run that may not save any more does not meet a scheduled retry
   (`Holds`); a retry that is scheduled, or may be scheduled again, is within the budget. Every
   write of a run is one of `Moves`: the count grows by one at most, and a retry is scheduled only
   with the next count, within the budget (`RunAdvances`).
3. `Calm`, without crashes and overtaking as well: one scanner at a time is between its claim
   and `RETRY_DUE`, no run is, and the write of `RETRY_DUE` is refused only when the retry is no
   longer scheduled (`Scanning`); a retry that is scheduled has an unused key
   (`Budget`), as only counts that were reached have theirs spent (`Keys`).

### `MessageIntake_proofs.tla` (`SuggestionAssumption`, `IntakeAssumption`)

| theorem | states | needs |
|---|---|---|
| `IntakeTypes` | `[]TypeOK` | any mishaps |
| `ConvertedKeepsTask` | `[]ConvertedHasTask` | any mishaps |
| `VerdictIsOne` | `[]OneVerdict` | any mishaps |
| `AcceptLeavesNothingOut` | `[]AcceptIsComplete` | any mishaps |
| `ImplementsVerdict` | `DecidedOnce` | any mishaps |
| `OrphansAreDeleted` | `[]NoOrphanTask` | any mishaps; the property excepts tasks whose maker was stopped |
| `NothingDropped` | `[]NothingIsDropped` | any mishaps, whatever the classifier answers and however sure it is |
| `QueueIsSafe` | `[]QueueLosesNothing` | any mishaps and any number of mounts; stored once unless a sending of it was cut short or a loop still had to send it at a remount |

The invariants, each relative to those before it:

1. `Suggestions`: `RowOK` for each suggestion and `CallOK` for each request. `CallOK` says what
   a request knows at each position, above all that at `Won` positions its task is the one the
   suggestion was converted into, and that at `discard` it is not. `RowStep` is what no step
   does to a suggestion; it keeps what the other requests know true.
2. `Orphans`: a task that is not the one converted into has an `Owner`, the request that made
   it and is still to decide with it or to delete it, or that request was stopped
   (`DeadStays`).
3. `Intake`: a message that is marked as work, surely enough, has its suggestion, and a worker past `create`
   has one for its message.
4. `QueueOK`: where the loops and the server are for an entry that has been posted (`AwaitOK`);
   an entry that is no twin is in the hands of the mount on the screen alone, once, and still
   queued (`HandsOK`); and how many messages an entry can have become (`OnceOK`, about those in
   neither `cut` nor `twin`).

### `Presence_proofs.tla` (`PresenceAssumption`)

| theorem | states | needs |
|---|---|---|
| `PresenceType` | `[]TypeOK` | any faults |
| `StaysOnline` | `[]UndisturbedStaysOnline` | any faults; the property is about users whose presence has not been interrupted since it began |
| `PeersSeeEachOther` | `[]ConnectedSeeEachOther` | the same |

`Calm` is about the users who are to be cleared: whoever is listed and has not been interrupted
has a heartbeat and a socket (`ListedOnline`), so a snapshot finds only interrupted users
stale, or interrupts those it got no reply about (`OnlyStaleCleared`), and of several
connections that end only one that found no socket left wipes the keys (`OnlyLastLeaves`); a
tracked connection therefore keeps its place (`TrackedListed`). A user on the way from the
list to the verdict may have been cleared by somebody else, which is why a list is within
`active \cup disturbed` only. `Track` may end an interruption, as nothing of the user is then
under way (`Begins`). `Met` is the argument about the order: each handler tracks itself before
it lists, so of two peers whose handlers are under way, one is still to find the other, or
both have been told. `MetKept` says which steps cannot disturb it; `List`, `Judge`, `Announce` and `Track` are the others.

### Only model-checked

The liveness properties: `EveryEventSettles`, the three of `Approval`, `WorkIsDone` and
`PresenceSelfHeals`. Every safety property of a passing run has its theorem.

## 10. Left out

* Of the outbox: what handlers do (sections 4 to 7 model those about execution,
  cancellation and messages), the payloads, the batch's walking order (left open), the
  partition hash (a constant `Share`; runs use overlapping partitions, the harder case), the
  backoff's length. In `Archive` the retention periods are assumed to outlast a claim and a
  marker, as their defaults do.
* Of the dispatcher: the relay of `task.created` and `task.updated` to the socket server,
  which stores nothing.
* Of the agent loop: the persistent runner (`runTaskPersistent`), which is off unless
  `TASK_AGENT_PERSISTENT_LOOP_ENABLED` is set and gives up in its first iteration (section
  5); prompts, planning and verification, whose answers are left open.
* Of the organizations: invitations, memberships and the quota counters. The code counts,
  compares and creates later, without a reservation, so nothing could be claimed of
  simultaneous requests; policies, grants and the quota's verdict are parameters of
  `ExecutionPolicy`.
* Authentication (sessions, one-time codes): the modules take the actor as given.
* User interface, LLM providers and prompts, observability: no state of their own that a
  property could be about.
* Of the socket server: the relay of messages, receipts, typing and calls, which only hands on
  what the database holds, the rooms of conversations, and the active conversation of a user.
* The mobile client: it connects and pings as the web client does, and keeps its list of online
  users in a store of its own; it has no offline queue.
