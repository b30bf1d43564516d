# Codemation engine: TLA+ models and proofs

Codemation runs workflows: graphs of nodes through which batches of items flow. This directory
holds TLA+ models of the engine's core (`src/packages/core`) and of the host parts it depends on
(`src/packages/host`): persistence, queueing, human tasks, polling, test suites, credentials and
MCP connections; the TLC configurations that check them; and TLAPS proofs about them. Paths below
are relative to `src/packages/` unless they begin with `src/`.

## 1. Inventory

| Part | State it keeps | Operations | What makes it correct | Module |
| --- | --- | --- | --- | --- |
| Run continuation (`core/src/orchestration/RunContinuationService.ts`, `execution/ActivationEnqueueService.ts`, `NodeSuspensionHandler.ts`, `NodeExecutor.ts`, `InProcessRetryRunner.ts`) | none of its own: every handler loads the run record, awaits, and saves it | markNodeRunning, resumeFromNodeResult, resumeFromNodeError, resumeRun, handle (suspension), enqueue and dispatch | an activation continues once, a finished run stays finished, no branch is lost, the budget holds, every pending run has a carrier | `RunContinuation`, `RunLifecycle` |
| Node state writer (`core/src/execution/NodeRunStateWriter.ts`) | a promise chain per execution | mark*, setChildRunId, appendConnectionInvocation: load the record, save it | a report does not undo what a handler saved | `RunContinuation` |
| Run store (`host/.../PrismaWorkflowRunRepository.ts`, `core/src/runStorage/InMemoryWorkflowExecutionRepository.ts`) | run row with a revision, work items for the pending node and the queue | createRun, load, loadSchedulingState, save (merging on conflict) | a reader gets what was saved; a stale writer does not undo a newer one | `RunContinuation`, `RunQueuePlanner` |
| Work queue (`host/.../scheduler/bullmq/*`, `core/src/scheduler/DefaultDrivingScheduler.ts`) | jobs in Redis | enqueue, process, acknowledge, stall | a job is processed at least once | `RunContinuation` |
| Planner (`core/src/planning/RunQueuePlanner.ts`, `WorkflowTopologyPlanner.ts`, `execution/RunStateSemantics.ts`) | the run queue: jobs and collects | applyOutputs, nextActivation, applyPinnedQueueSkips | each node once, in graph order, with its inputs | `RunQueuePlanner` |
| Run start, frontier planner (`core/src/orchestration/RunStartService.ts`, `planning/CurrentStateFrontierPlanner.ts`) | none | runWorkflow, runWorkflowFromState: reset, stop node, frontier | a run from a state executes what is missing and stops where asked | `RunFromState` |
| Inline scheduler, waiters (`core/src/scheduler/InlineDrivingScheduler.ts`, `orchestration/EngineWaiters.ts`) | queues and draining marks per run; resolvers per run | dispatch, drain, waitForCompletion, resolve | no activation lost or driven twice, every waiter answered | `InlineRuns` |
| Test suites (`core/src/orchestration/TestSuiteOrchestrator.ts`, `host/src/application/runs/TestSuiteRunTracker.ts`) | slots, the event chain, counters | run, abort, track, finalize | the suite ends, the counters equal the outcomes | `TestSuite` |
| Human tasks (`host/src/application/hitl/*`, `host/src/hitl/*`) | task rows, timeout jobs | decide, callback, time out, a timeout job that fails or stalls | the verdict that reaches a node is of a task its run waited for, a pending task has its timeout job, no resolved task leaves its run waiting | `HumanTask` |
| Polling triggers (`core/src/triggers/polling/*`, `orchestration/TriggerRuntimeService.ts`, `host/.../TriggerSetupStateRepository`, the Gmail and Outlook triggers) | active, busy and interval maps, saved window | activate, deactivate, set up, cycle, restart | one cycle at a time, no message lost or emitted twice, the loop follows the activation | `PollingTrigger` |
| Credentials (`host/src/credentials/*`, `domain/credentials/*`) | material rows, the refresh in flight, cached sessions | read and refresh, consent, push, disconnect | one refresh at a time, the stored token is one the provider takes, what is kept agrees | `Credentials` |
| MCP connections (`host/src/mcp/McpConnectionPool.ts`, `McpClientFactory`) | pooled clients, openings under way | getClient, closeAll | one client per server, nobody waits for what has ended | `McpConnections` |
| Retention, websocket, event bus, node library, AI agent loop, canvas and UI, managed authentication, CLI, scaffolding | | | | not modelled (section 6) |

How they interact. `RunStartService` creates the record, makes the trigger the pending activation
and dispatches it. A dispatch is a BullMQ job, or a callback of the inline scheduler. The worker
handles the request (`NodeExecutionRequestHandlerService`), executes the node, and calls the
continuation, which reloads the record, plans the next activation with the planner, saves and
dispatches. A node that asks a human saves the record as suspended; `resumeRun`, called by the HITL
services, re-activates that node with the verdict. All of them share one mutable object, the run
record, and nothing locks it: the hard behaviours are what was read before an `await` and used
after it, redelivered jobs, crashes between saving and dispatching, and what the repository does
with a conflicting save. A polling trigger starts runs, a test suite starts runs and waits for
them, an agent node asks the pool for clients whose token the credential reader refreshes: there
the hard behaviours are promises kept in maps, and maps cleared while something is in flight.
`PROJECT.json` lists these hazards at their lines.

## 2. Modules

```
RunLifecycle <-- implemented by -- RunContinuation <-- EXTENDS -- HumanTask
                                        ^                         ^
    RunContinuationProof, ...Activations, ...Once                 HumanTaskProof
RunQueuePlanner <-- EXTENDS -- RunFromState;  RunQueuePlanner <-- RunQueuePlannerProof
InlineRuns      <-- EXTENDS -- TestSuite      <-- TestSuiteProof
Credentials     <-- EXTENDS -- McpConnections <-- McpConnectionsProof
PollingTrigger  <-- PollingTriggerProof
```

Every repository call, and every other `await` a handler can be overtaken at, ends a step; what
happens between two awaits is one action. History variables and exceptions named in a property
(`harmed`, `orphaned`, `stale`, ...) are set by the actions that model the accident, and the
comment of the property lists them. Each variant operator stands before the definition it varies,
says what it changes and is used by no specification; it is a plausible bug the property named in
`PROJECT.json` must notice.

### RunContinuation

One run, its record, its jobs and the processes that work on it.

| Model | Code |
| --- | --- |
| `run` | the stored `PersistedRunState`: revision, status, pending, queue, `suspension`, `pendingResume`, whether there is a `reason`, `completedNodeActivations` |
| `jobs`, `stalled` | BullMQ jobs by activation; which have stalled once (a second stall fails the job) |
| `worker[w]` | one job processor: its program counter, the request it holds, what it has read of the record, the attempt, what execute returned |
| `resumer[r]` | one call of `Engine.resumeRun` |
| `starter` | `Engine.runWorkflow` |
| `acts`, `nodeOf`, `tasks`, `faults`, `won` | ids handed out, history variables and the fault budget |

`load` and `loadSchedulingState` are issued together by `Promise.all` and may complete in either
order, so `Read` takes one of the two parts, or both. `Saved` is `save` in both repositories: the
in-memory one overwrites; the Prisma one compares revisions and, when they differ, merges the
writer's record over the latest. The literal that `ActivationEnqueueService` saves carries no
revision and therefore always merges. `Merge` keeps the optional HITL keys the writer's record
lacks, and `LoadedKeys` says which keys a loaded record has. `ReportLoad` and `ReportSave` are
`NodeRunStateWriter`: a node in `ReportingNodes` (an agent, a sub-workflow node) loads the whole
record while it executes and saves it with a snapshot added, without looking at what it is saving
over. Its writes are serialised among themselves and awaited before the node returns, so one
report per handler, at any time of the execution, stands for all.

Faults are actions: `Stall` (BullMQ delivers the job again because its processor died, or because
it was slow and lost its lock while it goes on), `DispatchFails` (Redis refuses the job).

Left out, and why it does not matter to the properties: items (a node emits some or none), the
content of snapshots and events (never read by the control flow), stop conditions
(`RunFromState`) and the webhook control path (another end of a run), errors thrown by the
planner, and graphs with joins (`RunQueuePlanner`). Every node has one inbound edge here. The
Prisma repository's third failing attempt to save, which throws, is not modelled: the merge is made
against the record as it is then. A load of the Prisma repository reads two tables and is taken as
atomic.

### RunLifecycle

The abstract run: it waits for one activation at a time, always a new one; leaves it by making the
next (`Proceed`, which counts), by suspending or by ending; resumes with a new activation; ends
once; and proceeds only below its budget. `RunContinuation` instantiates it with
`status <- run.status, activation <- run.pending.act, made <- acts, count <- run.count` and claims
`ImplementsLifecycle == Lifecycle!Spec`: every save of a handler, however stale what it read, is a
step of the abstract run or a stutter. That is the strongest statement about the record, and where
it fails says what the code does not protect (section 3).

### HumanTask

Composed with `RunContinuation`, which it extends: `row[t]` is the `HumanTask` row, `timer[t]` the
delayed job `hitl_timeout__t`, `caller[r]` a request or timeout job that uses `resumer[r]` for its
`resumeRun`. `NodeSuspensionHandler` becomes `Deliver`, `CreateRow`, `EnqueueTimeout` and only then
`SuspendSave` (`WorkerGoesOn` adds the guard). `PersonReads` is `DecideHumanTaskCommandHandler`'s
check, `Mark` its `markDecided`, `CancelTimer` the removal of the timeout job (which BullMQ refuses
when the job is active; the handler then throws and never resumes the run), `CallResume` and
`ResumeGoesOn` the resumption. `TimerFires`, `TimerReads`, `Mark` are `HitlTimeoutWorker`;
`PlaneReads`, `Mark` the callback route of a paired control plane, which marks the task timed out
and does not resume the run. Checks of tokens, sessions and schemas are left out: a request that
fails one changes nothing.

A timeout job has one attempt, `removeOnFail`, and BullMQ's one stall
(`host/src/hitl/HitlTimeoutJobScheduler.ts:42`): `delayed`, `active`, `stalled`, `retried`, `gone`.
`CallerThrows` is a read, an update, the queue or the load of the run throwing, in a request or in
a processor, whose job is then failed and removed; `CallerCrashes` a process that dies, which
leaves the job locked until `TimerStalls` finds it; a processor that is only slow loses its lock
there and goes on, beside the redelivered job. A processor can remove the job only while it holds
the lock (`Holds`, `JobEnds`). Without a queue (`TimeoutQueue = FALSE`, the local scheduler)
`EnqueueTimeout` creates nothing, as `enqueueTimeoutJob` does, and no task ever times out. `asked`
keeps the suspension entries that were ever saved in the run, to tell a task the run waited for
from an orphaned one, whose worker died before the save.

### RunQueuePlanner

One run's way through a graph with joins. `queue` holds the entries as the planner sees them:
plain jobs, and collects with the inputs they expect and have received. `Complete(full)` is a
planning step of `resumeFromNodeResult`: `applyOutputs` over the completed node's edges, where an
empty output propagates through the nodes it skips; `applyPinnedQueueSkips`; `nextActivation`,
which takes a complete collect, else the first job, else seals the first collect; and the trip of
the rest of the queue through the repository. `store` says which: the in-memory one keeps entries,
the Prisma one (`Reloaded`) rebuilds an entry from the inputs it has received.

`Completes`, `Carries` and `Ancestors` are the reference: what the graph and the emitted items ask
for, computed without a queue. Graphs are acyclic, as the engine rejects cycles at planning time.
What walks the graph is written as recursive functions, over the edges walked and the entries
skipped, so that the prover can reason about it. `ApplyOutputs` takes the edges of an agenda one by
one, in the order in which `enqueueEdge` and `propagateEmptyPath` call each other; no edge is walked
twice, so the number of edges bounds the walk (`ApplyOutputs`, proved as part of
`ApplyOutputsKeeps`). `MostSkips` bounds the loop of `applyPinnedQueueSkips`.
Left out: batches (a run has one), trigger nodes as targets of edges.

### RunFromState

Extends `RunQueuePlanner`: a first run goes on for as long as it likes, then a second one starts
from its state (`round` 2) with the pinned outputs, the cleared node and the stop node of the
request. `AfterReset` is `resetFromNodeId`, `RequiredFor` the walk back from the stop node over
what is neither pinned nor completed, the frontier and its queue are those of
`CurrentStateFrontierPlanner`, `reached` is the stop condition the continuation tests when a node
completes. Left out: agent-owned nodes cleared with their agent, states a caller makes up, and the
run record that stays behind when a plan is refused.

### InlineRuns and TestSuite

`InlineRuns` is `InlineDrivingScheduler` with the part of the continuation it drives:
`queue`, `scheduled`, `draining` and the `setImmediate` callbacks per run, one record per drain in
progress, the waiters of `EngineWaiters`. A waiter reads the record and registers in two steps, as
the code does. `TestSuite` extends it: the `for await` loop with its slots and its one shared
promise, the abort, `runOneCase` (`CaseStarts` to `CaseSettles`), and the tracker, which takes the
events of `bus` one at a time, keeps early assertions until the case is announced, and is awaited
once by `Finalize`.

### PollingTrigger

`command[s]` is a `syncWorkflowTriggersForActivation` (`Sync` stops the handles and applies the
policy; then `LoadPrevious`, `Setup`, whose first cycle is part of it, and `StoreResult`), `loop`, `busy` are the maps of
`PollingTriggerRuntime`, `cycle[c]` a `runCycle`: load, poll, save, emit. `helper` says whether the
trigger is written by hand (Gmail: the first poll takes the mailbox for old) or with
`definePollingTrigger` (as Outlook's is: the seed is a fallback state). A restart empties the maps and activates
from the database. The window is a set (the cap of 2000 ids is not modelled); the query, the page and
the order of arrival are.

### Credentials and McpConnections

`Credentials` is one OAuth2 instance: `store` its material, `reader[r]` a `readMaterial`, `flight`
the refresh shared through `inFlightRefresh` (one map per process), `writer[w]` a consent callback, a push
of the control plane or a disconnect, `session` the cached session of the API process. The provider
is external: `issued`, `expired` and `accepted` say what it takes; it may rotate refresh tokens or
not. A refresh ends in one of five ways: saved, refused, failed before the provider took the token
(`RefreshFails`), answered by the provider but the answer lost (`AnswerLost`, the same catch in
`doRefresh`), or not saved (`SaveFails`, which is also a process that dies there). The three writers make two
writes each, the material and the status (in the other order for a disconnect), and can fail or be
cut off before, between or in them (`WriteFails`); the push swallows the failure of its second one.
`pushed` marks material written by the push, whose keys (`access_token`, `refresh_token`,
`expiry`) the reader does not look at. Consents and pushes meet on one instance only if it was
connected here before the host was paired: a paired host answers a consent's callback with 400, and
one that is not has no push endpoint. `McpConnections` extends `Credentials`: `pool`, `opening` and
`closing` are the maps of `McpConnectionPool`; its callers are the readers.

### Model-checking and proof modules

`RunContinuationMC` has a fan-out (fetch feeds ask and log; ask feeds send) in both edge orders,
where ask asks a human; `HumanTaskMC` two approvals in a row. `RunQueuePlannerMC` builds every
graph whose edges go from a smaller node to a larger one, within the sets a configuration gives;
`RunFromStateMC` adds the pins and the stop nodes of the second run. `TestSuiteMC`,
`PollingTriggerMC` and `McpConnectionsMC` name small instances. The modules whose names end in
`Proof`, and `RunContinuationActivations` and `RunContinuationOnce`, hold theorems (section 4); each extends the module it is about.

## 3. Runs

| Run | Instance | Properties |
| --- | --- | --- |
| ContMemory | fan-out with an approval, in-memory store, two resumes, a reporting node (54 thousand states) | `TypeOK`; `PendingHasCarrier`: somebody will continue a pending run; `ApprovalsAgree`: the documented HITL invariants of the record |
| ContPrisma | fan-out with an approval after the other branch, reports, error handler, Prisma store, two refused dispatches, fair (2 thousand) | `DecisionNotAskedAgain`: a decision is consumed, not asked for again; `PendingRunSettles`: a run ends or waits for a human, when a continuation's dispatch is refused too; `ImplementsLifecycle` |
| ContFanOut | fan-out without approvals, retries, error handler, reports, two crashes or refused dispatches (125 thousand) | `BudgetRespected`, `OneContinuation`, `ActivationsMatch`, `NoBranchDropped`, `ImplementsLifecycle` |
| HumanTask | two approvals in a row, three tasks, decision, timeout and plane callback, callers that throw, one crash or lost lock, timeout jobs that stall twice, fair (1.1 million) | `TaskTypeOK`; `VerdictIsOfItsTask`; `PendingTaskHasTimer`; `NoAnswerStranded`; `AnsweredRunMovesOn` |
| PlanFive | all graphs of five nodes, one trigger | `TypeOK`, `ActivatedOnce`, `InputsArrive`, `GraphOrder` |
| PlanAll | all graphs of four nodes, both stores, pins, continue-when-empty, all kinds of joins, one or two triggers | `RanWhatItShould` |
| FromState | all graphs of four nodes, run again from every state they can stop in (163 thousand) | `RunsWhatIsMissing`, `RunsUpToTheNode` |
| Suite | two cases, two nodes a run, one slot or two, one fault or abort, fair (1.0 million) | `SuiteTypeOK`, `EachRunIsDrainedOnce`, `EveryWaiterAnswered`, `CountsMatchVerdicts`, `SuiteEnds` |
| Polling | two activations or deactivations at once, one interval cycle, two messages on pages of one, two faults, fair (1.4 million) | `TypeOK`, `CyclesDoNotOverlap`, `NothingTwice`, `WindowIsAccountedFor`, `LoopFollowsActivation`, `NewMessageEmitted` |
| Connections | two agents in one process or two, two servers, two writes, two tokens, a pool that may close, one fault of any kind (3.5 million) | `McpTypeOK`, `HandedInOnce`, `StoredTokenIsAccepted`, `ConnectionAgrees`, `OneClientPerServer`, `PromisesSettle` |
| FindSecondVerdict | one task, two callers | `OneResolution`, which TLC refutes |
| FindHalfJoin | all graphs of four nodes, run again | `InputsArriveAgain`, which TLC refutes |

The two findings. Tokens are said to be single-use, with a 409 for the second caller
(`host/src/hitl/HitlResumeTokenSigner.ts:12`, `HitlCallbackHandler.ts:34`); but `decide`, the
timeout worker and the callback test the status they read and update the row by its id, so the
second of two that read it in time replaces the verdict. And a join is said to activate only when
its inputs are satisfied (`core/docs/engineBehaviorContract.md:11`); but when a run starts from a
state and one branch into a join runs again, the items the state holds for the other branches are
not put into the new collect, which is sealed with them empty.

### Which property holds where

Found by running other combinations of the constants. Each says what the code does not protect.

- In-memory store, two resumes, no faults, fan-out: `ImplementsLifecycle` and `NoBranchDropped`
  fail. The stale second resume of a task can revive a finished run, and `resumeRun` enqueues with
  an empty queue, so branches that waited never run. If the approving nodes report too
  (`ReportingNodes = {ask, send, fetch}`), `PendingHasCarrier` and `ApprovalsAgree` also fail: a
  report that loaded the record before another handler ended the run writes the old pending
  activation and decision back.
- Prisma store, no faults: the first part of `ApprovalsAgree` fails (the enqueue literal omits an
  empty `suspension`, which the merge then keeps); with two resumes and a budget of three,
  `BudgetRespected` fails: the stale resume revives a run past its budget.
- No approval nodes, crashes and refusals: all but `PendingHasCarrier` hold. A worker that dies
  between saving the next activation and dispatching it leaves the run pending for ever; its
  redelivered job finds another pending activation and is dropped.
- No approval nodes, a lost lock: `BudgetRespected` and `ActivationsMatch` hold (and are proved,
  section 4); `OneContinuation`, `ImplementsLifecycle`, `PendingHasCarrier` and `NoBranchDropped` do
  not. Two processors save a continuation of one activation, and the revision check merges the
  second instead of refusing it.
- `ImplementsLifecycle` further fails when a node with retries suspends (the suspension is retried
  and asks a second time), and on the Prisma store when a crash comes before a suspended activation is
  acknowledged: its job is delivered again, and the handler that reads the record and the scheduling
  state in two steps, one before and one after the answer, takes the run for its own. Without crashes
  and retries, or without retries in memory, it holds as long as a task is resumed once (and is
  proved, section 4).
- Approvals and a crash: `DecisionNotAskedAgain` fails. `ClearResume` takes the decision out of the
  record before the node executes, and the redelivered job finds none.
- Refused dispatches end the run (`PendingRunSettles`) only in a continuation: `runWorkflow` and `resumeRun`
  throw and leave their run pending (`ThrownAtCaller`). With a crash the property fails: a worker that
  dies between the save and the dispatch leaves its run pending for ever.
- HumanTask: `NoAnswerStranded` names its exceptions in `Harm`. A decision that arrives after the
  task's row is created and before the run is saved as suspended is refused by `resumeRun` and is
  lost; a timeout job that is active when a decision removes it makes `decide` throw after
  `markDecided`; the plane's timeout marks the task and never resumes; a crash or an error after
  marking. No action ends the wait of a run whose answer was stranded so. The caller of such a task
  may have been a timeout job that was redelivered: it finds the task resolved and returns.
  `PendingTaskHasTimer` names its exceptions in `lost`: a timeout job whose processor threw, or that
  stalled twice, is removed with the task still pending, and that task never times out. In local mode
  there are no timeout jobs at all and the property says nothing, as it must: the scheduler's
  documentation accepts that (`.changeset/hitl-timeout-scheduler-redis-gating.md`).
  `VerdictIsOfItsTask` asks for a task that the saved run was suspended with for this node. It does
  not ask for the wait that was answered: a second caller of an earlier approval of the same node can
  still resume it (`resumeRun` takes any entry in the record), which is what `FindSecondVerdict` is about.
  With two workers and a lost lock it fails beside `Harm`: a second processor of an activation saves
  the run as suspended again, with an entry that was answered meanwhile. With `MaxAttempts = 2` and
  `ReportingNodes = {first, second}` it fails with one worker: the attempt that follows the saved
  suspension reports from a copy it loaded before `resumeRun`, and its save puts the wait back.
- Planner: with a pinned join (`PinJoins`) `GraphOrder` and `ActivatedOnce` fail, for the pinned
  join is skipped on its first input; with a second trigger and reversed edge order `GraphOrder` and
  `InputsArrive` fail, for the first incomplete collect is sealed even when its missing input would
  come from another collect; on the Prisma store a join with one received input is reloaded as a plain
  job and runs before its other branch.
- RunFromState: `RunsWhatIsMissing` has conditions, each of which a counterexample asked for. A
  join behind a branch that was not taken gets no entry (`NoBranchIsLeftOut`); a node below a pinned
  one that is in the frontier together with a node above it executes twice, so there are no pins in
  this property; on five nodes, nested joins sealed out of order execute twice. A stop node that is
  pinned is skipped and the run goes past it; a pinned join below the stop node lets another branch
  through; with a second trigger the root takes over the plan, or "Ambiguous frontier" is thrown
  after `createRun`, leaving a record that never ends. The frontier's `usesCollect` does not look
  at `executeMulti`. The property was also run on five-node graphs of five and six edges.
- Suite: with the Redis bus the tracker can be given events after it was finalized, and the counts
  are short. A throwing case makes the loop or its `Promise.all` reject while other cases are in
  flight; the comment at `TestSuiteOrchestrator.ts:69` says they are awaited. The suite ends as
  "errored", of which `CountsMatchVerdicts` does not speak. A late
  `waitForCompletion` can drop an assertion (`TestSuiteRunTracker.ts:44`).
- Polling: `stop` frees the busy mark of a cycle that is still running; `StoreResult` can overwrite
  or delete what a newer cycle saved (after a failed first cycle the deleted row makes the Gmail
  trigger take the mailbox for old again, losing mail, while `definePollingTrigger` falls back to
  its seed); a stop during the first cycle is undone by the loop that `setup` then starts
  (`PollingTriggerRuntime.ts:44`). A crash or a failed emit after the save loses what was
  to be emitted, and a burst larger than a page is never listed. The properties count exactly these
  as lost.
- Connections: the push writes keys the reader does not look at, and without a refresh token it
  looks for the existing one under `refresh_token`, which only a push writes (`Preserved`), so that of a
  consent is dropped; `InternalCredentialsPushRegistrar.ts:27` says "the existing one is preserved".
  `StoredTokenIsAccepted` therefore does not say that there is a refresh token. The single flight and the session cache are
  per process, so with two processes a rotated refresh token can be handed in twice; the save of a
  refresh upserts the material after a disconnect (`crossed`). An answer lost after the provider rotated
  the token leaves the old token in the store, and the next read hands it in again (`stale`), after
  which no refresh succeeds. A write that fails between its halves leaves material without the status
  "ready", or a draft with material, and a session of the old connection (`torn`); the next write
  that ends puts all three right, and until then `ConnectionAgrees` says nothing. The pool keeps the bearer a client was
  opened with; `closeAll` during an opening leaks the client.

### Bounds and why they are enough

RunContinuation. Activation ids (`MaxActs`) and tasks (`MaxTasks`) end the exploration when they are
handed out: six ids are two more than a fan-out with a retry uses, seven let two resumes race and the
run go on after it. Two workers are the processors that can hold the same activation; a third adds
nothing to a property about one activation's two handlers. Two resumers are a decision and a timeout
of one task, or decisions of two. Two faults let the recovery from a fault be disturbed; one lost
lock is what brings two processors to one activation (BullMQ fails a job that stalls twice). A
budget of three is reached inside the fan-out.

HumanTask. Two approvals let a verdict reach the wrong node, three tasks let a node ask again after a
crash, so that there is an orphaned task, two callers race for one task. Two of them are
also the timeout job's processor and its successor after a stall. Stalls of dead processors, and the
second stall of a job, are not counted as faults, so that one fault is enough for a job to be given up.

Planner. Four nodes make a join behind branches of different length and five two joins in series or
in parallel; two outputs, one pinned node per kind and both edge orders cover every branch of
`enqueueEdge` and `nextActivation`. FromState starts from each reachable state of a first run, to
each node and with each subset of two nodes pinned.

Suite. Two cases share two slots or queue for one; two nodes make a run that is dispatched again
while it is drained, and two drains of one run are what would overlap. One fault at a time: a suite
whose case threw does not launch another.

Polling. Two commands are a deactivation that crosses an activation, and one interval cycle can
outlive both; two messages on pages of one make a burst; two faults are a failed cycle and a
restart.

Connections. Two readers share a refresh or race in two processes; two writes are a disconnect
that crosses a consent or a push, or a failed write and the one that repairs it; two tokens let a
refreshed token be refreshed, after which the model's provider refuses; two clients are the leaked one and its successor.

### Fairness

`FairSpec` of RunContinuation: `Start`, the workers' own steps and a resume that was called are
weakly fair: Node's event loop runs a handler whose promise is resolved, and BullMQ feeds an idle
processor as long as a job waits. `ResumeCall` is not: nobody promises that a human answers, so a
suspended run counts as settled.

`FairTaskSpec`: only callers that began go on. Timeout jobs are not fair: `HitlTimeoutWorker` is
registered (`host/src/bootstrap/AppContainerFactory.ts:940`) and its `start()` is called nowhere in
`src/`, and without Redis there is no queue at all. Nor is it fair that a stalled job is found.
`AnsweredRunMovesOn` therefore speaks of a task that was
answered.

`FairSuiteSpec`: the loop, the tracker, each case and each drain go on (event loop); faults and aborts
are not fair. `FairSpec` of PollingTrigger: commands and cycles that began go on, and an interval
that is set ticks. Connections is safety only.

Faults are never fair. Deadlock is not checked: runs and requests end, and what ended stops.

## 4. Proofs

`tlapm` checks the theorems below for all values of the constants that satisfy the modules' named
assumptions: any workflow, number of workers, callers, cases, drains, messages, agents, servers and
writers, both stores, all faults and any bounds. A hypothesis of a theorem is stated with it. Every
invariant was checked with TLC on a run's instance before it was proved.

### RunContinuation (`GraphAssumption`, `LimitAssumption`)

- **TypeCorrect** (`RunContinuationProof`): `Spec => []TypeOK`. `TypeOK` is inductive as it
  stands. The lemmas state the type of each record operator (`Saved`, `Merge`, `MergeTerminal`,
  `Enqueued`), of each handler update, then of each group of actions.
- **BudgetCorrect** (`RunContinuationProof`): without approval nodes,
  `Spec => []BudgetRespected`. The property alone is not inductive, since a stale copy of the
  record could be written back. `BudgetInv` says that every copy of the record, in the store and in each
  handler and report, is within the budget, and that no handler is about to suspend. The hypothesis
  is needed for this theorem, which allows every fault: with approval nodes a second resume of one
  task goes past the budget (section 3). BudgetKept below admits approvals and excludes those instead.
- **ActivationsCorrect** (`RunContinuationActivations`): `Spec => []ActivationsMatch`, under every
  fault and with reports. `MatchInv` extends the pairing of activation and node to every stale copy
  that a handler, a report or a resume may save and to every job; the record operators preserve it
  (`Made...` lemmas), and new ids only extend it (`Grow`).
- **ContinuedOnce**, **BudgetKept**, **LifecycleImplemented** (`RunContinuationOnce`), with approval
  nodes or without: if `Undisturbed`, `Spec /\ []ResumedOnce` implies `[]OneContinuation`,
  `[]BudgetRespected` and `ImplementsLifecycle`. `Undisturbed` excludes lost locks and, for workflows
  with approval nodes, retries in process and crashes on the Prisma store: either makes a handler ask
  a second time (section 3). `ResumedOnce` says that no two calls of `resumeRun` save a resume for
  one task. The callers do not guarantee it, since they mark the row without comparing it again
  (section 3, `FindSecondVerdict`), and without it these properties fail. It holds of itself without
  approval nodes (`NobodyAnswers`) and with one call (`OneCaller`).
  The code has no lock on the record; the job stands in for one, and while the run is suspended the
  entry of its task. `OnceInv` says that an activation's job is with one processor at a time
  (`Apart`), that a processor past its check works on the activation the run waits for (`Placed`),
  and that what it has read of a run that still waits for its activation is what is stored (`Fresh`),
  so a stale read is found out before anything is saved. A call that has read a suspended run has read
  the run as it is, or only entries of tasks that were resumed (`Called`), because a suspended run waits
  for at most one task that was not (`WaitsForOne`). Each step then has one of six effects on the
  record (`Keeps`, `Begins`, `Moves`, `Suspends`, `Awakens`, `Ends`), and the three properties follow
  from the effect.
- **PendingCarried**: the same without faults gives `[]PendingHasCarrier`. A crash between saving and
  dispatching breaks it (section 3).
- **BranchesKept**: without approval nodes and lost locks `Spec => NoBranchDropped`, from the effects. `resumeRun`
  drops the queue, so approval nodes have to be excluded.
- **ApprovalsConsistent**: with the in-memory store, `Undisturbed` and `[]ResumedOnce` give
  `[]ApprovalsAgree`. `ResumeInv` follows the decision: it is on the record only for the pending
  activation, a handler past the splice works on a record without one, and nobody holds a copy
  that could bring it back. `SoleInv`: every copy of the record has one entry if it says
  "suspended" and none otherwise. On the Prisma store the merge keeps answered entries (section 3).
- **NotAskedAgain**: if no processor dies (and `Undisturbed`, `[]ResumedOnce`),
  `[]DecisionNotAskedAgain`, for both stores. `HeardInv` follows an activation made for a decision: while
  its job waits the decision is on the record, a handler about to check finds it there, and one that is past
  the splice holds it. A processor that dies after `ClearResume` takes the decision with it.

### RunQueuePlanner (`PlannerAssumption`, `AcyclicAssumption`)

- **PlannerTypes** (`RunQueuePlannerProof`): `Spec => []TypeOK`, no hypotheses.
- **PlannerActivatesOnce**, **PlannerLosesNoInput**, **PlannerRunsWhatItShould**,
  **PlannerKeepsGraphOrder**: `Spec /\ Regular => []ActivatedOnce`, `[]InputsArrive`,
  `[]RanWhatItShould` and `GraphOrder`, for every acyclic graph with any number of nodes and edges, in
  any edge order, with any outputs and ports, joins of both kinds, pinned nodes and nodes that
  continue without items. `Regular` is about the run that starts: the in-memory store, no node
  without inbound edges but the trigger, no pinned join. Each of the three is needed; section 3 says
  how the code breaks the properties without it.
- The invariant. `Accounts` names the nodes that are `done` (they completed or were skipped for their
  pins) and `passed` over (an empty path went through them); one is busy at most. `Sound` says that
  these and the queued nodes are all different (`Apart`); that every edge out of a done or passed node has
  *fired*, which put its target into the queue unless it was passed, and that every edge into a done,
  passed or busy node has (`Entered`); that an entry holds the inputs of exactly the edges that fired,
  with items where the edge carried some (`EntryFits`); and that a node is passed just when its only
  edge is empty and its source does not continue (`PassedOver`).
- The argument. A walk fires the edges of its agenda one by one (`EnqueueEdgeKeeps`), in any order
  `Sound` allows, and the agenda lists the open edges, each once (`WalkSound`, `Lists`), so it is
  empty after as many steps as there are edges (`ApplyOutputsKeeps`). A pinned entry that is skipped makes
  its node done (`SkipKeeps`); the loop ends because each skip adds an edge to those into done
  nodes (`SkipPinnedKeeps`). The heart of it is `NextHasAll`: whatever `nextActivation` takes has all its inputs.
  That is plain for a ready collect and for a job. If nothing is ready, some node that is neither done nor passed
  has all its predecessors done or passed, because the graph has no cycle; it is not the trigger, so an edge into
  it has fired and its entry is complete (`NeverStuck`): sealing never happens. `BehindIsSettled` and
  `SettledRight` are inductions along the graph.
- Induction. The prover cannot use induction theorems over predicates, but it can use induction over
  sets: `Induction` is derived from the well-foundedness of `Nat` with `WFMin`, and along the graph
  from `AcyclicAssumption`, which states that a set of nodes has a first one (`FirstNode`).
  `Iteration` gives the existence of a function defined by iteration, from which every recursive
  function of the module gets its equations (`WalkIs`, `SkipsAre`, `OutgoingOfFirstIs`); for
  `Ancestors` and `Completes` existence is shown with least closed sets (`AncestorsAre`, `CompletesAre`).

### HumanTask (the same as RunContinuation and `TaskAssumption`)

- **TaskTypes**, **VerdictsReachTheirNode**, **PendingTasksAreTimed** (`HumanTaskProof`; no hypotheses):
  `TaskSpec => []TaskTypeOK`, `[]VerdictIsOfItsTask`, `[]PendingTaskHasTimer`. What a handler holds
  may be a copy of an earlier wait, and the Prisma merge keeps old entries, so `TellInv` judges every
  copy of the record by the present `World` (activations made, rows, jobs, entries that were saved,
  calls of `resumeRun` and their callers): each suspension entry was saved, and is of a task whose row
  and job were created (`Asked`); each decision was given by the caller that resumed the run into the
  activation it names, for an entry of this node that was saved (`Given`). The world only moves
  forward (`Later`: rows are created once, jobs are never made twice, a call keeps the activation it
  made), so a copy that was right stays right. A call of `resumeRun` is bound to its caller
  (`CallerInCall`), and a job is gone only when its task is resolved, the job was lost, or there is no
  queue (`RowsInv`). `MatchInv` of `RunContinuationActivations` is part of the invariant.
  `TaskSpec => Spec` does not hold (a caller's crash ends its resumer), so
  the lemmas are about the shared actions.
- **AnswersAreNotStranded**: if `OneHandler` (one processor, `MaxAttempts = 1`),
  `TaskSpec => []NoAnswerStranded`, with either store and all faults. An answer is stranded when a save
  brings back a wait that `resumeRun` took out of the record, so `AnswerInv` bounds what can be saved:
  what the handler holds is of a run that is pending still (`InHand`), no copy of the record has an
  entry for a pending activation (`NotAsked`), so the wait that is saved is new; a task that
  is waited for, or whose wait is being saved, has its caller on the way or an accident booked
  (`Cared`); and a call that saved its resume is for neither (`Awaited`). `WorkerAdvances` lists
  what a step of the processor can save. Both hypotheses exclude real behaviour (section 3).

### PollingTrigger (`PollingAssumption`; no hypotheses)

- **PollingTypes**, **OverlapCorrect**, **WindowCorrect**, **LoopCorrect**,
  **NothingTwiceCorrect** (`PollingTriggerProof`): `TypeOK` and the four safety properties. `Guarded`: the
  busy mark is taken while a cycle runs, and by one cycle, until a stop frees it. `WindowInv` extends
  the accounting of the saved window to every copy of it: the interval's closure, the commands' seeds
  and results, the cycles' states. `OnceInv`: while no stop and no setup interferes the saved window
  only grows and holds everything that was emitted, no other copy is newer, and a cycle polls
  against it. `LoopInv`: a command that no other came into has an active workflow and the handle
  that stops its interval. `orphaned`, `clobbered` and `raced` are the accidents the properties name.

### Credentials and McpConnections (`CredentialAssumption`, `McpAssumption`; no hypotheses)

- **McpTypes**, **PoolsHoldEveryClient**, **WaitersAreServed**, **TokenHandedInOnce**,
  **StoredTokenStaysGood**, **ConnectionStaysWhole** (`McpConnectionsProof`). `PromiseInv`: a promise in the
  pool's map is under its caller's process and server, and that caller goes on. `PoolInv`: while no
  pool was closed, who opens is the one its key names and there is no client yet. `Token`: one
  refresh at a time, begun with the material of the store, so the only token the provider may drop
  is the one it was handed (`FlightInv`), until an answer is lost or a save fails after the provider
  took it (`stale`); the token of a consent or a push not yet saved
  is nowhere else, but that a pushed one may be the one pushed before (`FreshInv`).
  `WriteInv`: one write at a time unless two crossed, and between its halves store and status differ
  in the way its second half puts right, unless an earlier write failed there (`torn`). The history
  variables `stale`, `crossed`, `torn` and `shut` are the exceptions the properties name, not
  hypotheses. `McpAssumption` says that the
  processes that stop are processes and that the askers' assignments are of readers to processes and
  servers; the proof needs both for types.

### InlineRuns and TestSuite (`InlineAssumption`, `SuiteAssumption`)

- **SuiteTypes**, **DrainedOnce**, **WaitersAnswered** (`TestSuiteProof`; no hypotheses):
  `SuiteSpec => []SuiteTypeOK`, `[]EachRunIsDrainedOnce`, `[]EveryWaiterAnswered`. `RunInv` has, per run:
  one drain at most, scheduled only while it has none, and a queue that is empty or holds the pending
  activation (`OneDrain`); where a drain stands, the record stands (`DrainMatches`); a pending
  activation is queued, driven, about to be dispatched or lost (`Carried`); a waiter has a drain to
  come, and a run that was answered has nothing left to publish unless it is `late` (`WaitInv`).
  A step moves one run (`OnlyRun`), so there is one lemma per step, and `OthersKeep`.
- **CountsCorrect**: if `Bus = "memory"`, `SuiteSpec => []CountsMatchVerdicts`. `TrackInv` follows
  the events of a case: which of them are on the bus, in which order (a completion behind
  everything else of its run, `Ordered`), and what the tracker holds when they are handled
  (`TallyInv`). `finalize` waits for the bus to be empty, so every case was handled and its row holds
  its verdict. The hypothesis is the code's: `processingTail` holds what this process has received,
  and with the Redis bus the properties fail for events that come later (section 3).
  `SuiteAssumption` says that the runs are 1, 2, ... up to a finite number.

### Only model-checked

- Liveness (`PendingRunSettles`, `AnsweredRunMovesOn`, `SuiteEnds`, `NewMessageEmitted`): liveness under
  fairness is outside the prover.
- `RunFromState`. What a run from a state executes depends on the states a first run can stop in, and its
  properties hold under conditions that were found by counterexamples (section 3).
- The planner on the Prisma store, with a second trigger or with pinned joins. Only `RanWhatItShould`
  holds there (on the Prisma store and with a second trigger), and only as far as PlanAll goes.
- What the theorems' hypotheses exclude but a run's instance has: two calls that may resume one task
  (`PendingHasCarrier` and `ApprovalsAgree` in ContMemory).
- `NoAnswerStranded` beyond its theorem, with several processors or retries and without lost locks or
  reports of an approving node: no counterexample was found, and no run has these constants.

## 5. Plan

1. `PendingHasCarrier` with crashes, in the form that says what a crash costs: a pending run without a
   carrier had a crash between its save and its dispatch.
2. `RanWhatItShould` with a second trigger: the invariant has to admit that collects are sealed, and
   with it that nodes run before their ancestors.
3. The theorems of `RunContinuationOnce` for `TaskSpec`, whose callers resume: `ResumedOnce` would
   become an exception the properties name, as `Harm` is.
4. Modules for parts left out below, the browser's merge of realtime events first.

## 6. Not modelled

Most of the repository's lines are not engine: the user interface and the canvas, the command line and
its scaffolding, the dependency-injection container, telemetry queries, eslint and build tooling,
the node library, authentication and HTTP routes. They keep little state of their own, or keep it
in an external system, and what they do is rendering, I/O, formatting and wiring; a model of them
would be a list of assignments. The modules cover the places where several handlers share state.

- AI agent loop: its turns are decided by model calls, prompts and tools, which are external. What
  the engine sees of it is modelled: reports while it executes, suspension, MCP clients.
- Node library: calls of external services or functions of one item; the engine's contract with a
  node is what `execute` returns.
- Retention and storage policies: a timer that deletes finished runs and their artefacts by age. It
  selects ended runs only, and the models do not keep a run after its end.
- Live updates: notifications that may be lost by design; `TestSuite` models the bus where state
  depends on it.
- Canvas and user interface: rendering; the merge of realtime events with loaded snapshots is a
  candidate for a later module.
- Authentication of managed workspaces: token verification with a key cache, library calls and I/O.
- Command line and scaffolding: processes, files and development servers.
- Within modelled parts: webhook starts and responses (another end of a run), triggers that do not
  poll, encryption, scopes and bindings of credentials, the tool-list cache of the MCP pool,
  projections and queries of the run store, and code that nothing calls (`cancelPendingForRun`,
  `closeForCredential`, `CachingCredentialMaterialProvider`, registered at
  `host/src/bootstrap/AppContainerFactory.ts:792`). `PROJECT.json` has a note per component.
