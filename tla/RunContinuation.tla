---------------------------- MODULE RunContinuation ----------------------------
(***************************************************************************)
(* One run of a workflow whose nodes are offloaded to queue workers.       *)
(*                                                                         *)
(* Modelled: the persisted run record and the two repositories that store  *)
(* it; the engine's start, continuation, failure and HITL-resume handlers; *)
(* the worker-side request handler and the reports of an executing node;   *)
(* node suspension; the BullMQ queue with stalled jobs.  A handler is a    *)
(* process: every load and every save is a step of its own, so what it     *)
(* read may be stale when it writes.                                       *)
(*                                                                         *)
(* Abstracted: items (a node emits some or none), what a snapshot says,    *)
(* events and telemetry, and planning over graphs with joins, which is the        *)
(* subject of RunQueuePlanner: here every node has one inbound edge, so    *)
(* the planner appends the successors and takes the head of the queue.     *)
(***************************************************************************)
EXTENDS Naturals, Sequences

LOCAL INSTANCE SequencesExt

CONSTANTS
  Nodes,               \* the executable nodes of the workflow
  Entry,               \* the node of the first activation
  Succ,                \* Succ[n]: the nodes fed by n, in edge order
  ApprovalNodes,       \* nodes built by defineHumanApprovalNode
  RecoveringNodes,     \* nodes that have a nodeErrorHandler
  ReportingNodes,      \* nodes that report what happens inside them (agents, sub-workflows)
  MaxNodeActivations,  \* executionOptions.maxNodeActivations
  MaxAttempts,         \* retryPolicy.maxAttempts of every node
  Workers,             \* concurrent BullMQ job processors
  Resumers,            \* calls of Engine.resumeRun
  Store,               \* "memory" or "prisma"
  MaxActs, MaxTasks,   \* bounds: activation ids and human tasks handed out
  FaultKinds,          \* the faults that happen, of "loseLock", "crash", "refuse"
  MaxFaults            \* bound: number of faults

Acts  == 1..MaxActs
Tasks == 1..MaxTasks

ASSUME GraphAssumption ==
  /\ Entry \in Nodes
  /\ Succ \in [Nodes -> Seq(Nodes)]
  /\ ApprovalNodes \subseteq Nodes /\ RecoveringNodes \subseteq Nodes
  /\ ReportingNodes \subseteq Nodes
ASSUME LimitAssumption ==
  /\ MaxNodeActivations \in Nat \ {0} /\ MaxAttempts \in Nat \ {0}
  /\ MaxActs \in Nat /\ MaxTasks \in Nat /\ MaxFaults \in Nat
  /\ Store \in {"memory", "prisma"} /\ FaultKinds \subseteq {"loseLock", "crash", "refuse"}

VARIABLES
  run,      \* the persisted run record
  jobs,     \* jobs[a]: the queue's job for activation a
  stalled,  \* the activations whose job has stalled once
  starter,  \* Engine.runWorkflow: "start", "dispatch", "done"
  worker,   \* worker[w]: the request handler running on w
  resumer,  \* resumer[r]: one call of resumeRun
  acts,     \* number of activation ids made
  nodeOf,   \* nodeOf[a]: the node the request of activation a names
  tasks,    \* number of human tasks delivered and created
  faults,   \* number of faults injected
  won       \* history: won[a], the continuations of activation a that were saved

vars == <<run, jobs, stalled, starter, worker, resumer, acts, nodeOf, tasks, faults, won>>

-----------------------------------------------------------------------------
(* The run record. *)

Verdicts   == {"approve", "reject"}          \* a decision, or a timeout as "reject"
NoPending  == [act |-> 0, node |-> Entry]
NoResume   == [act |-> 0, verdict |-> "approve"]
Terminal   == {"completed", "failed", "halted"}
RunStatus  == Terminal \cup {"running", "pending", "suspended"}

Pendings    == [act : 0..MaxActs, node : Nodes]
Suspensions == [task : 0..MaxTasks, node : Nodes, act : 0..MaxActs]
Resumes     == [act : 0..MaxActs, verdict : Verdicts]
RunRecord   == [rev : Nat, status : RunStatus, pending : Pendings, queue : Seq(Nodes),
                susp : SUBSET Suspensions, resume : Resumes, reason : BOOLEAN, count : Nat]

\* createRun
CreatedRun == [rev |-> 0, status |-> "running", pending |-> NoPending, queue |-> <<>>,
               susp |-> {}, resume |-> NoResume, reason |-> FALSE, count |-> 0]

\* The optional keys of a loaded record: none while the hitl_state_json column is null.
HitlKeys == {"susp", "resume", "reason"}
LoadedKeys(r) == IF r.susp = {} /\ r.resume = NoResume /\ ~r.reason THEN {} ELSE HitlKeys

\* mergeConcurrentState: the writer's record wins, the optional keys it lacks are kept.
Merge(latest, desired, keys) ==
  [desired EXCEPT !.susp   = IF "susp" \in keys THEN @ ELSE latest.susp,
                  !.resume = IF "resume" \in keys THEN @ ELSE latest.resume,
                  !.reason = IF "reason" \in keys THEN @ ELSE latest.reason]

\* WorkflowExecutionRepository.save of a record with the optional keys given: the record
\* that is stored afterwards.
Saved(desired, keys) ==
  IF Store = "memory" THEN [desired EXCEPT !.rev = @ + 1]
  ELSE [(IF desired.rev = run.rev THEN desired ELSE Merge(run, desired, keys))
        EXCEPT !.rev = run.rev + 1]

\* The literal ActivationEnqueueService saves; it carries no revision.
Enqueued(act, node, queue, count, susp, resume) ==
  [rev |-> 0, status |-> "pending", pending |-> [act |-> act, node |-> node], queue |-> queue,
   susp |-> susp, resume |-> resume, reason |-> FALSE, count |-> count]

\* PersistedRunStateTerminalBuilder.mergeTerminal, and the optional keys of its result
MergeTerminal(state, status, queue, count) ==
  [state EXCEPT !.status = status, !.reason = (status = "halted"), !.pending = NoPending,
                !.queue = queue, !.count = count]
TerminalKeys(state) == LoadedKeys(state) \cup {"reason"}

-----------------------------------------------------------------------------
(* The handlers' local state. *)

SchedulingState == [pending : Pendings, queue : Seq(Nodes)]
Sched(r) == [pending |-> r.pending, queue |-> r.queue]

WorkerPc == {"idle", "handle", "clear", "mark", "exec", "report", "suspend",
             "suspendSave", "result", "error", "failSave", "dispatch", "terminate", "ack"}

WorkerRecord ==
  [pc : WorkerPc, act : 0..MaxActs, node : Nodes, lock : BOOLEAN, attempt : Nat,
   ctx : Verdicts \cup {"none"}, out : {"none", "items", "empty", "halt"},
   got : SUBSET {"state", "sched"}, state : RunRecord, sched : SchedulingState,
   reported : BOOLEAN, recovering : BOOLEAN, ending : RunRecord, keys : SUBSET HitlKeys,
   next : 0..MaxActs, task : 0..MaxTasks]

IdleWorker ==
  [pc |-> "idle", act |-> 0, node |-> Entry, lock |-> FALSE, attempt |-> 0,
   ctx |-> "none", out |-> "none", got |-> {}, state |-> CreatedRun, sched |-> Sched(CreatedRun),
   reported |-> FALSE, recovering |-> FALSE, ending |-> CreatedRun, keys |-> {}, next |-> 0, task |-> 0]

ResumerRecord ==
  [pc : {"idle", "loaded", "dispatch", "done"}, task : 0..MaxTasks, verdict : Verdicts,
   state : RunRecord, next : 0..MaxActs]

IdleResumer == [pc |-> "idle", task |-> 0, verdict |-> "approve", state |-> CreatedRun, next |-> 0]

\* The reads a step needs: load alone, or load and loadSchedulingState in parallel.
Reads(pc) == IF pc \in {"clear", "suspend"} THEN {"state"} ELSE {"state", "sched"}
HasRead(w) == worker[w].got = Reads(worker[w].pc)

\* Worker w goes on at pc, having consumed what it read.
Goto(w, pc) == [worker[w] EXCEPT !.pc = pc, !.got = {}, !.state = CreatedRun,
                                 !.sched = Sched(CreatedRun)]
Becomes(w, rec) == worker' = [worker EXCEPT ![w] = rec]

\* The handler of w has nothing left to do but to return.
Return(w) == Becomes(w, [IdleWorker EXCEPT !.pc = "ack", !.act = worker[w].act,
                                           !.lock = worker[w].lock])

\* Variant: the handler does not compare what it read with its request.
IsPendingUnchecked(w) == worker[w].pc # "idle"

\* requirePendingExecution on what the handler read.
IsPending(w) == /\ worker[w].state.status = "pending"
                /\ worker[w].sched.pending = [act |-> worker[w].act, node |-> worker[w].node]

Init ==
  /\ run = CreatedRun
  /\ jobs = [a \in Acts |-> "none"]
  /\ stalled = {}
  /\ starter = "start"
  /\ worker = [w \in Workers |-> IdleWorker]
  /\ resumer = [r \in Resumers |-> IdleResumer]
  /\ acts = 0 /\ tasks = 0 /\ faults = 0
  /\ nodeOf = [a \in Acts |-> Entry]
  /\ won = [a \in Acts |-> 0]

-----------------------------------------------------------------------------
(* Starting the run. *)

MakeActivation(node) ==
  /\ acts < MaxActs
  /\ acts' = acts + 1
  /\ nodeOf' = [nodeOf EXCEPT ![acts + 1] = node]

\* RunStartService.scheduleInitialPlan: save the run as pending on its first node ...
Start ==
  /\ starter = "start"
  /\ MakeActivation(Entry)
  /\ run' = Saved(Enqueued(acts + 1, Entry, <<>>, 0, {}, NoResume), {})
  /\ starter' = "dispatch"
  /\ UNCHANGED <<jobs, stalled, worker, resumer, tasks, faults, won>>

\* ... then dispatch the job of that activation.
StartDispatch ==
  /\ starter = "dispatch"
  /\ jobs' = [jobs EXCEPT ![1] = "waiting"]
  /\ starter' = "done"
  /\ UNCHANGED <<run, stalled, worker, resumer, acts, nodeOf, tasks, faults, won>>

-----------------------------------------------------------------------------
(* NodeExecutionRequestHandlerService on a worker. *)

\* BullMQ hands a waiting job to an idle processor.
Receive(w, a) ==
  /\ worker[w].pc = "idle" /\ jobs[a] = "waiting"
  /\ jobs' = [jobs EXCEPT ![a] = "active"]
  /\ Becomes(w, [IdleWorker EXCEPT !.pc = "handle", !.act = a, !.node = nodeOf[a],
                                   !.lock = TRUE, !.attempt = 1])
  /\ UNCHANGED <<run, stalled, starter, resumer, acts, nodeOf, tasks, faults, won>>

\* One read, or both at once: the in-memory repository answers both in the same tick.
Read(w, parts) ==
  /\ worker[w].pc \in {"handle", "clear", "mark", "suspend", "result", "error"}
  /\ parts # {} /\ parts \subseteq Reads(worker[w].pc) \ worker[w].got
  /\ Store = "memory" => parts = Reads(worker[w].pc)
  /\ Becomes(w, [worker[w] EXCEPT
                   !.got   = @ \cup parts,
                   !.state = IF "state" \in parts THEN run ELSE @,
                   !.sched = IF "sched" \in parts THEN Sched(run) ELSE @])
  /\ UNCHANGED <<run, jobs, stalled, starter, resumer, acts, nodeOf, tasks, faults, won>>

\* Ignore a job whose activation the run does not wait for.
HandleIgnored(w) ==
  /\ worker[w].pc = "handle" /\ HasRead(w) /\ ~IsPending(w)
  /\ Return(w)
  /\ UNCHANGED <<run, jobs, stalled, starter, resumer, acts, nodeOf, tasks, faults, won>>

\* Variant: the decision is not spliced in.
HandleForgetsResume(w) ==
  /\ worker[w].pc = "handle" /\ HasRead(w) /\ IsPending(w)
  /\ Becomes(w, Goto(w, "mark"))
  /\ UNCHANGED <<run, jobs, stalled, starter, resumer, acts, nodeOf, tasks, faults, won>>

\* Splice the resume context in when the run's pendingResume names this activation.
Handle(w) ==
  LET resume == worker[w].state.resume
      ctx == IF resume.act = worker[w].act THEN resume.verdict ELSE "none"
  IN  /\ worker[w].pc = "handle" /\ HasRead(w) /\ IsPending(w)
      /\ Becomes(w, [Goto(w, IF ctx = "none" THEN "mark" ELSE "clear") EXCEPT !.ctx = ctx])
      /\ UNCHANGED <<run, jobs, stalled, starter, resumer, acts, nodeOf, tasks, faults, won>>

\* Clear pendingResume, before the node runs.
ClearResume(w) ==
  LET state == worker[w].state
  IN  /\ worker[w].pc = "clear" /\ HasRead(w)
      /\ run' = IF state.resume.act = worker[w].act
                THEN Saved([state EXCEPT !.resume = NoResume], HitlKeys)
                ELSE run
      /\ Becomes(w, Goto(w, "mark"))
      /\ UNCHANGED <<jobs, stalled, starter, resumer, acts, nodeOf, tasks, faults, won>>

\* markNodeRunning: re-save what was loaded, unless another activation is pending.
MarkNodeRunning(w) ==
  LET state == worker[w].state
  IN  /\ worker[w].pc = "mark" /\ HasRead(w)
      /\ run' = IF worker[w].sched.pending = [act |-> worker[w].act, node |-> worker[w].node]
                THEN Saved(state, LoadedKeys(state))
                ELSE run
      /\ Becomes(w, Goto(w, "exec"))
      /\ UNCHANGED <<jobs, stalled, starter, resumer, acts, nodeOf, tasks, faults, won>>

\* NodeRunStateWriter, while the node executes: load the whole record ...
ReportLoad(w) ==
  /\ worker[w].pc = "exec"
  /\ worker[w].node \in ReportingNodes /\ ~worker[w].reported   \* bound: one report per handler
  /\ Becomes(w, [worker[w] EXCEPT !.pc = "report", !.state = run])
  /\ UNCHANGED <<run, jobs, stalled, starter, resumer, acts, nodeOf, tasks, faults, won>>

\* ... and save it with a snapshot added, whatever became of the run in between.
ReportSave(w) ==
  LET state == worker[w].state
  IN  /\ worker[w].pc = "report"
      /\ run' = Saved(state, LoadedKeys(state))
      /\ Becomes(w, [Goto(w, "exec") EXCEPT !.reported = TRUE])
      /\ UNCHANGED <<jobs, stalled, starter, resumer, acts, nodeOf, tasks, faults, won>>

\* The node returns, with or without items; an approval node that has its decision.
ExecuteReturns(w) ==
  LET approval == worker[w].node \in ApprovalNodes
  IN  /\ worker[w].pc = "exec"
      /\ approval => worker[w].ctx # "none"
      /\ \E out \in {"items", "empty", "halt"} :
           /\ out = "halt" <=> approval /\ worker[w].ctx = "reject"
           /\ approval => out # "empty"
           /\ Becomes(w, [Goto(w, "result") EXCEPT !.out = out])
      /\ UNCHANGED <<run, jobs, stalled, starter, resumer, acts, nodeOf, tasks, faults, won>>

\* InProcessRetryRunner: try again, or give up (last attempt, or a credential error).
RetryOr(w, pc) ==
  \/ /\ worker[w].attempt < MaxAttempts
     /\ Becomes(w, [Goto(w, "exec") EXCEPT !.attempt = @ + 1])
  \/ Becomes(w, Goto(w, pc))

\* The node, or the delivery of its approval request, throws.
ExecuteThrows(w) ==
  /\ \/ worker[w].pc = "exec"
     \/ worker[w].pc = "suspend" /\ HasRead(w)
  /\ RetryOr(w, "error")
  /\ UNCHANGED <<run, jobs, stalled, starter, resumer, acts, nodeOf, tasks, faults, won>>

\* An approval node without a decision throws SuspensionRequest.
ExecuteSuspends(w) ==
  /\ worker[w].pc = "exec"
  /\ worker[w].node \in ApprovalNodes /\ worker[w].ctx = "none"
  /\ Becomes(w, Goto(w, "suspend"))
  /\ UNCHANGED <<run, jobs, stalled, starter, resumer, acts, nodeOf, tasks, faults, won>>

\* NodeSuspensionHandler: deliver the request and create the HumanTask row ...
Deliver(w) ==
  /\ worker[w].pc = "suspend" /\ HasRead(w)
  /\ tasks < MaxTasks
  /\ tasks' = tasks + 1
  /\ Becomes(w, [worker[w] EXCEPT !.pc = "suspendSave", !.task = tasks + 1])
  /\ UNCHANGED <<run, jobs, stalled, starter, resumer, acts, nodeOf, faults, won>>

\* ... then save the run loaded before that as suspended and throw RunSuspendedError,
\* which the retry runner treats like any other error.
SuspendSave(w) ==
  LET state == worker[w].state
      entry == [task |-> worker[w].task, node |-> worker[w].node, act |-> worker[w].act]
  IN  /\ worker[w].pc = "suspendSave"
      /\ run' = Saved([state EXCEPT !.status = "suspended", !.susp = @ \cup {entry}],
                      LoadedKeys(state) \cup {"susp"})
      /\ IF worker[w].attempt < MaxAttempts
         THEN Becomes(w, [Goto(w, "exec") EXCEPT !.attempt = @ + 1, !.task = 0])
         ELSE Return(w)
      /\ UNCHANGED <<jobs, stalled, starter, resumer, acts, nodeOf, tasks, faults, won>>

\* processJob returns: BullMQ removes the job if the processor still holds its lock.
Ack(w) ==
  /\ worker[w].pc = "ack"
  /\ jobs' = IF worker[w].lock THEN [jobs EXCEPT ![worker[w].act] = "none"] ELSE jobs
  /\ Becomes(w, IdleWorker)
  /\ UNCHANGED <<run, stalled, starter, resumer, acts, nodeOf, tasks, faults, won>>

-----------------------------------------------------------------------------
(* RunContinuationService: the continuation of an activation. *)

Continued(w) == won' = [won EXCEPT ![worker[w].act] = @ + 1]

\* Variants: the queue that was loaded is forgotten; the counter runs backwards.
PlannedForgetsQueue(w) == IF worker[w].out = "items" THEN Succ[worker[w].node] ELSE <<>>
CountsDown(w) == worker[w].state.count - 1

\* The queue after planner.applyOutputs; its head is the next activation.
Planned(w) == worker[w].sched.queue
              \o (IF worker[w].out = "items" THEN Succ[worker[w].node] ELSE <<>>)
Count(w) == worker[w].state.count + 1

\* The run ends: save the loaded record as terminal.
EndRun(w, state, status, queue, count) ==
  /\ run' = Saved(MergeTerminal(state, status, queue, count), TerminalKeys(state))
  /\ Continued(w)
  /\ Return(w)
  /\ UNCHANGED <<jobs, stalled, starter, resumer, acts, nodeOf, tasks, faults>>

InResult(w) == worker[w].pc = "result" /\ HasRead(w) /\ IsPending(w)

\* "is not pending", "activationId mismatch", "nodeId mismatch": swallowed by the worker;
\* a nodeErrorHandler's recovery falls through to the workflow-level failure instead.
ResultIgnored(w) ==
  /\ worker[w].pc = "result" /\ HasRead(w) /\ ~IsPending(w)
  /\ IF worker[w].recovering THEN Becomes(w, Goto(w, "failSave")) ELSE Return(w)
  /\ UNCHANGED <<run, jobs, stalled, starter, resumer, acts, nodeOf, tasks, faults, won>>

\* A rejected or timed-out approval halts the run; the counter does not move.
ResultHalts(w) ==
  /\ InResult(w) /\ worker[w].out = "halt"
  /\ EndRun(w, worker[w].state, "halted", <<>>, worker[w].state.count)

ResultCompletes(w) ==
  /\ InResult(w) /\ worker[w].out # "halt" /\ Planned(w) = <<>>
  /\ EndRun(w, worker[w].state, "completed", <<>>, Count(w))

\* The activation budget is spent and there is more to run.
ResultOverBudget(w) ==
  /\ InResult(w) /\ worker[w].out # "halt" /\ Planned(w) # <<>>
  /\ Count(w) >= MaxNodeActivations
  /\ EndRun(w, worker[w].state, "failed", Tail(Planned(w)), Count(w))

\* Preparing the next activation throws (its input contract, its scheduler).
ResultRejected(w) ==
  /\ InResult(w) /\ worker[w].out # "halt" /\ Planned(w) # <<>>
  /\ Count(w) < MaxNodeActivations
  /\ EndRun(w, worker[w].state, "failed", Tail(Planned(w)), Count(w))

\* Variants: the budget is off by one; the completed node is saved as the pending one.
ResultEnqueuesAtBudget(w) ==
  /\ InResult(w) /\ worker[w].out # "halt" /\ Planned(w) # <<>>
  /\ Count(w) <= MaxNodeActivations
  /\ MakeActivation(Head(Planned(w)))
  /\ run' = Saved(Enqueued(acts + 1, Head(Planned(w)), Tail(Planned(w)), Count(w), {}, NoResume), {})
  /\ Continued(w)
  /\ Becomes(w, [Goto(w, "dispatch") EXCEPT !.next = acts + 1])
  /\ UNCHANGED <<jobs, stalled, starter, resumer, tasks, faults>>
ResultEnqueuesOldNode(w) ==
  /\ InResult(w) /\ worker[w].out # "halt" /\ Planned(w) # <<>>
  /\ Count(w) < MaxNodeActivations
  /\ MakeActivation(Head(Planned(w)))
  /\ run' = Saved(Enqueued(acts + 1, worker[w].node, Tail(Planned(w)), Count(w), {}, NoResume), {})
  /\ Continued(w)
  /\ Becomes(w, [Goto(w, "dispatch") EXCEPT !.next = acts + 1])
  /\ UNCHANGED <<jobs, stalled, starter, resumer, tasks, faults>>

\* Save the run as pending on the next node; the job is dispatched after that.
ResultEnqueues(w) ==
  LET queue == Tail(Planned(w))
  IN  /\ InResult(w) /\ worker[w].out # "halt" /\ Planned(w) # <<>>
      /\ Count(w) < MaxNodeActivations
      /\ MakeActivation(Head(Planned(w)))
      /\ run' = Saved(Enqueued(acts + 1, Head(Planned(w)), queue, Count(w), {}, NoResume), {})
      /\ Continued(w)
      /\ Becomes(w, [Goto(w, "dispatch") EXCEPT
                       !.next = acts + 1,
                       !.ending = MergeTerminal(worker[w].state, "failed", queue, Count(w)),
                       !.keys = TerminalKeys(worker[w].state)])
      /\ UNCHANGED <<jobs, stalled, starter, resumer, tasks, faults>>

\* Variant: the job of the completed activation is dispatched again, not the next one's.
DispatchCompleted(w) ==
  /\ worker[w].pc = "dispatch"
  /\ jobs' = [jobs EXCEPT ![worker[w].act] = "waiting"]
  /\ Return(w)
  /\ UNCHANGED <<run, stalled, starter, resumer, acts, nodeOf, tasks, faults, won>>

\* The decided activation is handed to the scheduler: its job enters the queue.
Dispatch(w) ==
  /\ worker[w].pc = "dispatch"
  /\ jobs' = [jobs EXCEPT ![worker[w].next] = "waiting"]
  /\ Return(w)
  /\ UNCHANGED <<run, stalled, starter, resumer, acts, nodeOf, tasks, faults, won>>

\* Variant: a refused dispatch is thrown, as in resumeRun, and the run is left as it was saved.
SaveFailureOnlyThrows(w) ==
  /\ worker[w].pc \in {"terminate", "failSave"}
  /\ Return(w)
  /\ UNCHANGED <<run, jobs, stalled, starter, resumer, acts, nodeOf, tasks, faults, won>>

\* terminateRunAfterActivationEnqueueRejected, when the dispatch was refused after the save;
\* and the failure that follows a recovery whose continuation was refused.
SaveFailure(w) ==
  /\ worker[w].pc \in {"terminate", "failSave"}
  /\ run' = Saved(worker[w].ending, worker[w].keys)
  /\ won' = IF worker[w].pc = "failSave" THEN [won EXCEPT ![worker[w].act] = @ + 1] ELSE won
  /\ Return(w)
  /\ UNCHANGED <<jobs, stalled, starter, resumer, acts, nodeOf, tasks, faults>>

InError(w) == worker[w].pc = "error" /\ HasRead(w) /\ IsPending(w)

ErrorIgnored(w) ==
  /\ worker[w].pc = "error" /\ HasRead(w) /\ ~IsPending(w)
  /\ Return(w)
  /\ UNCHANGED <<run, jobs, stalled, starter, resumer, acts, nodeOf, tasks, faults, won>>

\* The nodeErrorHandler recovers: continue as resumeFromNodeResult, which loads again.
ErrorRecovers(w) ==
  LET state == worker[w].state
  IN  /\ InError(w) /\ worker[w].node \in RecoveringNodes
      /\ \E out \in {"items", "empty"} :
           Becomes(w, [Goto(w, "result") EXCEPT
                         !.out = out, !.recovering = TRUE,
                         !.ending = MergeTerminal(state, "failed", worker[w].sched.queue, state.count),
                         !.keys = TerminalKeys(state)])
      /\ UNCHANGED <<run, jobs, stalled, starter, resumer, acts, nodeOf, tasks, faults, won>>

\* No handler, or the handler throws: the run fails.
ErrorFails(w) ==
  /\ InError(w)
  /\ EndRun(w, worker[w].state, "failed", worker[w].sched.queue, worker[w].state.count)

-----------------------------------------------------------------------------
(* Engine.resumeRun, called with the task id of a delivered task. *)

ResumeCall(r, task, verdict) ==
  /\ resumer[r].pc = "idle" /\ task <= tasks
  /\ resumer' = [resumer EXCEPT ![r] = [IdleResumer EXCEPT
                   !.pc = "loaded", !.task = task, !.verdict = verdict, !.state = run]]
  /\ UNCHANGED <<run, jobs, stalled, starter, worker, acts, nodeOf, tasks, faults, won>>

\* Variant: any task of a suspended run resumes it.
EntriesOfAnyTask(r) == resumer[r].state.susp

Entries(r) == {s \in resumer[r].state.susp : s.task = resumer[r].task}

\* Not suspended, or no entry for the task: resumeRun throws.
ResumeRefused(r) ==
  /\ resumer[r].pc = "loaded"
  /\ resumer[r].state.status # "suspended" \/ Entries(r) = {}
  /\ resumer' = [resumer EXCEPT ![r] = [IdleResumer EXCEPT !.pc = "done"]]
  /\ UNCHANGED <<run, jobs, stalled, starter, worker, acts, nodeOf, tasks, faults, won>>

\* Preparing the activation throws before anything is saved: so does resumeRun.
ResumeRejected(r) ==
  /\ resumer[r].pc = "loaded"
  /\ resumer[r].state.status = "suspended" /\ Entries(r) # {}
  /\ resumer' = [resumer EXCEPT ![r] = [IdleResumer EXCEPT !.pc = "done"]]
  /\ UNCHANGED <<run, jobs, stalled, starter, worker, acts, nodeOf, tasks, faults, won>>

\* Variant: the decided entry stays in the record.
ResumeSaveKeepsEntry(r) ==
  LET state == resumer[r].state
  IN  /\ resumer[r].pc = "loaded" /\ state.status = "suspended"
      /\ \E entry \in Entries(r) :
           /\ MakeActivation(entry.node)
           /\ run' = Saved(Enqueued(acts + 1, entry.node, <<>>, state.count, state.susp,
                                    [act |-> acts + 1, verdict |-> resumer[r].verdict]),
                           {"resume", "susp"})
      /\ resumer' = [resumer EXCEPT ![r] = [IdleResumer EXCEPT
                       !.pc = "dispatch", !.task = resumer[r].task, !.next = acts + 1]]
      /\ UNCHANGED <<jobs, stalled, starter, worker, tasks, faults, won>>

\* Save the run as pending on the suspended node, with an empty queue.
ResumeSave(r) ==
  LET state == resumer[r].state
      remaining == state.susp \ Entries(r)
  IN  /\ resumer[r].pc = "loaded" /\ state.status = "suspended"
      /\ \E entry \in Entries(r) :
           /\ MakeActivation(entry.node)
           /\ run' = Saved(Enqueued(acts + 1, entry.node, <<>>, state.count, remaining,
                                    [act |-> acts + 1, verdict |-> resumer[r].verdict]),
                           IF remaining = {} THEN {"resume"} ELSE {"resume", "susp"})
      /\ resumer' = [resumer EXCEPT ![r] = [IdleResumer EXCEPT
                       !.pc = "dispatch", !.task = resumer[r].task, !.next = acts + 1]]
      /\ UNCHANGED <<jobs, stalled, starter, worker, tasks, faults, won>>

ResumeDispatch(r) ==
  /\ resumer[r].pc = "dispatch"
  /\ jobs' = [jobs EXCEPT ![resumer[r].next] = "waiting"]
  /\ resumer' = [resumer EXCEPT ![r].pc = "done"]
  /\ UNCHANGED <<run, stalled, starter, worker, acts, nodeOf, tasks, faults, won>>

-----------------------------------------------------------------------------
(* Faults. *)

Fault(kind) == kind \in FaultKinds /\ faults < MaxFaults /\ faults' = faults + 1

\* BullMQ's stalled check: a job is redelivered once, a second stall fails it for good.
JobStalls(a) == /\ jobs' = [jobs EXCEPT ![a] = IF a \in stalled THEN "none" ELSE "waiting"]
                /\ stalled' = stalled \cup {a}

\* BullMQ takes a job for stalled: its processor has died, or is slow, loses its lock and
\* goes on.
Stall(w, died) ==
  /\ worker[w].lock /\ Fault(IF died THEN "crash" ELSE "loseLock") /\ JobStalls(worker[w].act)
  /\ Becomes(w, IF died THEN IdleWorker ELSE [worker[w] EXCEPT !.lock = FALSE])
  /\ UNCHANGED <<run, starter, resumer, acts, nodeOf, tasks, won>>

\* Redis refuses the job (or preparing the first one throws): a continuation fails the run,
\* start and resume only throw.
DispatchFails ==
  /\ Fault("refuse")
  /\ \/ /\ starter \in {"start", "dispatch"} /\ starter' = "done"
        /\ UNCHANGED <<worker, resumer>>
     \/ \E w \in Workers : /\ worker[w].pc = "dispatch"
                           /\ Becomes(w, [worker[w] EXCEPT !.pc = "terminate"])
                           /\ UNCHANGED <<starter, resumer>>
     \/ \E r \in Resumers :
          /\ resumer[r].pc = "dispatch"
          /\ resumer' = [resumer EXCEPT ![r].pc = "done"]
          /\ UNCHANGED <<starter, worker>>
  /\ UNCHANGED <<run, jobs, stalled, acts, nodeOf, tasks, won>>

-----------------------------------------------------------------------------
(* The specification. *)

\* What a processor does by itself.
WorkerStep(w) ==
  \/ \E a \in Acts : Receive(w, a)
  \/ \E parts \in SUBSET {"state", "sched"} : Read(w, parts)
  \/ HandleIgnored(w) \/ Handle(w) \/ ClearResume(w) \/ MarkNodeRunning(w)
  \/ ReportLoad(w) \/ ReportSave(w)
  \/ ExecuteReturns(w) \/ ExecuteThrows(w) \/ ExecuteSuspends(w)
  \/ Deliver(w) \/ SuspendSave(w)
  \/ ResultIgnored(w) \/ ResultHalts(w) \/ ResultCompletes(w) \/ ResultOverBudget(w)
  \/ ResultRejected(w) \/ ResultEnqueues(w) \/ Dispatch(w) \/ SaveFailure(w)
  \/ ErrorIgnored(w) \/ ErrorRecovers(w) \/ ErrorFails(w)
  \/ Ack(w)

ResumeStep(r) == ResumeRefused(r) \/ ResumeRejected(r) \/ ResumeSave(r) \/ ResumeDispatch(r)

Next ==
  \/ Start \/ StartDispatch
  \/ \E w \in Workers : WorkerStep(w)
  \/ \E r \in Resumers :
       \/ \E task \in Tasks, verdict \in Verdicts : ResumeCall(r, task, verdict)
       \/ ResumeStep(r)
  \/ \E w \in Workers, died \in BOOLEAN : Stall(w, died)
  \/ DispatchFails

Spec == Init /\ [][Next]_vars

\* The event loop runs every handler to its end and BullMQ feeds idle processors; nobody
\* promises that a human answers, so ResumeCall is not fair.
Fairness ==
  /\ WF_vars(Start) /\ WF_vars(StartDispatch)
  /\ \A w \in Workers : WF_vars(WorkerStep(w))
  /\ \A r \in Resumers : WF_vars(ResumeStep(r))

FairSpec == Spec /\ Fairness

-----------------------------------------------------------------------------
(* Properties. *)

\* The variables have the types their declarations say.
TypeOK ==
  /\ run \in RunRecord
  /\ jobs \in [Acts -> {"none", "waiting", "active"}]
  /\ stalled \subseteq 0..MaxActs
  /\ starter \in {"start", "dispatch", "done"}
  /\ worker \in [Workers -> WorkerRecord]
  /\ resumer \in [Resumers -> ResumerRecord]
  /\ acts \in 0..MaxActs /\ tasks \in 0..MaxTasks /\ faults \in 0..MaxFaults
  /\ nodeOf \in [Acts -> Nodes]
  /\ won \in [Acts -> Nat]

\* The persisted counter never exceeds maxNodeActivations, and a run that still has an
\* activation or a decision to wait for is strictly below it: no interleaving of stale
\* saves, redeliveries and HITL resumes lets a run be re-activated past its budget.
WithinBudget(r) == /\ r.count <= MaxNodeActivations
                   /\ r.status \in {"running", "pending", "suspended"}
                      => r.count < MaxNodeActivations
BudgetRespected == WithinBudget(run)

\* An activation is continued at most once: no two handlers save a next step for it.
OneContinuation == \A a \in Acts : won[a] <= 1

\* A pending run is waited for by somebody: its job is queued or being processed, or the
\* handler that saved it has yet to dispatch it. Otherwise nothing ever continues the run.
PendingHasCarrier ==
  run.status = "pending" =>
    LET a == run.pending.act
    IN  \/ jobs[a] # "none"
        \/ starter = "dispatch" /\ a = 1
        \/ \E w \in Workers : worker[w].pc = "dispatch" /\ worker[w].next = a
        \/ \E r \in Resumers : resumer[r].pc = "dispatch" /\ resumer[r].next = a

\* The branches that wait in the queue of a live run are not dropped: a step keeps the
\* queue, or takes its head and makes it pending, and adds behind it.
NoBranchDropped ==
  [][ run'.status \in {"pending", "suspended"} =>
        \/ IsPrefix(run.queue, run'.queue)
        \/ /\ run.queue # <<>> /\ run'.pending.node = Head(run.queue)
           /\ IsPrefix(Tail(run.queue), run'.queue) ]_run

\* Wherever an activation id is kept, it is with the node its request was made for, so the
\* "nodeId mismatch" refusals are unreachable: a handler that finds its activation id
\* pending is always running the pending node.
MadeFor(act, node) == act # 0 => act <= acts /\ nodeOf[act] = node
RecordMadeFor(r) == /\ MadeFor(r.pending.act, r.pending.node)
                    /\ \A s \in r.susp : MadeFor(s.act, s.node)
ActivationsMatch ==
  /\ RecordMadeFor(run)
  /\ \A a \in Acts : jobs[a] # "none" => a <= acts
  /\ \A w \in Workers : worker[w].pc # "ack" => MadeFor(worker[w].act, worker[w].node)

\* Seen from outside, the handlers, stale reads, merging saves, crashes and redeliveries are a
\* run that waits for one activation at a time, leaves it once, stays within its budget and ends
\* once. An activation id that was made for a save that did not come is not seen.
Lifecycle == INSTANCE RunLifecycle WITH
  status <- run.status, activation <- run.pending.act, made <- acts, count <- run.count
ImplementsLifecycle == Lifecycle!Spec

\* What the run record says of its approvals agrees with its status: there are entries exactly
\* when the run is suspended, at most one for an activation (its item asks once), and the
\* decision on the record belongs to the activation the run waits for.
SuspensionIffSuspended == run.susp # {} <=> run.status = "suspended"
OneEntryPerItem == \A s, t \in run.susp : s.act = t.act => s = t
ResumeIsOfPending ==
  run.resume # NoResume => run.status = "pending" /\ run.pending.act = run.resume.act
ApprovalsAgree == SuspensionIffSuspended /\ OneEntryPerItem /\ ResumeIsOfPending

\* An activation made to deliver a decision does not ask the human again.
DecisionNotAskedAgain ==
  \A w \in Workers : worker[w].pc \in {"suspend", "suspendSave"}
                     => \A r \in Resumers : resumer[r].next # worker[w].act

\* The caller of start or resume has thrown, as its dispatch was refused: nobody holds a job or
\* a handler for the activation it had saved, and start may not even have saved one.
ThrownAtCaller ==
  LET a == run.pending.act
  IN  /\ faults > 0
      /\ \/ starter = "done" /\ a \in {0, 1}
         \/ \E r \in Resumers : resumer[r].pc = "done" /\ resumer[r].next = a
      /\ a # 0 => /\ jobs[a] = "none" /\ won[a] = 0
                  /\ \A w \in Workers : worker[w].pc # "idle" => worker[w].act # a

\* A started run ends or waits for a human.  It does when the dispatch of a continuation is
\* refused, too: that one has saved the next activation, which no job will continue, and must
\* end the run with the older record it loaded.  The exception is a dispatch that start or
\* resume had refused: they only throw.
PendingRunSettles ==
  run.status \in {"running", "pending"}
    ~> run.status \in Terminal \cup {"suspended"} \/ ThrownAtCaller
=============================================================================
