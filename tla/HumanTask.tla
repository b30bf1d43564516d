------------------------------- MODULE HumanTask -------------------------------
(***************************************************************************)
(* The human tasks of one run: the rows PrismaHumanTaskStore keeps, the    *)
(* delayed jobs of the timeout queue, and the three callers that resolve a *)
(* task: a person's decision (DecideHumanTaskCommandHandler), the timeout  *)
(* worker and the control plane's callback.                                *)
(*                                                                         *)
(* Composed with RunContinuation, whose worker suspends the run and whose  *)
(* resumeRun the callers reach: its Deliver is followed here by the row,   *)
(* the timeout job and only then SuspendSave; its ResumeCall is made by a  *)
(* caller that has resolved the task.  A caller is a process that handles  *)
(* one request or one timeout job.                                         *)
(*                                                                         *)
(* Abstracted: subjects, delivery channels, tokens and decision schemas (a *)
(* request that fails one of their checks changes nothing), telemetry.     *)
(***************************************************************************)
EXTENDS RunContinuation

CONSTANTS
  OnTimeout,  \* the approval nodes' defaultOnTimeout: "halt" or "auto-accept"
  Managed,    \* paired with a control plane: its callback route is mounted
  TimeoutQueue  \* the scheduler is bullmq: timeouts are jobs (else there are none)

ASSUME TaskAssumption ==
  OnTimeout \in {"halt", "auto-accept"} /\ Managed \in BOOLEAN /\ TimeoutQueue \in BOOLEAN

VARIABLES
  row,      \* row[t]: the HumanTask row of task t
  timer,    \* timer[t]: the job hitl_timeout__t
  caller,   \* caller[r]: the request or timeout job that uses resumer r
  lost,     \* history: the tasks whose timeout job failed, and was removed with that
  harmed,   \* history: the tasks whose resolution met one of the accidents of Harm
  asked     \* history: the suspension entries that were ever saved in the run

hitlVars == <<row, timer, caller, lost, harmed>>
taskVars == <<vars, hitlVars, asked>>

Resolved   == {"decided", "timed_out", "auto_accepted"}
RowRecord  == [status : Resolved \cup {"none", "pending"}, node : Nodes,
               verdict : Verdicts \cup {"none"}]
NoRow      == [status |-> "none", node |-> Entry, verdict |-> "none"]
TimerState == {"none", "delayed", "active", "stalled", "retried", "gone"}
CallerPc   == {"idle", "read", "mark", "cancel", "call", "wait", "done"}
CallerRecord == [kind : {"person", "timer", "plane"}, pc : CallerPc, task : 0..MaxTasks,
                 verdict : Verdicts, job : {"none", "active", "retried"}]
IdleCaller == [kind |-> "person", pc |-> "idle", task |-> 0, verdict |-> "approve", job |-> "none"]

TaskInit ==
  /\ Init
  /\ row = [t \in Tasks |-> NoRow]
  /\ timer = [t \in Tasks |-> "none"]
  /\ caller = [r \in Resumers |-> IdleCaller]
  /\ lost = {} /\ harmed = {} /\ asked = {}

CallerAt(r, pc) == caller' = [caller EXCEPT ![r].pc = pc]
Harm(t) == harmed' = harmed \cup {t}

\* The timeout job of caller r's task is locked by this caller's processor.
Holds(r) == caller[r].kind = "timer" /\ timer[caller[r].task] = caller[r].job

\* A processor that returns removes the job it holds; without its lock it cannot.
JobEnds(r) == timer' = IF Holds(r) THEN [timer EXCEPT ![caller[r].task] = "gone"] ELSE timer

-----------------------------------------------------------------------------
(* NodeSuspensionHandler, between the delivery and the save. *)

\* humanTaskStore.create: from here on the task can be found, listed and decided.
CreateRow(w) ==
  /\ worker[w].pc = "suspendSave" /\ row[worker[w].task] = NoRow
  /\ row' = [row EXCEPT ![worker[w].task] =
               [status |-> "pending", node |-> worker[w].node, verdict |-> "none"]]
  /\ UNCHANGED <<vars, timer, caller, lost, harmed>>

\* enqueueTimeoutJob: nothing to do in local mode.
EnqueueTimeout(w) ==
  LET t == worker[w].task
  IN  /\ worker[w].pc = "suspendSave" /\ row[t] # NoRow /\ timer[t] = "none"
      /\ timer' = [timer EXCEPT ![t] = IF TimeoutQueue THEN "delayed" ELSE "gone"]
      /\ UNCHANGED <<vars, row, caller, lost, harmed>>

\* Variant: the run is saved as suspended before the timeout job is enqueued.
ReadyWithRow(w) == row[worker[w].task] # NoRow

\* The suspended run is saved once the row and the job exist.
ReadyToSuspend(w) == timer[worker[w].task] # "none"

\* RunContinuation's worker: every step of its own but SuspendSave, which waits.
WorkerGoesOn(w) ==
  /\ WorkerStep(w)
  /\ worker[w].pc = "suspendSave" => ReadyToSuspend(w)
  /\ UNCHANGED hitlVars

-----------------------------------------------------------------------------
(* The three callers.  A task that is not pending is refused: a 409, or a return. *)

\* A request with a decision (session, token or callback route) finds the task pending.
PersonReads(r, t, verdict) ==
  /\ caller[r].pc = "idle" /\ row[t].status = "pending"
  /\ caller' = [caller EXCEPT ![r] = [kind |-> "person", pc |-> "mark", task |-> t,
                                      verdict |-> verdict, job |-> "none"]]
  /\ UNCHANGED <<vars, row, timer, lost, harmed>>

\* A timeout callback of the control plane finds the task pending.
PlaneReads(r, t) ==
  /\ Managed
  /\ caller[r].pc = "idle" /\ row[t].status = "pending"
  /\ caller' = [caller EXCEPT ![r] = [kind |-> "plane", pc |-> "mark", task |-> t,
                                      verdict |-> "reject", job |-> "none"]]
  /\ UNCHANGED <<vars, row, timer, lost, harmed>>

\* The delay of a timeout job is over, or it is redelivered: HitlTimeoutWorker takes it ...
TimerFires(r, t) ==
  LET taken == IF timer[t] = "delayed" THEN "active" ELSE "retried"
  IN  /\ caller[r].pc = "idle" /\ timer[t] \in {"delayed", "stalled"}
      /\ timer' = [timer EXCEPT ![t] = taken]
      /\ caller' = [caller EXCEPT ![r] =
                      [kind |-> "timer", pc |-> "read", task |-> t, job |-> taken,
                       verdict |-> IF OnTimeout = "halt" THEN "reject" ELSE "approve"]]
      /\ UNCHANGED <<vars, row, lost, harmed>>

\* ... and reads the task: nothing to do unless it is pending.
TimerReads(r) ==
  /\ caller[r].pc = "read"
  /\ IF row[caller[r].task].status = "pending"
     THEN CallerAt(r, "mark") /\ UNCHANGED timer
     ELSE CallerAt(r, "done") /\ JobEnds(r)
  /\ UNCHANGED <<vars, row, lost, harmed>>

\* Variant: the policy's own name is stored.
MarkedPolicy(kind) == IF kind = "person" THEN "decided" ELSE OnTimeout

MarkedStatus(kind) ==
  CASE kind = "person" -> "decided"
    [] kind = "timer" -> (IF OnTimeout = "auto-accept" THEN "auto_accepted" ELSE "timed_out")
    [] kind = "plane" -> "timed_out"

\* Variant: no timeout resumes the run.
MarkWithoutResume(r) ==
  LET t == caller[r].task
      kind == caller[r].kind
  IN  /\ caller[r].pc = "mark"
      /\ row' = [row EXCEPT ![t].status = MarkedStatus(kind)]
      /\ CallerAt(r, IF kind = "person" THEN "cancel" ELSE "done")
      /\ IF kind = "plane" THEN Harm(t) ELSE UNCHANGED harmed
      /\ UNCHANGED <<vars, timer, lost>>

\* markDecided, markTimedOut, markAutoAccepted: updates by id, whatever the status is now.
\* The control plane's timeout ends here: the run is not resumed.
Mark(r) ==
  LET t == caller[r].task
      kind == caller[r].kind
      verdict == IF kind = "person" THEN caller[r].verdict ELSE row[t].verdict
  IN  /\ caller[r].pc = "mark"
      /\ row' = [row EXCEPT ![t].status = MarkedStatus(kind), ![t].verdict = verdict]
      /\ CASE kind = "person" -> CallerAt(r, "cancel") /\ UNCHANGED harmed
           [] kind = "timer"  -> CallerAt(r, "call") /\ UNCHANGED harmed
           [] kind = "plane"  -> CallerAt(r, "done") /\ Harm(t)
      /\ UNCHANGED <<vars, timer, lost>>

\* Variant: the decision handler throws as well when there is no job to remove.
CancelTimerOrThrow(r) ==
  LET t == caller[r].task
  IN  /\ caller[r].pc = "cancel"
      /\ CASE timer[t] \in {"delayed", "stalled"} ->
                /\ timer' = [timer EXCEPT ![t] = "gone"]
                /\ CallerAt(r, "call") /\ UNCHANGED harmed
           [] timer[t] \in {"active", "retried"} ->
                CallerAt(r, "done") /\ Harm(t) /\ UNCHANGED timer
           [] OTHER -> CallerAt(r, "done") /\ UNCHANGED <<timer, harmed>>
      /\ UNCHANGED <<vars, row, lost>>

\* cancelTimeoutJob: a job that waits is removed; BullMQ refuses to remove one that is being
\* processed, and the decision handler throws before it resumes the run.
CancelTimer(r) ==
  LET t == caller[r].task
  IN  /\ caller[r].pc = "cancel"
      /\ IF timer[t] \in {"active", "retried"}
         THEN CallerAt(r, "done") /\ Harm(t) /\ UNCHANGED timer
         ELSE /\ timer' = [timer EXCEPT ![t] = IF @ \in {"delayed", "stalled"} THEN "gone" ELSE @]
              /\ CallerAt(r, "call") /\ UNCHANGED harmed
      /\ UNCHANGED <<vars, row, lost>>

\* engine.resumeRun: RunContinuation takes it from here.
CallResume(r) ==
  /\ caller[r].pc = "call"
  /\ ResumeCall(r, caller[r].task, caller[r].verdict)
  /\ CallerAt(r, "wait")
  /\ UNCHANGED <<row, timer, lost, harmed>>

\* A step of resumeRun.  When it throws before it saved (the run is not suspended yet, or
\* the activation cannot be prepared), the task stays resolved and the run does not move.
ResumeGoesOn(r) ==
  /\ ResumeStep(r)
  /\ IF resumer[r].pc = "loaded" /\ resumer'[r].pc = "done"
     THEN Harm(caller[r].task) ELSE UNCHANGED harmed
  /\ UNCHANGED <<row, timer, caller, lost>>

\* The timeout job is completed or failed: either way it is removed.
TimerReturns(r) ==
  /\ caller[r].pc = "wait" /\ caller[r].kind = "timer" /\ resumer[r].pc = "done"
  /\ CallerAt(r, "done") /\ JobEnds(r)
  /\ UNCHANGED <<vars, row, lost, harmed>>

-----------------------------------------------------------------------------
(* What goes wrong with a caller. *)

\* A caller that has marked the task promises the resume: it is an accident when it ends here.
Abandons(r) == IF caller[r].pc \in {"cancel", "call", "wait"} THEN Harm(caller[r].task)
               ELSE UNCHANGED harmed

\* A read, an update, the queue or the load of the run throws.  The request answers an error;
\* the timeout job has one attempt and is removed when it fails.
CallerThrows(r) ==
  /\ caller[r].pc \in {"read", "mark", "cancel", "call"}
  /\ CallerAt(r, "done") /\ JobEnds(r) /\ Abandons(r)
  /\ lost' = IF Holds(r) THEN lost \cup {caller[r].task} ELSE lost
  /\ UNCHANGED <<vars, row>>

\* The process of a caller dies: a request is lost, a timeout job keeps its lock for a while.
CallerCrashes(r) ==
  /\ caller[r].pc \notin {"idle", "done"} /\ Fault("crash")
  /\ resumer[r].pc = "done" => caller[r].kind = "timer"
  /\ CallerAt(r, "done") /\ Abandons(r)
  /\ resumer' = [resumer EXCEPT ![r].pc = "done", ![r].state = CreatedRun]
  /\ UNCHANGED <<run, jobs, stalled, starter, worker, acts, nodeOf, tasks, won, row, timer, lost>>

\* A job is redelivered when it stalls once; stalled again it is failed, and removed.
AfterStall(state) == IF state = "active" THEN "stalled" ELSE "gone"

\* BullMQ takes a timeout job for stalled: its processor has died, or is slow, loses its lock
\* and goes on (counted by the bound on faults the first time only).  Redelivered, the job
\* finds the task resolved if it was marked before.
TimerStalls(t) ==
  /\ timer[t] \in {"active", "retried"}
  /\ timer' = [timer EXCEPT ![t] = AfterStall(@)]
  /\ lost' = IF timer'[t] = "gone" THEN lost \cup {t} ELSE lost
  /\ IF timer[t] = "active"
       /\ \E r \in Resumers : Holds(r) /\ caller[r].task = t /\ caller[r].pc # "done"
     THEN Fault("loseLock") ELSE UNCHANGED faults
  /\ UNCHANGED <<run, jobs, stalled, starter, worker, resumer, acts, nodeOf, tasks, won>>
  /\ UNCHANGED <<row, caller, harmed>>

-----------------------------------------------------------------------------
(* The specification. *)

CallerStep(r) == \/ TimerReads(r) \/ Mark(r) \/ CancelTimer(r) \/ CallResume(r)
                 \/ ResumeGoesOn(r) \/ TimerReturns(r)

EngineFaults == /\ \/ \E w \in Workers, died \in BOOLEAN : Stall(w, died)
                   \/ DispatchFails
                /\ UNCHANGED hitlVars

TaskAction ==
  \/ (Start \/ StartDispatch) /\ UNCHANGED hitlVars
  \/ \E w \in Workers : WorkerGoesOn(w) \/ CreateRow(w) \/ EnqueueTimeout(w)
  \/ \E r \in Resumers :
       \/ \E t \in Tasks :
            \/ \E verdict \in Verdicts : PersonReads(r, t, verdict)
            \/ PlaneReads(r, t) \/ TimerFires(r, t)
       \/ CallerStep(r) \/ CallerThrows(r) \/ CallerCrashes(r)
  \/ \E t \in Tasks : TimerStalls(t)
  \/ EngineFaults

TaskNext == TaskAction /\ asked' = asked \cup run'.susp

TaskSpec == TaskInit /\ [][TaskNext]_taskVars

\* A caller that has begun goes on.  That a person answers, or that a timeout job is ever
\* taken, is not assumed.
FairTaskSpec == TaskSpec /\ \A r \in Resumers : WF_<<vars, hitlVars>>(CallerStep(r))

-----------------------------------------------------------------------------
(* Properties. *)

\* The variables of this module have their types.
TaskTypeOK ==
  /\ row \in [Tasks -> RowRecord] /\ timer \in [Tasks -> TimerState]
  /\ caller \in [Resumers -> CallerRecord]
  /\ lost \subseteq Tasks /\ harmed \subseteq Tasks /\ asked \subseteq Suspensions

\* A verdict that a node's handler passes to the node was given by a caller that resumed the
\* run into this very activation, for the task the run had been suspended with for this node:
\* an answer to an orphaned task (its worker died before the save) is stored in its row, but
\* never decides the approval the node asks again.
VerdictIsOfItsTask ==
  \A w \in Workers : worker[w].ctx # "none" =>
    \E r \in Resumers, entry \in asked :
      /\ resumer[r].next = worker[w].act /\ caller[r].verdict = worker[w].ctx
      /\ entry.task = caller[r].task /\ entry.node = worker[w].node
      /\ row[entry.task].status \in Resolved

\* The tasks the run waits for: those its suspended activation asked.  The merge of the
\* Prisma repository keeps the entries of earlier approvals in the record.
Waiting == {s.task : s \in {e \in run.susp : run.status = "suspended" /\ e.act = run.pending.act}}

\* A run that waits for a task that is still pending has its timeout job: the row is written
\* before the job, the job before the run, and a decision is stored before the job goes.  It
\* lacks one after the accidents booked in lost - the job failed, because its processor threw
\* or it stalled twice, and was removed with that - and in local mode, which has no jobs.
PendingTaskHasTimer ==
  TimeoutQueue =>
    \A t \in Waiting : row[t].status = "pending" => timer[t] \notin {"none", "gone"} \/ t \in lost

\* A run waits for a task that is resolved already only while the caller that resolved it
\* is on its way to resumeRun; everything that can strand it is listed: that caller crashes
\* or throws, the run was not saved as suspended yet, the removal of the timeout job was
\* refused, the timeout came by callback, or the activation could not be prepared.
OnItsWay(t) == \E r \in Resumers : /\ caller[r].task = t /\ resumer[r].pc # "done"
                                   /\ caller[r].pc \in {"cancel", "call", "wait"}
NoAnswerStranded ==
  \A t \in Waiting : row[t].status \in Resolved => OnItsWay(t) \/ t \in harmed

\* The same as progress: a run whose task was resolved, and met none of those accidents,
\* does not keep waiting for it.
WaitsUnanswered == \E t \in Waiting : row[t].status \in Resolved /\ t \notin harmed
AnsweredRunMovesOn == WaitsUnanswered ~> ~WaitsUnanswered

\* A task is resolved once: what was stored as its resolution stays.
OneResolution == [][\A t \in Tasks : row[t].status \in Resolved => row'[t] = row[t]]_taskVars
=============================================================================
