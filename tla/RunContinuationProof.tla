------------------------- MODULE RunContinuationProof -------------------------
(* Proofs about RunContinuation, for every value of its constants. *)
EXTENDS RunContinuation, TLAPS

-----------------------------------------------------------------------------
(* The operators on records preserve their types. *)

\* The record a run is created with is a run record.
LEMMA CreatedRunType == CreatedRun \in RunRecord
BY GraphAssumption, LimitAssumption
DEF CreatedRun, RunRecord, RunStatus, Pendings, Suspensions, Resumes, NoPending, NoResume, Verdicts

\* A merge yields a run record that differs from the writer's in its HITL keys only.
LEMMA MergeType ==
  ASSUME NEW latest \in RunRecord, NEW desired \in RunRecord, NEW keys
  PROVE  LET m == Merge(latest, desired, keys)
         IN  /\ m \in RunRecord
             /\ m.status = desired.status /\ m.count = desired.count
             /\ m.pending = desired.pending /\ m.queue = desired.queue
             /\ m.susp \in {desired.susp, latest.susp}
BY DEF Merge, RunRecord

\* Whatever a save stores is a run record, and only its HITL keys and its revision differ
\* from what the writer passed.
LEMMA SavedType ==
  ASSUME run \in RunRecord, NEW desired \in RunRecord, NEW keys
  PROVE  /\ Saved(desired, keys) \in RunRecord
         /\ Saved(desired, keys).status = desired.status
         /\ Saved(desired, keys).count = desired.count
         /\ Saved(desired, keys).pending = desired.pending
         /\ Saved(desired, keys).queue = desired.queue
         /\ Saved(desired, keys).susp \in {desired.susp, run.susp}
<1>1. ASSUME NEW r \in RunRecord, NEW n \in Nat
      PROVE  LET s == [r EXCEPT !.rev = n]
             IN  /\ s \in RunRecord
                 /\ s.status = r.status /\ s.count = r.count /\ s.pending = r.pending
                 /\ s.queue = r.queue /\ s.susp = r.susp
  BY DEF RunRecord
<1>2. run.rev + 1 \in Nat /\ desired.rev + 1 \in Nat
  BY DEF RunRecord
<1>3. CASE Store = "memory"
  <2>1. Saved(desired, keys) = [desired EXCEPT !.rev = desired.rev + 1]
    BY <1>3 DEF Saved
  <2> QED BY <2>1, <1>1, <1>2
<1>4. CASE Store # "memory" /\ desired.rev = run.rev
  <2>1. Saved(desired, keys) = [desired EXCEPT !.rev = run.rev + 1]
    BY <1>4 DEF Saved
  <2> QED BY <2>1, <1>1, <1>2
<1>5. CASE Store # "memory" /\ desired.rev # run.rev
  <2>1. Saved(desired, keys) = [Merge(run, desired, keys) EXCEPT !.rev = run.rev + 1]
    BY <1>5 DEF Saved
  <2>2. Merge(run, desired, keys) \in RunRecord
    BY MergeType
  <2> QED BY <2>1, <2>2, <1>1, <1>2, MergeType
<1> QED BY <1>3, <1>4, <1>5

\* The literal an enqueue saves is a run record.
LEMMA EnqueuedType ==
  ASSUME NEW act \in 0..MaxActs, NEW node \in Nodes, NEW queue \in Seq(Nodes), NEW count \in Nat,
         NEW susp \in SUBSET Suspensions, NEW resume \in Resumes
  PROVE  Enqueued(act, node, queue, count, susp, resume) \in RunRecord
BY DEF Enqueued, RunRecord, RunStatus, Pendings

\* So is the record a run ends with.
LEMMA MergeTerminalType ==
  ASSUME NEW state \in RunRecord, NEW status \in Terminal, NEW queue \in Seq(Nodes),
         NEW count \in Nat
  PROVE  MergeTerminal(state, status, queue, count) \in RunRecord
<1>1. NoPending \in Pendings /\ status \in RunStatus
  BY GraphAssumption, LimitAssumption DEF NoPending, Pendings, RunStatus
<1>2. \A reason \in BOOLEAN :
        [state EXCEPT !.status = status, !.reason = reason, !.pending = NoPending,
                      !.queue = queue, !.count = count] \in RunRecord
  BY <1>1 DEF RunRecord
<1>3. CASE status = "halted"
  BY <1>2, <1>3 DEF MergeTerminal
<1>4. CASE status # "halted"
  BY <1>2, <1>4 DEF MergeTerminal
<1> QED BY <1>3, <1>4

\* A handler's record after a step of it has one field changed, or some reset.
LEMMA WorkerUpdates ==
  ASSUME NEW rec \in WorkerRecord
  PROVE  /\ \A pc \in WorkerPc : [rec EXCEPT !.pc = pc] \in WorkerRecord
         /\ \A out \in {"items", "empty", "halt"} : [rec EXCEPT !.out = out] \in WorkerRecord
         /\ \A ctx \in Verdicts \cup {"none"} : [rec EXCEPT !.ctx = ctx] \in WorkerRecord
         /\ [rec EXCEPT !.lock = FALSE] \in WorkerRecord
         /\ [rec EXCEPT !.reported = TRUE] \in WorkerRecord
         /\ \A state \in RunRecord : [rec EXCEPT !.pc = "report", !.state = state] \in WorkerRecord
         /\ [rec EXCEPT !.attempt = @ + 1] \in WorkerRecord
         /\ [rec EXCEPT !.attempt = @ + 1, !.task = 0] \in WorkerRecord
         /\ \A task \in 0..MaxTasks :
              [rec EXCEPT !.pc = "suspendSave", !.task = task] \in WorkerRecord
<1>1. \A pc \in WorkerPc : [rec EXCEPT !.pc = pc] \in WorkerRecord
  BY DEF WorkerRecord
<1>2. \A out \in {"items", "empty", "halt"} : [rec EXCEPT !.out = out] \in WorkerRecord
  BY DEF WorkerRecord
<1>3. \A ctx \in Verdicts \cup {"none"} : [rec EXCEPT !.ctx = ctx] \in WorkerRecord
  BY DEF WorkerRecord
<1>4. [rec EXCEPT !.lock = FALSE] \in WorkerRecord /\ [rec EXCEPT !.reported = TRUE] \in WorkerRecord
  BY DEF WorkerRecord
<1>9. \A state \in RunRecord : [rec EXCEPT !.pc = "report", !.state = state] \in WorkerRecord
  BY DEF WorkerRecord, WorkerPc
<1>5. rec.attempt + 1 \in Nat /\ 0 \in 0..MaxTasks /\ "suspendSave" \in WorkerPc
  BY LimitAssumption DEF WorkerRecord, WorkerPc
<1>6. [rec EXCEPT !.attempt = @ + 1] \in WorkerRecord
  BY <1>5 DEF WorkerRecord
<1>7. [rec EXCEPT !.attempt = @ + 1, !.task = 0] \in WorkerRecord
  BY <1>5 DEF WorkerRecord
<1>8. \A task \in 0..MaxTasks :
        [rec EXCEPT !.pc = "suspendSave", !.task = task] \in WorkerRecord
  BY <1>5 DEF WorkerRecord
<1> QED BY <1>1, <1>2, <1>3, <1>4, <1>6, <1>7, <1>8, <1>9

\* A handler record after reads.
LEMMA ReadType ==
  ASSUME NEW rec \in WorkerRecord, NEW got \in SUBSET {"state", "sched"},
         NEW state \in RunRecord, NEW sched \in SchedulingState
  PROVE  [rec EXCEPT !.got = got, !.state = state, !.sched = sched] \in WorkerRecord
BY DEF WorkerRecord

\* A handler record that prepares a failure record for later.
LEMMA EndingType ==
  ASSUME NEW rec \in WorkerRecord, NEW ending \in RunRecord, NEW keys \in SUBSET HitlKeys
  PROVE  /\ \A next \in 0..MaxActs :
              [rec EXCEPT !.next = next, !.ending = ending, !.keys = keys] \in WorkerRecord
         /\ \A out \in {"items", "empty", "halt"} :
              [rec EXCEPT !.out = out, !.recovering = TRUE, !.ending = ending, !.keys = keys]
                \in WorkerRecord
BY DEF WorkerRecord

\* What loadSchedulingState returns of a run record.
LEMMA SchedType == ASSUME NEW r \in RunRecord PROVE Sched(r) \in SchedulingState
BY DEF Sched, SchedulingState, RunRecord

\* The record of a processor without a job, and of one that has just taken or finished one.
LEMMA IdleType ==
  /\ IdleWorker \in WorkerRecord
  /\ \A act \in 0..MaxActs, lock \in BOOLEAN :
       [IdleWorker EXCEPT !.pc = "ack", !.act = act, !.lock = lock] \in WorkerRecord
  /\ \A act \in 0..MaxActs, node \in Nodes :
       [IdleWorker EXCEPT !.pc = "handle", !.act = act, !.node = node, !.lock = TRUE,
                          !.attempt = 1] \in WorkerRecord
<1>1. CreatedRun \in RunRecord /\ Sched(CreatedRun) \in SchedulingState
  BY CreatedRunType, SchedType
<1>2. {"idle", "ack", "handle"} \subseteq WorkerPc /\ 0 \in 0..MaxActs /\ 0 \in 0..MaxTasks
      /\ Entry \in Nodes
  BY GraphAssumption, LimitAssumption DEF WorkerPc
<1>3. IdleWorker \in WorkerRecord
  BY <1>1, <1>2 DEF IdleWorker, WorkerRecord
<1>4. \A act \in 0..MaxActs, lock \in BOOLEAN :
        [IdleWorker EXCEPT !.pc = "ack", !.act = act, !.lock = lock] \in WorkerRecord
  BY <1>2, <1>3 DEF WorkerRecord
<1>5. \A act \in 0..MaxActs, node \in Nodes :
        [IdleWorker EXCEPT !.pc = "handle", !.act = act, !.node = node, !.lock = TRUE,
                           !.attempt = 1] \in WorkerRecord
  BY <1>2, <1>3 DEF WorkerRecord
<1> QED BY <1>3, <1>4, <1>5

\* The record a handler goes on with.
LEMMA GotoType ==
  ASSUME worker \in [Workers -> WorkerRecord], NEW w \in Workers, NEW pc \in WorkerPc
  PROVE  Goto(w, pc) \in WorkerRecord
<1>1. CreatedRun \in RunRecord /\ Sched(CreatedRun) \in SchedulingState
  BY CreatedRunType, SchedType
<1>2. worker[w] \in WorkerRecord
  OBVIOUS
<1>3. [worker[w] EXCEPT !.pc = pc, !.state = CreatedRun, !.sched = Sched(CreatedRun), !.got = {}]
        \in WorkerRecord
  BY <1>1, <1>2 DEF WorkerRecord
<1> QED BY <1>3 DEF Goto

\* One handler's record changes, to one of its type.
LEMMA BecomesType ==
  ASSUME worker \in [Workers -> WorkerRecord], NEW w \in Workers, NEW rec \in WorkerRecord,
         Becomes(w, rec)
  PROVE  worker' \in [Workers -> WorkerRecord]
BY DEF Becomes

\* A handler that returns goes on to acknowledge its job.
LEMMA ReturnType ==
  ASSUME worker \in [Workers -> WorkerRecord], NEW w \in Workers, Return(w)
  PROVE  worker' \in [Workers -> WorkerRecord]
<1>1. worker[w].act \in 0..MaxActs /\ worker[w].lock \in BOOLEAN
  BY DEF WorkerRecord
<1>2. [IdleWorker EXCEPT !.pc = "ack", !.act = worker[w].act, !.lock = worker[w].lock]
        \in WorkerRecord
  BY <1>1, IdleType
<1> QED BY <1>2, BecomesType DEF Return

\* The planned queue is a queue of nodes.
LEMMA PlannedType ==
  ASSUME worker \in [Workers -> WorkerRecord], NEW w \in Workers
  PROVE  /\ Planned(w) \in Seq(Nodes)
         /\ Planned(w) # <<>> => Head(Planned(w)) \in Nodes /\ Tail(Planned(w)) \in Seq(Nodes)
         /\ Count(w) \in Nat
<1>1. worker[w].sched.queue \in Seq(Nodes) /\ worker[w].node \in Nodes /\ worker[w].state.count \in Nat
  BY DEF WorkerRecord, SchedulingState, RunRecord
<1>2. Planned(w) \in Seq(Nodes)
  BY <1>1, GraphAssumption DEF Planned
<1> QED BY <1>1, <1>2 DEF Count

\* What the HITL steps do to a run record.
LEMMA HitlUpdates ==
  ASSUME NEW state \in RunRecord
  PROVE  /\ [state EXCEPT !.resume = NoResume] \in RunRecord
         /\ \A entry \in Suspensions :
              [state EXCEPT !.status = "suspended", !.susp = @ \cup {entry}] \in RunRecord
<1>1. NoResume \in Resumes /\ "suspended" \in RunStatus
  BY LimitAssumption DEF NoResume, Resumes, Verdicts, RunStatus
<1> QED BY <1>1 DEF RunRecord

\* What a step of resumeRun does to its own record.
LEMMA ResumerUpdates ==
  /\ IdleResumer \in ResumerRecord
  /\ [IdleResumer EXCEPT !.pc = "done"] \in ResumerRecord
  /\ \A rec \in ResumerRecord : [rec EXCEPT !.pc = "done"] \in ResumerRecord
  /\ \A task \in 0..MaxTasks, verdict \in Verdicts, state \in RunRecord :
       [IdleResumer EXCEPT !.pc = "loaded", !.task = task, !.verdict = verdict, !.state = state]
         \in ResumerRecord
  /\ \A task \in 0..MaxTasks, next \in 0..MaxActs :
       [IdleResumer EXCEPT !.pc = "dispatch", !.task = task, !.next = next] \in ResumerRecord
<1>1. IdleResumer \in ResumerRecord
  BY CreatedRunType, LimitAssumption DEF IdleResumer, ResumerRecord, Verdicts
<1> QED BY <1>1 DEF ResumerRecord

-----------------------------------------------------------------------------
(* Type correctness. *)

\* An activation is made only while ids are left.
LEMMA MakeActivationType ==
  ASSUME TypeOK, NEW node \in Nodes, MakeActivation(node)
  PROVE  acts + 1 \in 0..MaxActs /\ acts' \in 0..MaxActs /\ nodeOf' \in [Acts -> Nodes]
BY LimitAssumption DEF TypeOK, MakeActivation, Acts

\* Counting a continuation keeps the type of the history.
LEMMA WonType ==
  ASSUME TypeOK, NEW a
  PROVE  [won EXCEPT ![a] = @ + 1] \in [Acts -> Nat]
<1>1. won \in [Acts -> Nat]
  BY DEF TypeOK
<1>2. CASE a \in Acts
  BY <1>1, <1>2
<1>3. CASE a \notin Acts
  <2>1. [won EXCEPT ![a] = @ + 1] = won
    BY <1>1, <1>3
  <2> QED BY <1>1, <2>1
<1> QED BY <1>2, <1>3

\* Ending a run keeps the types.
LEMMA EndRunType ==
  ASSUME TypeOK, NEW w \in Workers, NEW state \in RunRecord, NEW status \in Terminal,
         NEW queue \in Seq(Nodes), NEW count \in Nat,
         EndRun(w, state, status, queue, count)
  PROVE  TypeOK'
<1>1. run' \in RunRecord
  BY MergeTerminalType, SavedType DEF EndRun, TypeOK
<1>2. worker' \in [Workers -> WorkerRecord]
  BY ReturnType DEF EndRun, TypeOK
<1>3. won' \in [Acts -> Nat]
  BY WonType DEF EndRun, Continued
<1> QED BY <1>1, <1>2, <1>3 DEF EndRun, TypeOK

\* Every step of a processor keeps the types.
LEMMA WorkerStepType ==
  ASSUME TypeOK, NEW w \in Workers, WorkerStep(w)
  PROVE  TypeOK'
<1> DEFINE W == worker[w]
<1>1. /\ W \in WorkerRecord /\ W.pc \in WorkerPc /\ W.act \in 0..MaxActs /\ W.node \in Nodes
      /\ W.lock \in BOOLEAN /\ W.task \in 0..MaxTasks /\ W.next \in 0..MaxActs
      /\ W.state \in RunRecord /\ W.ending \in RunRecord /\ W.sched \in SchedulingState
      /\ W.got \in SUBSET {"state", "sched"} /\ W.attempt \in Nat
  BY DEF TypeOK, WorkerRecord
<1>2. worker \in [Workers -> WorkerRecord] /\ run \in RunRecord
  BY DEF TypeOK
<1>3. W.state.count \in Nat /\ W.sched.queue \in Seq(Nodes) /\ W.state.resume \in Resumes
  BY <1>1 DEF RunRecord, SchedulingState
<1>4. \A pc \in WorkerPc : Goto(w, pc) \in WorkerRecord
  BY <1>2, GotoType
<1>5. ASSUME Return(w) PROVE worker' \in [Workers -> WorkerRecord]
  BY <1>2, <1>5, ReturnType
<1>6. {"mark", "clear", "exec", "error", "suspend", "result", "failSave", "dispatch"} \subseteq WorkerPc
  BY DEF WorkerPc
<1>7. ASSUME NEW a \in Acts, Receive(w, a) PROVE TypeOK'
  <2>1. a \in 0..MaxActs /\ nodeOf[a] \in Nodes
    BY LimitAssumption DEF TypeOK, Acts
  <2>2. worker' \in [Workers -> WorkerRecord]
    BY <1>2, <1>7, <2>1, IdleType DEF Receive, Becomes
  <2> QED BY <1>7, <2>2 DEF Receive, TypeOK
<1>8. ASSUME NEW parts \in SUBSET {"state", "sched"}, Read(w, parts) PROVE TypeOK'
  <2> DEFINE state == IF "state" \in parts THEN run ELSE W.state
             sched == IF "sched" \in parts THEN Sched(run) ELSE W.sched
  <2>1. state \in RunRecord /\ sched \in SchedulingState /\ W.got \cup parts \in SUBSET {"state", "sched"}
    BY <1>1, <1>2, SchedType
  <2>2. worker' = [worker EXCEPT ![w] = [W EXCEPT !.got = W.got \cup parts, !.state = state,
                                                  !.sched = sched]]
    BY <1>8 DEF Read, Becomes
  <2> HIDE DEF state, sched
  <2>3. [W EXCEPT !.got = W.got \cup parts, !.state = state, !.sched = sched] \in WorkerRecord
    BY <1>1, <2>1, ReadType
  <2>4. worker' \in [Workers -> WorkerRecord]
    BY <1>2, <2>2, <2>3
  <2> QED BY <1>8, <2>4 DEF Read, TypeOK
<1>9. ASSUME HandleIgnored(w) PROVE TypeOK'
  BY <1>5, <1>9 DEF HandleIgnored, TypeOK
<1>10. ASSUME Handle(w) PROVE TypeOK'
  <2> DEFINE ctx == IF W.state.resume.act = W.act THEN W.state.resume.verdict ELSE "none"
             pc == IF ctx = "none" THEN "mark" ELSE "clear"
  <2>1. ctx \in Verdicts \cup {"none"}
    BY <1>3 DEF Resumes
  <2>2. pc \in WorkerPc
    BY <1>6
  <2>3. worker' = [worker EXCEPT ![w] = [Goto(w, pc) EXCEPT !.ctx = ctx]]
    BY <1>10 DEF Handle, Becomes
  <2> HIDE DEF ctx, pc
  <2>4. [Goto(w, pc) EXCEPT !.ctx = ctx] \in WorkerRecord
    BY <1>4, <2>1, <2>2, WorkerUpdates
  <2> QED BY <1>2, <1>10, <2>3, <2>4 DEF Handle, TypeOK
<1>11. ASSUME ClearResume(w) PROVE TypeOK'
  <2>1. run' \in RunRecord
    BY <1>1, <1>2, <1>11, HitlUpdates, SavedType DEF ClearResume
  <2>2. worker' \in [Workers -> WorkerRecord]
    BY <1>2, <1>4, <1>6, <1>11 DEF ClearResume, Becomes
  <2> QED BY <1>11, <2>1, <2>2 DEF ClearResume, TypeOK
<1>12. ASSUME MarkNodeRunning(w) PROVE TypeOK'
  <2>1. run' \in RunRecord
    BY <1>1, <1>2, <1>12, SavedType DEF MarkNodeRunning
  <2>2. worker' \in [Workers -> WorkerRecord]
    BY <1>2, <1>4, <1>6, <1>12 DEF MarkNodeRunning, Becomes
  <2> QED BY <1>12, <2>1, <2>2 DEF MarkNodeRunning, TypeOK
<1>33. ASSUME ReportLoad(w) PROVE TypeOK'
  <2>1. worker' = [worker EXCEPT ![w] = [W EXCEPT !.pc = "report", !.state = run]]
    BY <1>33 DEF ReportLoad, Becomes
  <2>2. [W EXCEPT !.pc = "report", !.state = run] \in WorkerRecord
    BY <1>1, <1>2, WorkerUpdates
  <2>3. worker' \in [Workers -> WorkerRecord]
    BY <1>2, <2>1, <2>2
  <2> QED BY <1>33, <2>3 DEF ReportLoad, TypeOK
<1>34. ASSUME ReportSave(w) PROVE TypeOK'
  <2>1. run' \in RunRecord
    BY <1>1, <1>2, <1>34, SavedType DEF ReportSave
  <2>2. worker' = [worker EXCEPT ![w] = [Goto(w, "exec") EXCEPT !.reported = TRUE]]
    BY <1>34 DEF ReportSave, Becomes
  <2>3. [Goto(w, "exec") EXCEPT !.reported = TRUE] \in WorkerRecord
    BY <1>4, <1>6, WorkerUpdates
  <2>4. worker' \in [Workers -> WorkerRecord]
    BY <1>2, <2>2, <2>3
  <2> QED BY <1>34, <2>1, <2>4 DEF ReportSave, TypeOK
<1>13. ASSUME ExecuteReturns(w) PROVE TypeOK'
  <2>1. PICK out \in {"items", "empty", "halt"} : Becomes(w, [Goto(w, "result") EXCEPT !.out = out])
    BY <1>13 DEF ExecuteReturns
  <2>2. worker' \in [Workers -> WorkerRecord]
    BY <1>2, <1>4, <1>6, <2>1, WorkerUpdates DEF Becomes
  <2> QED BY <1>13, <2>2 DEF ExecuteReturns, TypeOK
<1>14. ASSUME ExecuteThrows(w) PROVE TypeOK'
  <2>1. \/ Becomes(w, [Goto(w, "exec") EXCEPT !.attempt = @ + 1])
        \/ Becomes(w, Goto(w, "error"))
    BY <1>14 DEF ExecuteThrows, RetryOr
  <2>2. Goto(w, "exec") \in WorkerRecord /\ Goto(w, "error") \in WorkerRecord
    BY <1>4, <1>6
  <2>3. [Goto(w, "exec") EXCEPT !.attempt = @ + 1] \in WorkerRecord
    BY <2>2, WorkerUpdates
  <2>4. worker' \in [Workers -> WorkerRecord]
    BY <1>2, <2>1, <2>2, <2>3, BecomesType
  <2> QED BY <1>14, <2>4 DEF ExecuteThrows, TypeOK
<1>15. ASSUME ExecuteSuspends(w) PROVE TypeOK'
  <2>1. worker' \in [Workers -> WorkerRecord]
    BY <1>2, <1>4, <1>6, <1>15 DEF ExecuteSuspends, Becomes
  <2> QED BY <1>15, <2>1 DEF ExecuteSuspends, TypeOK
<1>16. ASSUME Deliver(w) PROVE TypeOK'
  <2>1. tasks + 1 \in 0..MaxTasks
    BY <1>16, LimitAssumption DEF Deliver, TypeOK
  <2>2. worker' \in [Workers -> WorkerRecord]
    BY <1>1, <1>2, <1>16, <2>1, WorkerUpdates DEF Deliver, Becomes
  <2> QED BY <1>16, <2>1, <2>2 DEF Deliver, TypeOK
<1>17. ASSUME SuspendSave(w) PROVE TypeOK'
  <2>1. [task |-> W.task, node |-> W.node, act |-> W.act] \in Suspensions
    BY <1>1 DEF Suspensions
  <2>2. run' \in RunRecord
    BY <1>1, <1>2, <1>17, <2>1, HitlUpdates, SavedType DEF SuspendSave
  <2>3. worker' \in [Workers -> WorkerRecord]
    BY <1>2, <1>4, <1>5, <1>6, <1>17, WorkerUpdates DEF SuspendSave, Becomes
  <2> QED BY <1>17, <2>2, <2>3 DEF SuspendSave, TypeOK
<1>18. ASSUME ResultIgnored(w) PROVE TypeOK'
  <2>1. worker' \in [Workers -> WorkerRecord]
    BY <1>2, <1>4, <1>5, <1>6, <1>18 DEF ResultIgnored, Becomes
  <2> QED BY <1>18, <2>1 DEF ResultIgnored, TypeOK
<1>19. /\ \A s \in {"completed", "failed", "halted"} : s \in Terminal
       /\ <<>> \in Seq(Nodes)
  BY DEF Terminal
<1>20. ASSUME ResultHalts(w) PROVE TypeOK'
  BY <1>1, <1>3, <1>19, <1>20, EndRunType DEF ResultHalts
<1>21. ASSUME ResultCompletes(w) PROVE TypeOK'
  BY <1>1, <1>2, <1>19, <1>21, PlannedType, EndRunType DEF ResultCompletes
<1>22. ASSUME ResultOverBudget(w) PROVE TypeOK'
  BY <1>1, <1>2, <1>19, <1>22, PlannedType, EndRunType DEF ResultOverBudget
<1>23. ASSUME ResultRejected(w) PROVE TypeOK'
  BY <1>1, <1>2, <1>19, <1>23, PlannedType, EndRunType DEF ResultRejected
<1>24. ASSUME ResultEnqueues(w) PROVE TypeOK'
  <2> DEFINE node == Head(Planned(w))
             queue == Tail(Planned(w))
             ending == MergeTerminal(W.state, "failed", queue, Count(w))
  <2>1. node \in Nodes /\ queue \in Seq(Nodes) /\ Count(w) \in Nat
    BY <1>2, <1>24, PlannedType DEF ResultEnqueues
  <2>2. acts + 1 \in 0..MaxActs /\ acts' \in 0..MaxActs /\ nodeOf' \in [Acts -> Nodes]
    BY <1>24, <2>1, MakeActivationType DEF ResultEnqueues
  <2>3. run' = Saved(Enqueued(acts + 1, node, queue, Count(w), {}, NoResume), {})
    BY <1>24 DEF ResultEnqueues
  <2>4. worker' = [worker EXCEPT ![w] = [Goto(w, "dispatch") EXCEPT
                      !.next = acts + 1, !.ending = ending, !.keys = TerminalKeys(W.state)]]
    BY <1>24 DEF ResultEnqueues, Becomes
  <2>5. ending \in RunRecord
    BY <1>1, <1>19, <2>1, MergeTerminalType
  <2> HIDE DEF node, queue, ending
  <2>6. Enqueued(acts + 1, node, queue, Count(w), {}, NoResume) \in RunRecord
    BY <2>1, <2>2, EnqueuedType, LimitAssumption DEF NoResume, Resumes, Verdicts
  <2>7. run' \in RunRecord
    BY <1>2, <2>3, <2>6, SavedType
  <2>8. TerminalKeys(W.state) \in SUBSET HitlKeys
    BY DEF TerminalKeys, LoadedKeys, HitlKeys
  <2>9. [Goto(w, "dispatch") EXCEPT !.next = acts + 1, !.ending = ending,
                                    !.keys = TerminalKeys(W.state)] \in WorkerRecord
    BY <1>4, <1>6, <2>2, <2>5, <2>8, EndingType
  <2>10. worker' \in [Workers -> WorkerRecord]
    BY <1>2, <2>4, <2>9
  <2>11. won' \in [Acts -> Nat]
    BY <1>24, WonType DEF ResultEnqueues, Continued
  <2> QED BY <1>24, <2>2, <2>7, <2>10, <2>11 DEF ResultEnqueues, TypeOK
<1>25. ASSUME Dispatch(w) PROVE TypeOK'
  <2>1. jobs' \in [Acts -> {"none", "waiting", "active"}]
    BY <1>25 DEF Dispatch, TypeOK
  <2> QED BY <1>5, <1>25, <2>1 DEF Dispatch, TypeOK
<1>26. ASSUME SaveFailure(w) PROVE TypeOK'
  <2>1. run' \in RunRecord
    BY <1>1, <1>2, <1>26, SavedType DEF SaveFailure
  <2>2. won' \in [Acts -> Nat]
    BY <1>26, WonType DEF SaveFailure, TypeOK
  <2> QED BY <1>5, <1>26, <2>1, <2>2 DEF SaveFailure, TypeOK
<1>27. ASSUME ErrorIgnored(w) PROVE TypeOK'
  BY <1>5, <1>27 DEF ErrorIgnored, TypeOK
<1>28. ASSUME ErrorRecovers(w) PROVE TypeOK'
  <2> DEFINE ending == MergeTerminal(W.state, "failed", W.sched.queue, W.state.count)
             rec(out) == [Goto(w, "result") EXCEPT !.out = out, !.recovering = TRUE,
                                       !.ending = ending, !.keys = TerminalKeys(W.state)]
  <2>1. PICK out \in {"items", "empty"} : worker' = [worker EXCEPT ![w] = rec(out)]
    BY <1>28 DEF ErrorRecovers, Becomes
  <2>2. ending \in RunRecord
    BY <1>1, <1>3, <1>19, MergeTerminalType
  <2>3. TerminalKeys(W.state) \in SUBSET HitlKeys
    BY DEF TerminalKeys, LoadedKeys, HitlKeys
  <2> HIDE DEF ending
  <2>4. rec(out) \in WorkerRecord
    BY <1>4, <1>6, <2>2, <2>3, EndingType
  <2> HIDE DEF rec
  <2> QED BY <1>2, <1>28, <2>1, <2>4 DEF ErrorRecovers, TypeOK
<1>29. ASSUME ErrorFails(w) PROVE TypeOK'
  BY <1>1, <1>3, <1>19, <1>29, EndRunType DEF ErrorFails
<1>30. ASSUME Ack(w) PROVE TypeOK'
  <2>1. worker' \in [Workers -> WorkerRecord] /\ jobs' \in [Acts -> {"none", "waiting", "active"}]
    BY <1>2, <1>30, IdleType DEF Ack, Becomes, TypeOK
  <2> QED BY <1>30, <2>1 DEF Ack, TypeOK
<1> QED
  BY <1>7, <1>8, <1>9, <1>10, <1>11, <1>12, <1>13, <1>14, <1>15, <1>16, <1>17, <1>18, <1>20,
     <1>21, <1>22, <1>23, <1>24, <1>25, <1>26, <1>27, <1>28, <1>29, <1>30, <1>33, <1>34 DEF WorkerStep

\* Every step of a call of resumeRun keeps the types.
LEMMA ResumeStepType ==
  ASSUME TypeOK, NEW r \in Resumers, ResumeStep(r)
  PROVE  TypeOK'
<1> DEFINE R == resumer[r]
<1>1. R \in ResumerRecord /\ R.state \in RunRecord /\ R.task \in 0..MaxTasks /\ R.verdict \in Verdicts
  BY DEF TypeOK, ResumerRecord
<1>2. R.state.count \in Nat /\ R.state.susp \in SUBSET Suspensions
  BY <1>1 DEF RunRecord
<1>3. resumer \in [Resumers -> ResumerRecord] /\ run \in RunRecord
  BY DEF TypeOK
<1>4. ASSUME ResumeRefused(r) PROVE TypeOK'
  BY <1>4, ResumerUpdates DEF ResumeRefused, TypeOK
<1>5. ASSUME ResumeRejected(r) PROVE TypeOK'
  BY <1>5, ResumerUpdates DEF ResumeRejected, TypeOK
<1>6. ASSUME ResumeSave(r) PROVE TypeOK'
  <2> DEFINE remaining == R.state.susp \ Entries(r)
             resume == [act |-> acts + 1, verdict |-> R.verdict]
             keys == IF remaining = {} THEN {"resume"} ELSE {"resume", "susp"}
  <2>1. PICK entry \in Entries(r) :
          /\ MakeActivation(entry.node)
          /\ run' = Saved(Enqueued(acts + 1, entry.node, <<>>, R.state.count, remaining, resume), keys)
    BY <1>6 DEF ResumeSave
  <2>2. entry.node \in Nodes
    BY <1>2, <2>1 DEF Entries, Suspensions
  <2>3. acts + 1 \in 0..MaxActs /\ acts' \in 0..MaxActs /\ nodeOf' \in [Acts -> Nodes]
    BY <2>1, <2>2, MakeActivationType
  <2>4. remaining \in SUBSET Suspensions /\ resume \in Resumes /\ <<>> \in Seq(Nodes)
    BY <1>1, <1>2, <2>3 DEF Resumes
  <2> HIDE DEF remaining, resume, keys
  <2>5. Enqueued(acts + 1, entry.node, <<>>, R.state.count, remaining, resume) \in RunRecord
    BY <1>2, <2>2, <2>3, <2>4, EnqueuedType
  <2>6. run' \in RunRecord
    BY <1>3, <2>1, <2>5, SavedType
  <2>7. resumer' \in [Resumers -> ResumerRecord]
    BY <1>1, <1>3, <1>6, <2>3, ResumerUpdates DEF ResumeSave
  <2> QED BY <1>6, <2>3, <2>6, <2>7 DEF ResumeSave, TypeOK
<1>7. ASSUME ResumeDispatch(r) PROVE TypeOK'
  <2>1. resumer' \in [Resumers -> ResumerRecord] /\ jobs' \in [Acts -> {"none", "waiting", "active"}]
    BY <1>1, <1>3, <1>7, ResumerUpdates DEF ResumeDispatch, TypeOK
  <2> QED BY <1>7, <2>1 DEF ResumeDispatch, TypeOK
<1> QED BY <1>4, <1>5, <1>6, <1>7 DEF ResumeStep

\* Every fault keeps the types.
LEMMA FaultType ==
  ASSUME TypeOK, (\E w \in Workers, died \in BOOLEAN : Stall(w, died)) \/ DispatchFails
  PROVE  TypeOK'
<1>1. ASSUME NEW kind, Fault(kind) PROVE faults' \in 0..MaxFaults
  BY <1>1, LimitAssumption DEF Fault, TypeOK
<1>2. ASSUME NEW w \in Workers, JobStalls(worker[w].act)
      PROVE  jobs' \in [Acts -> {"none", "waiting", "active"}] /\ stalled' \subseteq 0..MaxActs
  BY <1>2 DEF JobStalls, TypeOK, WorkerRecord
<1>3. ASSUME NEW w \in Workers, NEW died \in BOOLEAN, Stall(w, died) PROVE TypeOK'
  <2>1. (IF died THEN IdleWorker ELSE [worker[w] EXCEPT !.lock = FALSE]) \in WorkerRecord
    BY WorkerUpdates, IdleType DEF TypeOK
  <2>2. worker' \in [Workers -> WorkerRecord]
    BY <1>3, <2>1 DEF Stall, Becomes, TypeOK
  <2> QED BY <1>1, <1>2, <1>3, <2>2 DEF Stall, TypeOK
<1>5. ASSUME DispatchFails PROVE TypeOK'
  <2> "terminate" \in WorkerPc
    BY DEF WorkerPc
  <2> worker \in [Workers -> WorkerRecord] /\ resumer \in [Resumers -> ResumerRecord]
    BY DEF TypeOK
  <2>1. worker' \in [Workers -> WorkerRecord] /\ resumer' \in [Resumers -> ResumerRecord]
    <3>1. ASSUME NEW w \in Workers, Becomes(w, [worker[w] EXCEPT !.pc = "terminate"])
          PROVE  worker' \in [Workers -> WorkerRecord]
      BY <3>1, WorkerUpdates DEF Becomes
    <3>2. ASSUME NEW r \in Resumers, resumer' = [resumer EXCEPT ![r].pc = "done"]
          PROVE  resumer' \in [Resumers -> ResumerRecord]
      BY <3>2, ResumerUpdates
    <3> QED BY <1>5, <3>1, <3>2 DEF DispatchFails
  <2>2. starter' \in {"start", "dispatch", "done"}
    BY <1>5 DEF DispatchFails, TypeOK
  <2> QED BY <1>1, <1>5, <2>1, <2>2 DEF DispatchFails, TypeOK
<1> QED BY <1>3, <1>5

\* The initial values have their types.
LEMMA InitType == Init => TypeOK
<1>1. 0 \in 0..MaxActs /\ 0 \in 0..MaxTasks /\ 0 \in 0..MaxFaults /\ Entry \in Nodes
  BY GraphAssumption, LimitAssumption
<1>2. ASSUME Init PROVE TypeOK
  BY <1>1, <1>2, CreatedRunType, IdleType, ResumerUpdates DEF Init, TypeOK
<1> QED BY <1>2

\* Every step of a run keeps the types.
LEMMA StepType ==
  ASSUME TypeOK, [Next]_vars
  PROVE  TypeOK'
<1>1. CASE Start
  <2>1. acts + 1 \in 0..MaxActs /\ acts' \in 0..MaxActs /\ nodeOf' \in [Acts -> Nodes]
    BY <1>1, GraphAssumption, MakeActivationType DEF Start
  <2>2. NoResume \in Resumes /\ <<>> \in Seq(Nodes) /\ {} \in SUBSET Suspensions
    BY LimitAssumption DEF NoResume, Resumes, Verdicts
  <2>3. Enqueued(acts + 1, Entry, <<>>, 0, {}, NoResume) \in RunRecord
    BY <2>1, <2>2, GraphAssumption, EnqueuedType
  <2>4. run' \in RunRecord
    BY <1>1, <2>3, SavedType DEF Start, TypeOK
  <2> QED BY <1>1, <2>1, <2>4 DEF Start, TypeOK
<1>2. CASE StartDispatch
  <2>1. jobs' \in [Acts -> {"none", "waiting", "active"}]
    BY <1>2 DEF StartDispatch, TypeOK
  <2> QED BY <1>2, <2>1 DEF StartDispatch, TypeOK
<1>3. CASE \E w \in Workers : WorkerStep(w)
  BY <1>3, WorkerStepType
<1>4. ASSUME NEW r \in Resumers, NEW task \in Tasks, NEW verdict \in Verdicts,
             ResumeCall(r, task, verdict)
      PROVE  TypeOK'
  <2>1. task \in 0..MaxTasks
    BY LimitAssumption DEF Tasks
  <2> QED BY <1>4, <2>1, ResumerUpdates DEF ResumeCall, TypeOK
<1>5. CASE \E r \in Resumers : ResumeStep(r)
  BY <1>5, ResumeStepType
<1>6. CASE (\E w \in Workers, died \in BOOLEAN : Stall(w, died)) \/ DispatchFails
  BY <1>6, FaultType
<1>7. CASE UNCHANGED vars
  BY <1>7 DEF vars, TypeOK
<1> QED BY <1>1, <1>2, <1>3, <1>4, <1>5, <1>6, <1>7 DEF Next

\* In every reachable state of a run, whatever the workflow, the number of processors and
\* decisions, the repository and the faults, the variables have their types.
THEOREM TypeCorrect == Spec => []TypeOK
BY InitType, StepType, PTL DEF Spec

-----------------------------------------------------------------------------
(* The activation budget of a workflow without approval nodes, for every    *)
(* graph, any number of processors, both repositories, every fault.  A      *)
(* handler saves what it loaded some steps ago, so the invariant has to     *)
(* speak of every copy of the run record: the stored one, and those the     *)
(* handlers and the calls of resumeRun hold.                                *)

\* A record that is within the budget and holds no suspension.
Lean(r) == WithinBudget(r) /\ r.susp = {}

\* A handler that holds such records only and is not suspending its node.
LeanWorker(rec) == Lean(rec.state) /\ Lean(rec.ending) /\ rec.pc \notin {"suspend", "suspendSave"}

LeanResumer(rec) == Lean(rec.state)

BudgetInv ==
  /\ TypeOK
  /\ Lean(run)
  /\ \A w \in Workers : LeanWorker(worker[w])
  /\ \A r \in Resumers : LeanResumer(resumer[r])

\* The record a run is created with is lean.
LEMMA CreatedRunLean == Lean(CreatedRun)
BY LimitAssumption DEF Lean, WithinBudget, CreatedRun

\* A save keeps the writer's status and counter and brings no suspension back.
LEMMA SavedLean ==
  ASSUME run \in RunRecord, Lean(run), NEW desired \in RunRecord, Lean(desired), NEW keys
  PROVE  Lean(Saved(desired, keys))
BY SavedType DEF Lean, WithinBudget

\* A record ends lean when its counter is within the budget.
LEMMA MergeTerminalLean ==
  ASSUME NEW state \in RunRecord, Lean(state), NEW status \in Terminal, NEW queue,
         NEW count \in Nat, count <= MaxNodeActivations
  PROVE  Lean(MergeTerminal(state, status, queue, count))
<1>1. /\ MergeTerminal(state, status, queue, count).status = status
      /\ MergeTerminal(state, status, queue, count).count = count
      /\ MergeTerminal(state, status, queue, count).susp = state.susp
  BY DEF MergeTerminal, RunRecord
<1> QED BY <1>1 DEF Lean, WithinBudget, Terminal

\* The record of a processor without a job is lean, and of one that has just taken or
\* finished one.
LEMMA IdleLean ==
  /\ LeanWorker(IdleWorker)
  /\ \A act, lock : LeanWorker([IdleWorker EXCEPT !.pc = "ack", !.act = act, !.lock = lock])
  /\ \A act, node : LeanWorker([IdleWorker EXCEPT !.pc = "handle", !.act = act, !.node = node,
                                                  !.lock = TRUE, !.attempt = 1])
BY CreatedRunLean DEF LeanWorker, IdleWorker

\* A handler that goes on, other than to suspend, stays lean.
LEMMA GotoLean ==
  ASSUME TypeOK, NEW w \in Workers, LeanWorker(worker[w]),
         NEW pc \in WorkerPc \ {"suspend", "suspendSave"}
  PROVE  /\ LeanWorker(Goto(w, pc))
         /\ \A ctx : LeanWorker([Goto(w, pc) EXCEPT !.ctx = ctx])
         /\ \A out : LeanWorker([Goto(w, pc) EXCEPT !.out = out])
         /\ LeanWorker([Goto(w, pc) EXCEPT !.attempt = @ + 1])
         /\ LeanWorker([Goto(w, pc) EXCEPT !.reported = TRUE])
         /\ \A next, keys, ending : Lean(ending) =>
              LeanWorker([Goto(w, pc) EXCEPT !.next = next, !.ending = ending, !.keys = keys])
         /\ \A out, keys, ending : Lean(ending) =>
              LeanWorker([Goto(w, pc) EXCEPT !.out = out, !.recovering = TRUE, !.ending = ending,
                                             !.keys = keys])
<1>1. /\ Goto(w, pc).pc = pc
      /\ Goto(w, pc).state = CreatedRun
      /\ Goto(w, pc).ending = worker[w].ending
  BY DEF TypeOK, WorkerRecord, Goto
<1>2. Goto(w, pc) \in WorkerRecord
  BY GotoType DEF TypeOK
<1>3. Lean(Goto(w, pc).state) /\ Lean(Goto(w, pc).ending)
  BY <1>1, CreatedRunLean DEF LeanWorker
<1> QED BY <1>1, <1>2, <1>3 DEF LeanWorker, WorkerRecord

\* A step of a processor that leaves a lean record of its own and of the run keeps the
\* invariant.
LEMMA LeanWorkerFrame ==
  ASSUME BudgetInv, TypeOK', NEW w \in Workers, NEW rec, LeanWorker(rec),
         worker' = [worker EXCEPT ![w] = rec], Lean(run'), resumer' = resumer
  PROVE  BudgetInv'
<1>1. \A v \in Workers : LeanWorker(worker'[v])
  BY DEF BudgetInv, TypeOK
<1> QED BY <1>1 DEF BudgetInv, LeanWorker, LeanResumer, Lean, WithinBudget

\* Ending a run whose record and new counter are within the budget keeps the invariant.
LEMMA EndRunLean ==
  ASSUME BudgetInv, NEW w \in Workers, NEW state \in RunRecord, Lean(state),
         NEW status \in Terminal, NEW queue \in Seq(Nodes), NEW count \in Nat,
         count <= MaxNodeActivations, EndRun(w, state, status, queue, count)
  PROVE  BudgetInv'
<1>1. TypeOK /\ TypeOK'
  BY EndRunType DEF BudgetInv
<1>2. Lean(run')
  <2>1. MergeTerminal(state, status, queue, count) \in RunRecord
    BY MergeTerminalType
  <2>2. Lean(MergeTerminal(state, status, queue, count))
    BY MergeTerminalLean
  <2> QED BY <2>1, <2>2, SavedLean DEF EndRun, BudgetInv, TypeOK
<1>3. resumer' = resumer
  BY DEF EndRun
<1>4. PICK act, lock : worker' = [worker EXCEPT ![w] = [IdleWorker EXCEPT !.pc = "ack", !.act = act,
                                                                        !.lock = lock]]
  BY DEF EndRun, Return, Becomes
<1> QED BY <1>1, <1>2, <1>3, <1>4, IdleLean, LeanWorkerFrame

\* Without approval nodes every step of a processor keeps the invariant: a handler adds to
\* the counter only when the record it read is pending, hence below the budget.
LEMMA WorkerStepLean ==
  ASSUME ApprovalNodes = {}, BudgetInv, NEW w \in Workers, WorkerStep(w)
  PROVE  BudgetInv'
<1> DEFINE W == worker[w]
<1>1. TypeOK /\ TypeOK'
  BY WorkerStepType DEF BudgetInv
<1>2. /\ worker \in [Workers -> WorkerRecord] /\ run \in RunRecord
      /\ W.state \in RunRecord /\ W.ending \in RunRecord /\ W.sched.queue \in Seq(Nodes)
      /\ W.state.count \in Nat
  BY <1>1 DEF TypeOK, WorkerRecord, SchedulingState, RunRecord
<1>3. /\ LeanWorker(W) /\ Lean(W.state) /\ Lean(W.ending) /\ Lean(run)
      /\ W.pc \notin {"suspend", "suspendSave"}
  BY DEF BudgetInv, LeanWorker
<1>4. Lean(W.state)
  BY <1>3
<1>5. ASSUME NEW rec, LeanWorker(rec), Becomes(w, rec), Lean(run'), resumer' = resumer
      PROVE  BudgetInv'
  BY <1>1, <1>5, LeanWorkerFrame DEF Becomes
<1>6. ASSUME Return(w), Lean(run'), resumer' = resumer PROVE BudgetInv'
  BY <1>5, <1>6, IdleLean DEF Return
<1>7. ASSUME NEW pc \in WorkerPc \ {"suspend", "suspendSave"}, Becomes(w, Goto(w, pc)),
             Lean(run'), resumer' = resumer
      PROVE  BudgetInv'
  BY <1>1, <1>3, <1>5, <1>7, GotoLean
<1>8. {"mark", "clear", "exec", "error", "result", "failSave", "dispatch"}
        \subseteq WorkerPc \ {"suspend", "suspendSave"}
  BY DEF WorkerPc
<1>9. ASSUME run' = run PROVE Lean(run')
  BY <1>3, <1>9
<1>10. ASSUME NEW a \in Acts, Receive(w, a) PROVE BudgetInv'
  BY <1>5, <1>9, <1>10, IdleLean DEF Receive
<1>11. ASSUME NEW parts \in SUBSET {"state", "sched"}, Read(w, parts) PROVE BudgetInv'
  <2> DEFINE rec == [W EXCEPT !.got = @ \cup parts, !.state = IF "state" \in parts THEN run ELSE @,
                              !.sched = IF "sched" \in parts THEN Sched(run) ELSE @]
  <2>1. LeanWorker(rec)
    BY <1>2, <1>3 DEF LeanWorker, WorkerRecord
  <2>2. Becomes(w, rec) /\ run' = run /\ resumer' = resumer
    BY <1>11 DEF Read
  <2> QED BY <1>5, <1>9, <2>1, <2>2
<1>12. ASSUME HandleIgnored(w) PROVE BudgetInv'
  BY <1>6, <1>9, <1>12 DEF HandleIgnored
<1>13. ASSUME Handle(w) PROVE BudgetInv'
  <2>0. PICK pc \in {"mark", "clear"} : \E ctx : Becomes(w, [Goto(w, pc) EXCEPT !.ctx = ctx])
    BY <1>13 DEF Handle
  <2>1. PICK ctx : Becomes(w, [Goto(w, pc) EXCEPT !.ctx = ctx])
    BY <2>0
  <2> QED BY <1>1, <1>3, <1>5, <1>8, <1>9, <1>13, <2>1, GotoLean DEF Handle
<1>14. ASSUME ClearResume(w) PROVE BudgetInv'
  <2>1. [W.state EXCEPT !.resume = NoResume] \in RunRecord
    BY <1>2, HitlUpdates
  <2>2. Lean([W.state EXCEPT !.resume = NoResume])
    BY <1>2, <1>3 DEF Lean, WithinBudget, RunRecord
  <2>3. Lean(run')
    BY <1>2, <1>3, <1>14, <2>1, <2>2, SavedLean DEF ClearResume
  <2> QED BY <1>7, <1>8, <1>14, <2>3 DEF ClearResume
<1>15. ASSUME MarkNodeRunning(w) PROVE BudgetInv'
  <2>1. Lean(run')
    BY <1>2, <1>3, <1>15, SavedLean DEF MarkNodeRunning
  <2> QED BY <1>7, <1>8, <1>15, <2>1 DEF MarkNodeRunning
<1>33. ASSUME ReportLoad(w) PROVE BudgetInv'
  <2>1. LeanWorker([W EXCEPT !.pc = "report", !.state = run])
    BY <1>2, <1>3 DEF LeanWorker, WorkerRecord
  <2> QED BY <1>5, <1>9, <1>33, <2>1 DEF ReportLoad
<1>34. ASSUME ReportSave(w) PROVE BudgetInv'
  <2>1. Lean(run')
    BY <1>2, <1>3, <1>34, SavedLean DEF ReportSave
  <2>2. LeanWorker([Goto(w, "exec") EXCEPT !.reported = TRUE])
    BY <1>1, <1>3, <1>8, GotoLean
  <2> QED BY <1>5, <1>34, <2>1, <2>2 DEF ReportSave
<1>16. ASSUME ExecuteReturns(w) PROVE BudgetInv'
  <2>1. PICK out : Becomes(w, [Goto(w, "result") EXCEPT !.out = out])
    BY <1>16 DEF ExecuteReturns
  <2> QED BY <1>1, <1>3, <1>5, <1>8, <1>9, <1>16, <2>1, GotoLean DEF ExecuteReturns
<1>17. ASSUME ExecuteThrows(w) PROVE BudgetInv'
  BY <1>1, <1>3, <1>5, <1>7, <1>8, <1>9, <1>17, GotoLean DEF ExecuteThrows, RetryOr
<1>18. ~ExecuteSuspends(w) /\ ~Deliver(w) /\ ~SuspendSave(w)
  BY <1>3 DEF ExecuteSuspends, Deliver, SuspendSave
<1>19. ASSUME ResultIgnored(w) PROVE BudgetInv'
  BY <1>6, <1>7, <1>8, <1>9, <1>19 DEF ResultIgnored
<1>20. {"completed", "failed", "halted"} \subseteq Terminal /\ <<>> \in Seq(Nodes)
  BY DEF Terminal
<1>21. ASSUME IsPending(w) PROVE Count(w) <= MaxNodeActivations /\ W.state.count <= MaxNodeActivations
  BY <1>2, <1>3, <1>21, LimitAssumption DEF IsPending, Lean, WithinBudget, Count
<1>22. ASSUME ResultHalts(w) PROVE BudgetInv'
  BY <1>2, <1>3, <1>20, <1>21, <1>22, EndRunLean DEF ResultHalts, InResult
<1>23. ASSUME ResultCompletes(w) PROVE BudgetInv'
  BY <1>2, <1>3, <1>20, <1>21, <1>23, PlannedType, EndRunLean DEF ResultCompletes, InResult
<1>24. ASSUME ResultOverBudget(w) PROVE BudgetInv'
  BY <1>2, <1>3, <1>20, <1>21, <1>24, PlannedType, EndRunLean DEF ResultOverBudget, InResult
<1>25. ASSUME ResultRejected(w) PROVE BudgetInv'
  BY <1>2, <1>3, <1>20, <1>21, <1>25, PlannedType, EndRunLean DEF ResultRejected, InResult
<1>26. ASSUME ResultEnqueues(w) PROVE BudgetInv'
  <2> DEFINE node == Head(Planned(w))
             queue == Tail(Planned(w))
             ending == MergeTerminal(W.state, "failed", queue, Count(w))
             desired == Enqueued(acts + 1, node, queue, Count(w), {}, NoResume)
  <2>1. node \in Nodes /\ queue \in Seq(Nodes) /\ Count(w) \in Nat
    BY <1>2, <1>26, PlannedType DEF ResultEnqueues
  <2>2. acts + 1 \in 0..MaxActs
    BY <1>1, <1>26, <2>1, MakeActivationType DEF ResultEnqueues
  <2>3. Count(w) < MaxNodeActivations
    BY <1>26 DEF ResultEnqueues
  <2>4. Lean(desired)
    BY <2>1, <2>3, LimitAssumption DEF Enqueued, Lean, WithinBudget
  <2>5. Lean(ending)
    BY <1>2, <1>3, <1>20, <2>1, <2>3, LimitAssumption, MergeTerminalLean
  <2>6. run' = Saved(desired, {})
    BY <1>26 DEF ResultEnqueues
  <2>7. \E next, keys : Becomes(w, [Goto(w, "dispatch") EXCEPT
                                     !.next = next, !.ending = ending, !.keys = keys])
    BY <1>26 DEF ResultEnqueues
  <2>8. resumer' = resumer
    BY <1>26 DEF ResultEnqueues
  <2> HIDE DEF node, queue, ending
  <2>9. desired \in RunRecord
    BY <2>1, <2>2, EnqueuedType, LimitAssumption DEF NoResume, Resumes, Verdicts
  <2> HIDE DEF desired
  <2>10. Lean(run')
    BY <1>2, <1>3, <2>4, <2>6, <2>9, SavedLean
  <2> QED BY <1>1, <1>3, <1>5, <1>8, <2>5, <2>7, <2>8, <2>10, GotoLean
<1>27. ASSUME Dispatch(w) PROVE BudgetInv'
  BY <1>6, <1>9, <1>27 DEF Dispatch
<1>28. ASSUME SaveFailure(w) PROVE BudgetInv'
  <2>1. Lean(run')
    BY <1>2, <1>3, <1>28, SavedLean DEF SaveFailure
  <2> QED BY <1>6, <1>28, <2>1 DEF SaveFailure
<1>29. ASSUME ErrorIgnored(w) PROVE BudgetInv'
  BY <1>6, <1>9, <1>29 DEF ErrorIgnored
<1>30. ASSUME ErrorRecovers(w) PROVE BudgetInv'
  <2> DEFINE ending == MergeTerminal(W.state, "failed", W.sched.queue, W.state.count)
  <2>1. \E out, keys : Becomes(w, [Goto(w, "result") EXCEPT !.out = out, !.recovering = TRUE,
                                                   !.ending = ending, !.keys = keys])
    BY <1>30 DEF ErrorRecovers
  <2>2. Lean(ending)
    BY <1>2, <1>3, <1>20, <1>21, <1>30, MergeTerminalLean DEF ErrorRecovers, InError
  <2>3. resumer' = resumer /\ run' = run
    BY <1>30 DEF ErrorRecovers
  <2> HIDE DEF ending
  <2> QED BY <1>1, <1>3, <1>5, <1>8, <1>9, <2>1, <2>2, <2>3, GotoLean
<1>31. ASSUME ErrorFails(w) PROVE BudgetInv'
  BY <1>2, <1>3, <1>20, <1>21, <1>31, EndRunLean DEF ErrorFails, InError
<1>32. ASSUME Ack(w) PROVE BudgetInv'
  BY <1>5, <1>9, <1>32, IdleLean DEF Ack
<1> QED
  BY <1>10, <1>11, <1>12, <1>13, <1>14, <1>15, <1>16, <1>17, <1>18, <1>19, <1>22, <1>23, <1>24,
     <1>25, <1>26, <1>27, <1>28, <1>29, <1>30, <1>31, <1>32, <1>33, <1>34 DEF WorkerStep

\* So does every other step: starting the run, the calls of resumeRun, the faults.
LEMMA OtherStepLean ==
  ASSUME BudgetInv, TypeOK',
         \/ Start \/ StartDispatch
         \/ \E r \in Resumers, task \in Tasks, verdict \in Verdicts : ResumeCall(r, task, verdict)
         \/ \E r \in Resumers : ResumeStep(r)
         \/ \E w \in Workers, died \in BOOLEAN : Stall(w, died)
         \/ DispatchFails
  PROVE  BudgetInv'
<1> USE DEF LeanResumer
<1>1. TypeOK /\ Lean(run) /\ run \in RunRecord
  BY DEF BudgetInv, TypeOK
<1>2. ASSUME Lean(run'), UNCHANGED <<worker, resumer>> PROVE BudgetInv'
  BY <1>2 DEF BudgetInv, Lean, LeanWorker, WithinBudget
<1>3. ASSUME run' = run, UNCHANGED worker,
             NEW r \in Resumers, NEW rec, Lean(rec.state), resumer' = [resumer EXCEPT ![r] = rec]
      PROVE  BudgetInv'
  <2>1. \A q \in Resumers : LeanResumer(resumer'[q])
    BY <1>1, <1>3 DEF BudgetInv, TypeOK
  <2> QED BY <1>3, <2>1 DEF BudgetInv, Lean, LeanWorker, WithinBudget
<1>4. ASSUME run' = run, UNCHANGED resumer,
             NEW w \in Workers, NEW rec, LeanWorker(rec), Becomes(w, rec)
      PROVE  BudgetInv'
  BY <1>1, <1>4, LeanWorkerFrame DEF Becomes
<1>5. CASE Start
  <2>1. acts + 1 \in 0..MaxActs
    BY <1>1, <1>5, GraphAssumption, MakeActivationType DEF Start
  <2>2. NoResume \in Resumes /\ <<>> \in Seq(Nodes) /\ {} \in SUBSET Suspensions
    BY LimitAssumption DEF NoResume, Resumes, Verdicts
  <2>3. Enqueued(acts + 1, Entry, <<>>, 0, {}, NoResume) \in RunRecord
    BY <2>1, <2>2, GraphAssumption, EnqueuedType
  <2>4. Lean(Enqueued(acts + 1, Entry, <<>>, 0, {}, NoResume))
    BY LimitAssumption DEF Enqueued, Lean, WithinBudget
  <2> QED BY <1>1, <1>2, <1>5, <2>3, <2>4, SavedLean DEF Start
<1>6. CASE StartDispatch
  BY <1>1, <1>2, <1>6 DEF StartDispatch
<1>7. ASSUME NEW r \in Resumers, NEW task \in Tasks, NEW verdict \in Verdicts,
             ResumeCall(r, task, verdict)
      PROVE  BudgetInv'
  <2> DEFINE rec == [IdleResumer EXCEPT !.pc = "loaded", !.task = task, !.verdict = verdict,
                                        !.state = run]
  <2>1. rec.state = run
    BY ResumerUpdates DEF ResumerRecord
  <2>2. resumer' = [resumer EXCEPT ![r] = rec] /\ run' = run /\ worker' = worker
    BY <1>7 DEF ResumeCall
  <2> HIDE DEF rec
  <2> QED BY <1>1, <1>3, <2>1, <2>2
<1>8. ASSUME NEW r \in Resumers, ResumeStep(r) PROVE BudgetInv'
  <2>1. Lean(resumer[r].state) /\ resumer[r] \in ResumerRecord
    BY <1>1 DEF BudgetInv, TypeOK
  <2>2. ~ResumeSave(r)
    BY <2>1 DEF ResumeSave, Entries, Lean
  <2>3. Lean([IdleResumer EXCEPT !.pc = "done"].state)
    BY CreatedRunLean DEF IdleResumer
  <2>4. CASE ResumeRefused(r) \/ ResumeRejected(r)
    BY <1>3, <2>3, <2>4 DEF ResumeRefused, ResumeRejected
  <2>5. CASE ResumeDispatch(r)
    <3>1. [resumer[r] EXCEPT !.pc = "done"].state = resumer[r].state
      BY <2>1 DEF ResumerRecord
    <3> QED BY <1>3, <2>1, <2>5, <3>1 DEF ResumeDispatch
  <2> QED BY <1>8, <2>2, <2>4, <2>5 DEF ResumeStep
<1>9. ASSUME NEW w \in Workers, NEW died \in BOOLEAN, Stall(w, died) PROVE BudgetInv'
  <2>1. LeanWorker([worker[w] EXCEPT !.lock = FALSE])
    BY <1>1 DEF BudgetInv, TypeOK, LeanWorker, WorkerRecord
  <2>2. LeanWorker(IF died THEN IdleWorker ELSE [worker[w] EXCEPT !.lock = FALSE])
    BY <2>1, IdleLean
  <2> QED BY <1>4, <1>9, <2>2 DEF Stall
<1>11. CASE DispatchFails
  <2>1. ASSUME NEW w \in Workers, Becomes(w, [worker[w] EXCEPT !.pc = "terminate"]),
               run' = run, UNCHANGED resumer
        PROVE  BudgetInv'
    <3>1. LeanWorker([worker[w] EXCEPT !.pc = "terminate"])
      BY <1>1 DEF BudgetInv, TypeOK, LeanWorker, WorkerRecord
    <3> QED BY <1>4, <2>1, <3>1
  <2>2. ASSUME NEW r \in Resumers, resumer' = [resumer EXCEPT ![r].pc = "done"],
               run' = run, UNCHANGED worker
        PROVE  BudgetInv'
    <3>1. resumer[r] \in ResumerRecord /\ Lean(resumer[r].state)
      BY <1>1 DEF BudgetInv, TypeOK
    <3>2. [resumer[r] EXCEPT !.pc = "done"].state = resumer[r].state
      BY <3>1 DEF ResumerRecord
    <3> QED BY <1>3, <2>2, <3>1, <3>2
  <2> QED BY <1>1, <1>2, <1>11, <2>1, <2>2 DEF DispatchFails
<1> QED BY <1>5, <1>6, <1>7, <1>8, <1>9, <1>11

\* A run of a workflow without approval nodes is never activated past its budget, however
\* many processors work on it, whatever they lose, repeat or overwrite of each other.
THEOREM BudgetCorrect ==
  ASSUME ApprovalNodes = {}
  PROVE  Spec => []BudgetRespected
<1>1. ASSUME Init PROVE BudgetInv
  <2>1. TypeOK
    BY <1>1, InitType
  <2>2. Lean(IdleResumer.state)
    BY CreatedRunLean DEF IdleResumer
  <2> QED BY <1>1, <2>1, <2>2, CreatedRunLean, IdleLean DEF Init, BudgetInv, LeanResumer
<1>2. ASSUME BudgetInv, TypeOK', [Next]_vars PROVE BudgetInv'
  <2>1. CASE \E w \in Workers : WorkerStep(w)
    BY <1>2, <2>1, WorkerStepLean
  <2>2. CASE UNCHANGED vars
    BY <1>2, <2>2 DEF vars, BudgetInv, Lean, LeanWorker, LeanResumer, WithinBudget
  <2> QED BY <1>2, <2>1, <2>2, OtherStepLean DEF Next
<1>3. BudgetInv => BudgetRespected
  BY DEF BudgetInv, Lean, BudgetRespected
<1> QED BY <1>1, <1>2, <1>3, TypeCorrect, PTL DEF Spec
=============================================================================
