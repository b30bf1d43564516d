----------------------------- MODULE HumanTaskProof -----------------------------
(***************************************************************************)
(* What joins a run to its human tasks, for every workflow, any number of  *)
(* workers and callers, both repositories and every fault: an entry of a   *)
(* suspended run - in whatever stale copy of the record - is of a task     *)
(* whose row was made, and its timeout job unless that failed, and a       *)
(* verdict that reaches a node was given to a task the run had been        *)
(* suspended with for this node.  The last part is about one processor     *)
(* that does not retry: no answer is stranded.                             *)
(***************************************************************************)
EXTENDS HumanTask, RunContinuationActivations

-----------------------------------------------------------------------------
(* The inductive invariant. *)

\* What the copies of the run record are judged by: the activations made, and the tasks.  The
\* definitions below take it as a parameter h, so that a copy can be judged by a later one.
World == [acts |-> acts, nodeOf |-> nodeOf, row |-> row, timer |-> timer, asked |-> asked,
          resumer |-> resumer, caller |-> caller]

\* Task t can be found; a suspension entry was saved after the row and the job of its task.
Born(h, t) == t \in Tasks /\ h.row[t].status # "none"
Asked(h, s) == /\ s \in h.asked
               /\ Born(h, s.task) /\ h.row[s.task].node = s.node /\ h.timer[s.task] # "none"

\* The verdict for this activation of this node: of the caller that resumed the run into it, for
\* a task that was asked for the node.
Given(h, act, node, verdict) ==
  /\ act # 0
  /\ \E r \in Resumers, e \in h.asked :
       /\ h.resumer[r].next = act /\ h.caller[r].verdict = verdict
       /\ e.task = h.caller[r].task /\ e.node = node
       /\ Born(h, e.task) /\ h.row[e.task].status \in Resolved

\* In a copy of the run record: its entries were asked, and the decision it carries was given
\* for the activation it names.
ResumeGiven(h, resume) ==
  resume.act # 0 =>
    resume.act <= h.acts /\ Given(h, resume.act, h.nodeOf[resume.act], resume.verdict)
Told(h, r) == (\A s \in r.susp : Asked(h, s)) /\ ResumeGiven(h, r.resume)

WorkerTold(h, rec) ==
  /\ Told(h, rec.state) /\ Told(h, rec.ending)
  /\ rec.ctx # "none" => Given(h, rec.act, rec.node, rec.ctx)
  /\ rec.pc # "idle" => rec.act # 0

ResumerTold(h, rec) ==
  /\ Told(h, rec.state)
  /\ rec.pc = "loaded" => Born(h, rec.task) /\ h.row[rec.task].status \in Resolved

\* Between its read and its resume a caller has a task that exists, from its mark on one that
\* is resolved.
CallerTold(h, rec) ==
  /\ rec.pc \notin {"idle", "done"} => Born(h, rec.task)
  /\ rec.pc \in {"cancel", "call", "wait"} => h.row[rec.task].status \in Resolved

\* A caller and its call of resumeRun go together.
CallerInCall(r) ==
  /\ resumer[r].pc \in {"loaded", "dispatch"} =>
       caller[r].pc = "wait" /\ resumer[r].task = caller[r].task
  /\ resumer[r].pc = "loaded" => resumer[r].verdict = caller[r].verdict
  /\ caller[r].pc \notin {"wait", "done"} => resumer[r].pc = "idle"
  /\ resumer[r].pc \in {"idle", "loaded"} => resumer[r].next = 0

\* A row is created once, before its job; its job goes when the task is resolved, or is lost.
RowsInv ==
  \A t \in Tasks : /\ row[t] = NoRow \/ row[t].status # "none"
                   /\ row[t].status # "none" => t <= tasks
                   /\ timer[t] # "none" => row[t].status # "none"
                   /\ timer[t] = "gone" => \/ row[t].status \in Resolved
                                           \/ t \in lost \/ ~TimeoutQueue

\* A worker that is delivering has a task of its own; if the row is there, it is the worker's.
Delivers(w) == worker[w].pc = "suspendSave"
TasksApart ==
  /\ \A w \in Workers : Delivers(w) =>
       /\ worker[w].task \in Tasks /\ worker[w].task <= tasks
       /\ row[worker[w].task].status # "none" => row[worker[w].task].node = worker[w].node
  /\ \A v, w \in Workers : Delivers(v) /\ Delivers(w) /\ worker[v].task = worker[w].task => v = w

TellInv ==
  /\ Told(World, run) /\ RowsInv /\ TasksApart
  /\ \A w \in Workers : WorkerTold(World, worker[w])
  /\ \A r \in Resumers : /\ ResumerTold(World, resumer[r]) /\ CallerTold(World, caller[r])
                         /\ CallerInCall(r)

TaskInv == MatchInv /\ TaskTypeOK /\ TellInv

-----------------------------------------------------------------------------
(* What a step of a worker may do to the approvals: it goes on with records it read or that *)
(* were there, and stores entries and decisions it read, or the entry of its own task.      *)

Onward(w, rec) ==
  /\ rec.state \in {CreatedRun, worker[w].state, run}
  /\ \/ rec.ending \in {CreatedRun, worker[w].ending}
     \/ rec.ending.susp = worker[w].state.susp /\ rec.ending.resume = worker[w].state.resume
  /\ \/ rec.ctx = "none"
     \/ rec.ctx = worker[w].ctx /\ rec.node = worker[w].node /\ rec.act = worker[w].act
     \/ /\ worker[w].pc = "handle" /\ rec.node = worker[w].node /\ rec.act = worker[w].act
        /\ worker[w].state.resume.act = worker[w].act /\ worker[w].state.resume.verdict = rec.ctx
  /\ rec.pc # "idle" => rec.act \in Acts \/ (worker[w].pc # "idle" /\ rec.act = worker[w].act)
  /\ rec.pc = "suspendSave" =>
       \/ worker[w].pc = "suspendSave" /\ rec.task = worker[w].task /\ rec.node = worker[w].node
       \/ tasks < MaxTasks /\ tasks' = tasks + 1 /\ rec.task = tasks + 1

OwnEntry(w) == [task |-> worker[w].task, node |-> worker[w].node, act |-> worker[w].act]
Stores(w) ==
  /\ \A s \in run'.susp : \/ s \in run.susp \cup worker[w].state.susp \cup worker[w].ending.susp
                          \/ worker[w].pc = "suspendSave" /\ s = OwnEntry(w)
  /\ run'.resume \in {run.resume, worker[w].state.resume, worker[w].ending.resume, NoResume}

Effect(w) ==
  /\ \E rec : Becomes(w, rec) /\ Onward(w, rec)
  /\ Stores(w) /\ Grow /\ tasks' \in {tasks, tasks + 1} /\ resumer' = resumer

\* A save stores the approvals of the writer's record or of the stored one.
LEMMA SavedHitl ==
  ASSUME run \in RunRecord, NEW desired \in RunRecord, NEW keys
  PROVE  /\ Saved(desired, keys).susp \in {desired.susp, run.susp}
         /\ Saved(desired, keys).resume \in {desired.resume, run.resume}
<1>1. ASSUME NEW r \in RunRecord, NEW n \in Nat
      PROVE  [r EXCEPT !.rev = n].susp = r.susp /\ [r EXCEPT !.rev = n].resume = r.resume
  BY DEF RunRecord
<1>2. run.rev + 1 \in Nat /\ desired.rev + 1 \in Nat
  BY DEF RunRecord
<1>3. /\ Merge(run, desired, keys) \in RunRecord
      /\ Merge(run, desired, keys).susp \in {desired.susp, run.susp}
      /\ Merge(run, desired, keys).resume \in {desired.resume, run.resume}
  <2>1. Merge(run, desired, keys).resume \in {desired.resume, run.resume}
    BY DEF Merge, RunRecord
  <2> QED BY <2>1, MergeType
<1>4. CASE Store = "memory"
  BY <1>1, <1>2, <1>4 DEF Saved
<1>5. CASE Store # "memory" /\ desired.rev = run.rev
  <2>1. Saved(desired, keys) = [desired EXCEPT !.rev = run.rev + 1]
    BY <1>5 DEF Saved
  <2> QED BY <2>1, <1>1, <1>2
<1>6. CASE Store # "memory" /\ desired.rev # run.rev
  <2>1. Saved(desired, keys) = [Merge(run, desired, keys) EXCEPT !.rev = run.rev + 1]
    BY <1>6 DEF Saved
  <2> QED BY <2>1, <1>1, <1>2, <1>3
<1> QED BY <1>4, <1>5, <1>6

\* The record a run ends with keeps the approvals.
LEMMA MergeTerminalHitl ==
  ASSUME NEW state \in RunRecord, NEW status, NEW queue, NEW count
  PROVE  /\ MergeTerminal(state, status, queue, count).susp = state.susp
         /\ MergeTerminal(state, status, queue, count).resume = state.resume
BY DEF MergeTerminal, RunRecord

\* A handler that goes on at pc, with whatever it has decided.
LEMMA GotoOnward ==
  ASSUME worker \in [Workers -> WorkerRecord], NEW w \in Workers, worker[w].pc # "idle",
         NEW pc \in WorkerPc, pc # "suspendSave"
  PROVE  /\ Onward(w, Goto(w, pc))
         /\ \A out : Onward(w, [Goto(w, pc) EXCEPT !.out = out])
         /\ Onward(w, [Goto(w, pc) EXCEPT !.attempt = @ + 1])
         /\ Onward(w, [Goto(w, pc) EXCEPT !.reported = TRUE])
         /\ Onward(w, [Goto(w, pc) EXCEPT !.attempt = @ + 1, !.task = 0])
         /\ Onward(w, [Goto(w, pc) EXCEPT !.ctx = "none"])
         /\ worker[w].pc = "handle" /\ worker[w].state.resume.act = worker[w].act =>
              Onward(w, [Goto(w, pc) EXCEPT !.ctx = worker[w].state.resume.verdict])
         /\ \A next, keys, ending :
              ending.susp = worker[w].state.susp /\ ending.resume = worker[w].state.resume =>
                Onward(w, [Goto(w, pc) EXCEPT !.next = next, !.ending = ending, !.keys = keys])
         /\ \A out, keys, ending :
              ending.susp = worker[w].state.susp /\ ending.resume = worker[w].state.resume =>
                Onward(w, [Goto(w, pc) EXCEPT !.out = out, !.recovering = TRUE,
                                              !.ending = ending, !.keys = keys])
<1> DEFINE G == Goto(w, pc)
<1>1. /\ G.pc = pc /\ G.act = worker[w].act /\ G.node = worker[w].node /\ G.ctx = worker[w].ctx
      /\ G.state = CreatedRun /\ G.ending = worker[w].ending
  BY DEF WorkerRecord, Goto
<1>2. G \in WorkerRecord
  BY GotoType
<1> HIDE DEF G
<1>3. /\ Onward(w, G) /\ \A out : Onward(w, [G EXCEPT !.out = out])
  BY <1>1, <1>2 DEF Onward, WorkerRecord
<1>4. /\ Onward(w, [G EXCEPT !.attempt = @ + 1]) /\ Onward(w, [G EXCEPT !.reported = TRUE])
      /\ Onward(w, [G EXCEPT !.attempt = @ + 1, !.task = 0])
      /\ Onward(w, [G EXCEPT !.ctx = "none"])
  BY <1>1, <1>2 DEF Onward, WorkerRecord
<1>5. worker[w].pc = "handle" /\ worker[w].state.resume.act = worker[w].act =>
        Onward(w, [G EXCEPT !.ctx = worker[w].state.resume.verdict])
  BY <1>1, <1>2 DEF Onward, WorkerRecord
<1>6. \A next, keys, ending :
        ending.susp = worker[w].state.susp /\ ending.resume = worker[w].state.resume =>
          Onward(w, [G EXCEPT !.next = next, !.ending = ending, !.keys = keys])
  BY <1>1, <1>2 DEF Onward, WorkerRecord
<1>7. \A out, keys, ending :
        ending.susp = worker[w].state.susp /\ ending.resume = worker[w].state.resume =>
          Onward(w, [G EXCEPT !.out = out, !.recovering = TRUE, !.ending = ending, !.keys = keys])
  BY <1>1, <1>2 DEF Onward, WorkerRecord
<1> QED BY <1>3, <1>4, <1>5, <1>6, <1>7 DEF G

\* A processor without a job, or with one it has just taken or finished.
LEMMA IdleOnward ==
  ASSUME NEW w \in Workers
  PROVE  /\ Onward(w, IdleWorker)
         /\ worker[w].pc # "idle" =>
              \A lock : Onward(w, [IdleWorker EXCEPT !.pc = "ack", !.act = worker[w].act,
                                                     !.lock = lock])
         /\ \A a \in Acts : \A node :
              Onward(w, [IdleWorker EXCEPT !.pc = "handle", !.act = a, !.node = node,
                                           !.lock = TRUE, !.attempt = 1])
<1>1. Onward(w, IdleWorker)
  BY DEF Onward, IdleWorker
<1>2. worker[w].pc # "idle" =>
        \A lock : Onward(w, [IdleWorker EXCEPT !.pc = "ack", !.act = worker[w].act, !.lock = lock])
  BY DEF Onward, IdleWorker
<1>3. \A a \in Acts : \A node :
        Onward(w, [IdleWorker EXCEPT !.pc = "handle", !.act = a, !.node = node, !.lock = TRUE,
                                     !.attempt = 1])
  BY DEF Onward, IdleWorker
<1> QED BY <1>1, <1>2, <1>3

\* Every step of a worker does no more than that.
LEMMA WorkerEffect ==
  ASSUME TypeOK, NEW w \in Workers, WorkerStep(w)
  PROVE  Effect(w)
<1> DEFINE W == worker[w]
<1>1. /\ worker \in [Workers -> WorkerRecord] /\ run \in RunRecord /\ acts \in Nat /\ tasks \in Nat
      /\ W \in WorkerRecord /\ W.state \in RunRecord /\ W.ending \in RunRecord
      /\ W.sched.queue \in Seq(Nodes) /\ W.state.count \in Nat
  <2>1. worker \in [Workers -> WorkerRecord] /\ run \in RunRecord /\ acts \in Nat /\ tasks \in Nat
    BY DEF TypeOK
  <2>2. W \in WorkerRecord /\ W.state \in RunRecord /\ W.ending \in RunRecord
        /\ W.sched \in SchedulingState
    BY <2>1 DEF WorkerRecord
  <2> QED BY <2>1, <2>2 DEF SchedulingState, RunRecord
<1>2. {"mark", "clear", "exec", "error", "result", "failSave", "dispatch", "suspend"} \subseteq WorkerPc
  BY DEF WorkerPc
<1>3. run' = run => Stores(w)
  BY DEF Stores
<1>4. ASSUME NEW r \in RunRecord, NEW keys, run' = Saved(r, keys),
             \A s \in r.susp : \/ s \in run.susp \cup W.state.susp \cup W.ending.susp
                               \/ W.pc = "suspendSave" /\ s = OwnEntry(w),
             r.resume \in {run.resume, W.state.resume, W.ending.resume, NoResume}
      PROVE  Stores(w)
  BY <1>1, <1>4, SavedHitl DEF Stores
<1>5. ASSUME NEW rec, Becomes(w, rec), Onward(w, rec), Stores(w),
             UNCHANGED <<resumer, acts, nodeOf, tasks>>
      PROVE  Effect(w)
  BY <1>5 DEF Effect, Grow
<1>6. ASSUME NEW pc \in WorkerPc, pc # "suspendSave", W.pc # "idle", Becomes(w, Goto(w, pc)),
             Stores(w), UNCHANGED <<resumer, acts, nodeOf, tasks>>
      PROVE  Effect(w)
  BY <1>1, <1>5, <1>6, GotoOnward
<1>7. ASSUME Return(w), W.pc # "idle", Stores(w), UNCHANGED <<resumer, acts, nodeOf, tasks>>
      PROVE  Effect(w)
  <2>1. Onward(w, [IdleWorker EXCEPT !.pc = "ack", !.act = W.act, !.lock = W.lock])
    BY <1>7, IdleOnward
  <2> QED BY <1>5, <1>7, <2>1 DEF Return
<1>8. ASSUME NEW status \in Terminal, NEW queue \in Seq(Nodes), NEW count \in Nat,
             W.pc # "idle", EndRun(w, W.state, status, queue, count)
      PROVE  Effect(w)
  <2> DEFINE ended == MergeTerminal(W.state, status, queue, count)
  <2>1. ended \in RunRecord /\ ended.susp = W.state.susp /\ ended.resume = W.state.resume
    <3>1. ended \in RunRecord
      BY <1>1, <1>8, MergeTerminalType
    <3>2. ended.susp = W.state.susp /\ ended.resume = W.state.resume
      BY <1>1, MergeTerminalHitl
    <3> QED BY <3>1, <3>2
  <2>2. run' = Saved(ended, TerminalKeys(W.state))
    BY <1>8 DEF EndRun
  <2> HIDE DEF ended
  <2>3. Stores(w)
    BY <1>4, <2>1, <2>2
  <2> QED BY <1>7, <1>8, <2>3 DEF EndRun
<1>9. {"completed", "failed", "halted"} \subseteq Terminal /\ <<>> \in Seq(Nodes)
  BY DEF Terminal
<1>10. ASSUME NEW a \in Acts, Receive(w, a) PROVE Effect(w)
  <2> DEFINE rec == [IdleWorker EXCEPT !.pc = "handle", !.act = a, !.node = nodeOf[a], !.lock = TRUE,
                                       !.attempt = 1]
  <2>1. Becomes(w, rec) /\ run' = run /\ UNCHANGED <<resumer, acts, nodeOf, tasks>>
    BY <1>10 DEF Receive
  <2>2. Onward(w, rec)
    BY <1>10, IdleOnward
  <2> QED BY <1>3, <1>5, <2>1, <2>2
<1>11. ASSUME NEW parts \in SUBSET {"state", "sched"}, Read(w, parts) PROVE Effect(w)
  <2> DEFINE rec == [W EXCEPT !.got = @ \cup parts, !.state = IF "state" \in parts THEN run ELSE @,
                              !.sched = IF "sched" \in parts THEN Sched(run) ELSE @]
  <2>1. Becomes(w, rec) /\ run' = run /\ UNCHANGED <<resumer, acts, nodeOf, tasks>>
        /\ W.pc # "suspendSave" /\ W.pc # "idle"
    BY <1>11 DEF Read
  <2>2. /\ rec.state \in {run, W.state} /\ rec.ending = W.ending /\ rec.ctx = W.ctx
        /\ rec.node = W.node /\ rec.act = W.act /\ rec.pc = W.pc
    BY <1>1 DEF WorkerRecord
  <2> HIDE DEF rec
  <2>3. Onward(w, rec)
    BY <2>1, <2>2 DEF Onward
  <2> QED BY <1>3, <1>5, <2>1, <2>3
<1>12. ASSUME HandleIgnored(w) PROVE Effect(w)
  BY <1>3, <1>7, <1>12 DEF HandleIgnored
<1>13. ASSUME Handle(w) PROVE Effect(w)
  <2> DEFINE ctx == IF W.state.resume.act = W.act THEN W.state.resume.verdict ELSE "none"
             pc == IF ctx = "none" THEN "mark" ELSE "clear"
             rec == [Goto(w, pc) EXCEPT !.ctx = ctx]
  <2>1. Becomes(w, rec) /\ run' = run /\ UNCHANGED <<resumer, acts, nodeOf, tasks>>
        /\ W.pc = "handle"
    BY <1>13 DEF Handle
  <2>2. pc \in WorkerPc /\ pc # "suspendSave"
    BY <1>2
  <2> HIDE DEF pc
  <2>3. Onward(w, rec)
    <3>1. CASE W.state.resume.act = W.act
      BY <1>1, <2>1, <2>2, <3>1, GotoOnward
    <3>2. CASE W.state.resume.act # W.act
      BY <1>1, <2>1, <2>2, <3>2, GotoOnward
    <3> QED BY <3>1, <3>2
  <2> QED BY <1>3, <1>5, <2>1, <2>3
<1>14. ASSUME ClearResume(w) PROVE Effect(w)
  <2> DEFINE cleared == [W.state EXCEPT !.resume = NoResume]
  <2>1. cleared \in RunRecord /\ cleared.susp = W.state.susp /\ cleared.resume = NoResume
    BY <1>1, HitlUpdates DEF RunRecord
  <2>2. run' = run \/ run' = Saved(cleared, HitlKeys)
    BY <1>14 DEF ClearResume
  <2> HIDE DEF cleared
  <2>3. Stores(w)
    BY <1>3, <1>4, <2>1, <2>2
  <2> QED BY <1>2, <1>6, <1>14, <2>3 DEF ClearResume
<1>15. ASSUME MarkNodeRunning(w) PROVE Effect(w)
  <2>1. Stores(w)
    BY <1>1, <1>3, <1>4, <1>15 DEF MarkNodeRunning
  <2> QED BY <1>2, <1>6, <1>15, <2>1 DEF MarkNodeRunning
<1>16. ASSUME ReportLoad(w) PROVE Effect(w)
  <2> DEFINE rec == [W EXCEPT !.pc = "report", !.state = run]
  <2>1. Becomes(w, rec) /\ run' = run /\ UNCHANGED <<resumer, acts, nodeOf, tasks>>
        /\ W.pc = "exec"
    BY <1>16 DEF ReportLoad
  <2>2. /\ rec.state = run /\ rec.ending = W.ending /\ rec.ctx = W.ctx
        /\ rec.node = W.node /\ rec.act = W.act /\ rec.pc = "report"
    BY <1>1 DEF WorkerRecord
  <2> HIDE DEF rec
  <2>3. Onward(w, rec)
    BY <2>1, <2>2 DEF Onward
  <2> QED BY <1>3, <1>5, <2>1, <2>3
<1>17. ASSUME ReportSave(w) PROVE Effect(w)
  <2>1. Stores(w)
    BY <1>1, <1>4, <1>17 DEF ReportSave
  <2>2. Onward(w, [Goto(w, "exec") EXCEPT !.reported = TRUE]) /\ UNCHANGED <<resumer, acts, nodeOf, tasks>>
    BY <1>1, <1>2, <1>17, GotoOnward DEF ReportSave
  <2> QED BY <1>5, <1>17, <2>1, <2>2 DEF ReportSave
<1>18. ASSUME ExecuteReturns(w) PROVE Effect(w)
  <2>1. PICK out : Becomes(w, [Goto(w, "result") EXCEPT !.out = out])
    BY <1>18 DEF ExecuteReturns
  <2>2. W.pc = "exec" /\ run' = run /\ UNCHANGED <<resumer, acts, nodeOf, tasks>>
    BY <1>18 DEF ExecuteReturns
  <2>3. Onward(w, [Goto(w, "result") EXCEPT !.out = out])
    BY <1>1, <1>2, <2>2, GotoOnward
  <2> QED BY <1>3, <1>5, <2>1, <2>2, <2>3
<1>19. ASSUME ExecuteThrows(w) PROVE Effect(w)
  <2>1. W.pc # "idle" /\ run' = run /\ UNCHANGED <<resumer, acts, nodeOf, tasks>>
    BY <1>19 DEF ExecuteThrows
  <2>2. Onward(w, [Goto(w, "exec") EXCEPT !.attempt = @ + 1])
    BY <1>1, <1>2, <2>1, GotoOnward
  <2> QED BY <1>2, <1>3, <1>5, <1>6, <1>19, <2>1, <2>2 DEF ExecuteThrows, RetryOr
<1>20. ASSUME ExecuteSuspends(w) PROVE Effect(w)
  BY <1>2, <1>3, <1>6, <1>20 DEF ExecuteSuspends
<1>21. ASSUME Deliver(w) PROVE Effect(w)
  <2> DEFINE rec == [W EXCEPT !.pc = "suspendSave", !.task = tasks + 1]
  <2>1. Becomes(w, rec) /\ run' = run /\ UNCHANGED <<resumer, acts, nodeOf>> /\ W.pc = "suspend"
        /\ tasks < MaxTasks /\ tasks' = tasks + 1
    BY <1>21 DEF Deliver
  <2>2. /\ rec.state = W.state /\ rec.ending = W.ending /\ rec.ctx = W.ctx
        /\ rec.node = W.node /\ rec.act = W.act /\ rec.task = tasks + 1
    BY <1>1 DEF WorkerRecord
  <2> HIDE DEF rec
  <2>3. Onward(w, rec)
    BY <2>1, <2>2 DEF Onward
  <2> QED BY <1>3, <2>1, <2>3 DEF Effect, Grow
<1>22. ASSUME SuspendSave(w) PROVE Effect(w)
  <2> DEFINE desired == [W.state EXCEPT !.status = "suspended", !.susp = @ \cup {OwnEntry(w)}]
  <2>1. OwnEntry(w) \in Suspensions
    BY <1>1 DEF OwnEntry, Suspensions, WorkerRecord
  <2>2. desired \in RunRecord
    BY <1>1, <2>1, HitlUpdates
  <2>3. desired.susp = W.state.susp \cup {OwnEntry(w)} /\ desired.resume = W.state.resume
    BY <1>1 DEF RunRecord
  <2>4. \E keys : run' = Saved(desired, keys)
    BY <1>22 DEF SuspendSave, OwnEntry
  <2>5. W.pc = "suspendSave" /\ UNCHANGED <<resumer, acts, nodeOf, tasks>>
    BY <1>22 DEF SuspendSave
  <2> HIDE DEF desired
  <2>6. Stores(w)
    BY <1>4, <2>2, <2>3, <2>4, <2>5
  <2>7. Onward(w, [Goto(w, "exec") EXCEPT !.attempt = @ + 1, !.task = 0])
    BY <1>1, <1>2, <2>5, GotoOnward
  <2> QED BY <1>5, <1>7, <1>22, <2>5, <2>6, <2>7 DEF SuspendSave
<1>23. ASSUME ResultIgnored(w) PROVE Effect(w)
  BY <1>2, <1>3, <1>6, <1>7, <1>23 DEF ResultIgnored
<1>24. ASSUME ResultHalts(w) PROVE Effect(w)
  BY <1>1, <1>8, <1>9, <1>24 DEF ResultHalts, InResult
<1>25. ASSUME ResultCompletes(w) PROVE Effect(w)
  BY <1>1, <1>8, <1>9, <1>25, PlannedType DEF ResultCompletes, InResult
<1>26. ASSUME ResultOverBudget(w) PROVE Effect(w)
  BY <1>1, <1>8, <1>9, <1>26, PlannedType DEF ResultOverBudget, InResult
<1>27. ASSUME ResultRejected(w) PROVE Effect(w)
  BY <1>1, <1>8, <1>9, <1>27, PlannedType DEF ResultRejected, InResult
<1>28. ASSUME ResultEnqueues(w) PROVE Effect(w)
  <2> DEFINE node == Head(Planned(w))
             queue == Tail(Planned(w))
             ending == MergeTerminal(W.state, "failed", queue, Count(w))
             desired == Enqueued(acts + 1, node, queue, Count(w), {}, NoResume)
  <2>1. node \in Nodes /\ queue \in Seq(Nodes) /\ Count(w) \in Nat
    BY <1>1, <1>28, PlannedType DEF ResultEnqueues
  <2>2. MakeActivation(node) /\ run' = Saved(desired, {})
    BY <1>28 DEF ResultEnqueues
  <2>3. PICK keys : Becomes(w, [Goto(w, "dispatch") EXCEPT
                                  !.next = acts + 1, !.ending = ending, !.keys = keys])
    BY <1>28 DEF ResultEnqueues
  <2>4. W.pc # "idle" /\ UNCHANGED <<resumer, tasks>>
    BY <1>28 DEF ResultEnqueues, InResult
  <2>5. ending.susp = W.state.susp /\ ending.resume = W.state.resume
    BY <1>1, MergeTerminalHitl
  <2>6. desired.susp = {} /\ desired.resume = NoResume
    BY DEF Enqueued
  <2> HIDE DEF node, queue, ending
  <2>7. Grow
    BY <2>1, <2>2 DEF Grow
  <2>8. acts + 1 \in 0..MaxActs
    BY <2>1, <2>2, MakeActivationType
  <2>9. desired \in RunRecord
    BY <2>1, <2>8, EnqueuedType, LimitAssumption DEF NoResume, Resumes, Verdicts
  <2> HIDE DEF desired
  <2>10. Stores(w)
    BY <1>4, <2>2, <2>6, <2>9
  <2>11. Onward(w, [Goto(w, "dispatch") EXCEPT !.next = acts + 1, !.ending = ending, !.keys = keys])
    BY <1>1, <1>2, <2>4, <2>5, GotoOnward
  <2> QED BY <2>3, <2>4, <2>7, <2>10, <2>11 DEF Effect
<1>29. ASSUME Dispatch(w) PROVE Effect(w)
  BY <1>3, <1>7, <1>29 DEF Dispatch
<1>30. ASSUME SaveFailure(w) PROVE Effect(w)
  <2>1. Stores(w)
    BY <1>1, <1>4, <1>30 DEF SaveFailure
  <2> QED BY <1>7, <1>30, <2>1 DEF SaveFailure
<1>31. ASSUME ErrorIgnored(w) PROVE Effect(w)
  BY <1>3, <1>7, <1>31 DEF ErrorIgnored
<1>32. ASSUME ErrorRecovers(w) PROVE Effect(w)
  <2> DEFINE ending == MergeTerminal(W.state, "failed", W.sched.queue, W.state.count)
  <2>1. PICK out, keys : Becomes(w, [Goto(w, "result") EXCEPT !.out = out, !.recovering = TRUE,
                                                   !.ending = ending, !.keys = keys])
    BY <1>32 DEF ErrorRecovers
  <2>2. ending.susp = W.state.susp /\ ending.resume = W.state.resume
    BY <1>1, MergeTerminalHitl
  <2>3. W.pc # "idle" /\ run' = run /\ UNCHANGED <<resumer, acts, nodeOf, tasks>>
    BY <1>32 DEF ErrorRecovers, InError
  <2> HIDE DEF ending
  <2>4. Onward(w, [Goto(w, "result") EXCEPT !.out = out, !.recovering = TRUE,
                                            !.ending = ending, !.keys = keys])
    BY <1>1, <1>2, <2>2, <2>3, GotoOnward
  <2> QED BY <1>3, <1>5, <2>1, <2>3, <2>4
<1>33. ASSUME ErrorFails(w) PROVE Effect(w)
  BY <1>1, <1>8, <1>9, <1>33 DEF ErrorFails, InError
<1>34. ASSUME Ack(w) PROVE Effect(w)
  BY <1>3, <1>5, <1>34, IdleOnward DEF Ack
<1> QED
  BY <1>10, <1>11, <1>12, <1>13, <1>14, <1>15, <1>16, <1>17, <1>18, <1>19, <1>20, <1>21, <1>22,
     <1>23, <1>24, <1>25, <1>26, <1>27, <1>28, <1>29, <1>30, <1>31, <1>32, <1>33, <1>34
     DEF WorkerStep

-----------------------------------------------------------------------------
(* What was asked, given and resolved stays so. *)

Later(h, g) ==
  /\ h.acts <= g.acts /\ \A a \in Acts : a <= h.acts => g.nodeOf[a] = h.nodeOf[a]
  /\ h.asked \subseteq g.asked
  /\ \A r \in Resumers : h.resumer[r].next # 0 =>
       /\ g.resumer[r].next = h.resumer[r].next
       /\ g.caller[r].task = h.caller[r].task /\ g.caller[r].verdict = h.caller[r].verdict
  /\ \A t \in Tasks : Born(h, t) =>
       /\ Born(g, t) /\ g.row[t].node = h.row[t].node
       /\ h.timer[t] # "none" => g.timer[t] # "none"
       /\ h.row[t].status \in Resolved => g.row[t].status \in Resolved

\* A verdict,
LEMMA GivenLater ==
  ASSUME NEW h, NEW g, Later(h, g), NEW act, NEW node, NEW verdict, Given(h, act, node, verdict)
  PROVE  Given(g, act, node, verdict)
<1>1. PICK r \in Resumers, e \in h.asked :
        /\ h.resumer[r].next = act /\ h.caller[r].verdict = verdict
        /\ e.task = h.caller[r].task /\ e.node = node
        /\ Born(h, e.task) /\ h.row[e.task].status \in Resolved
  BY DEF Given
<1>2. e \in g.asked /\ Born(g, e.task) /\ g.row[e.task].status \in Resolved
  <2>1. e.task \in Tasks
    BY <1>1 DEF Born
  <2> QED BY <1>1, <2>1 DEF Later
<1>3. act # 0
  BY DEF Given
<1>4. g.resumer[r].next = act /\ g.caller[r].task = e.task /\ g.caller[r].verdict = verdict
  BY <1>1, <1>3 DEF Later
<1> QED BY <1>1, <1>2, <1>3, <1>4 DEF Given

\* a copy of the record,
LEMMA ToldLater ==
  ASSUME NEW h, NEW g, h.acts \in Nat, g.acts \in Nat, Later(h, g),
         NEW r \in RunRecord, Told(h, r)
  PROVE  Told(g, r)
<1>1. \A s \in r.susp : Asked(g, s)
  BY DEF Told, Asked, Later, Born
<1>2. ASSUME r.resume.act # 0
      PROVE  r.resume.act <= g.acts
             /\ Given(g, r.resume.act, g.nodeOf[r.resume.act], r.resume.verdict)
  <2>1. r.resume.act \in Acts /\ r.resume.act <= h.acts
        /\ Given(h, r.resume.act, h.nodeOf[r.resume.act], r.resume.verdict)
    BY <1>2, LimitAssumption DEF Told, ResumeGiven, RunRecord, Resumes, Acts
  <2>2. g.nodeOf[r.resume.act] = h.nodeOf[r.resume.act] /\ r.resume.act <= g.acts
    BY <2>1 DEF Later, Acts
  <2> QED BY <2>1, <2>2, GivenLater
<1> QED BY <1>1, <1>2 DEF Told, ResumeGiven

\* a handler, a call of resumeRun and a caller.
LEMMA HoldersLater ==
  ASSUME NEW h, NEW g, h.acts \in Nat, g.acts \in Nat, Later(h, g)
  PROVE  /\ \A rec \in WorkerRecord : WorkerTold(h, rec) => WorkerTold(g, rec)
         /\ \A rec \in ResumerRecord : ResumerTold(h, rec) => ResumerTold(g, rec)
         /\ \A rec : CallerTold(h, rec) => CallerTold(g, rec)
<1>1. ASSUME NEW rec \in WorkerRecord, WorkerTold(h, rec) PROVE WorkerTold(g, rec)
  <2>1. rec.state \in RunRecord /\ rec.ending \in RunRecord
    BY DEF WorkerRecord
  <2>2. Told(g, rec.state) /\ Told(g, rec.ending)
    BY <1>1, <2>1, ToldLater DEF WorkerTold
  <2>3. rec.ctx # "none" => Given(g, rec.act, rec.node, rec.ctx)
    BY <1>1, GivenLater DEF WorkerTold
  <2> QED BY <1>1, <2>2, <2>3 DEF WorkerTold
<1>2. ASSUME NEW rec \in ResumerRecord, ResumerTold(h, rec) PROVE ResumerTold(g, rec)
  <2>1. Told(g, rec.state)
    BY <1>2, ToldLater DEF ResumerTold, ResumerRecord
  <2>2. rec.pc = "loaded" => Born(g, rec.task) /\ g.row[rec.task].status \in Resolved
    BY <1>2 DEF ResumerTold, Later, Born
  <2> QED BY <2>1, <2>2 DEF ResumerTold
<1>3. ASSUME NEW rec, CallerTold(h, rec) PROVE CallerTold(g, rec)
  BY <1>3 DEF CallerTold, Later, Born
<1> QED BY <1>1, <1>2, <1>3

\* The record of a new run, and a handler or a call that holds no other.
LEMMA NothingTold ==
  ASSUME NEW h
  PROVE  /\ Told(h, CreatedRun) /\ WorkerTold(h, IdleWorker)
         /\ ResumerTold(h, IdleResumer) /\ ResumerTold(h, [IdleResumer EXCEPT !.pc = "done"])
         /\ CallerTold(h, IdleCaller)
<1>1. Told(h, CreatedRun)
  BY DEF Told, CreatedRun, ResumeGiven, NoResume
<1>2. WorkerTold(h, IdleWorker)
  BY <1>1 DEF WorkerTold, IdleWorker
<1>3. ResumerTold(h, IdleResumer) /\ ResumerTold(h, [IdleResumer EXCEPT !.pc = "done"])
  BY <1>1 DEF ResumerTold, IdleResumer
<1> QED BY <1>1, <1>2, <1>3 DEF CallerTold, IdleCaller

\* A step after which the worlds are so related is judged by what it changed.
LEMMA TellFrame ==
  ASSUME TaskInv, TypeOK', Later(World, World'), RowsInv', TasksApart',
         Told(World', run') \/ run' = run,
         \A w \in Workers : WorkerTold(World', worker'[w]) \/ worker'[w] = worker[w],
         \A r \in Resumers : /\ ResumerTold(World', resumer'[r]) \/ resumer'[r] = resumer[r]
                             /\ CallerTold(World', caller'[r]) \/ caller'[r] = caller[r]
                             /\ CallerInCall(r)'
  PROVE  TellInv'
<1>1. World.acts \in Nat /\ World'.acts \in Nat
  BY DEF World, TaskInv, MatchInv, TypeOK
<1>2. /\ run \in RunRecord /\ worker \in [Workers -> WorkerRecord]
      /\ resumer \in [Resumers -> ResumerRecord]
  BY DEF TaskInv, MatchInv, TypeOK
<1>3. /\ Told(World, run) /\ \A w \in Workers : WorkerTold(World, worker[w])
      /\ \A r \in Resumers : ResumerTold(World, resumer[r]) /\ CallerTold(World, caller[r])
  BY DEF TaskInv, TellInv
<1>4. Told(World', run')
  BY <1>1, <1>2, <1>3, ToldLater
<1>5. \A w \in Workers : WorkerTold(World', worker'[w])
  BY <1>1, <1>2, <1>3, HoldersLater
<1>6. \A r \in Resumers : ResumerTold(World', resumer'[r]) /\ CallerTold(World', caller'[r])
  BY <1>1, <1>2, <1>3, HoldersLater
<1> QED BY <1>4, <1>5, <1>6 DEF TellInv

-----------------------------------------------------------------------------
(* The steps of the engine: no row, job or caller changes. *)

\* Activations and entries are added, and no call of resumeRun gets another activation.
LEMMA EngineLater ==
  ASSUME TypeOK, Grow, UNCHANGED hitlVars, asked' = asked \cup run'.susp,
         \A r \in Resumers : resumer'[r].next = resumer[r].next
  PROVE  Later(World, World')
<1>1. acts <= acts' /\ \A a \in Acts : a <= acts => nodeOf'[a] = nodeOf[a]
  <2>1. ASSUME NEW a \in Acts, a <= acts PROVE nodeOf'[a] = nodeOf[a]
    <3>1. a \in 0..MaxActs /\ a # 0
      BY LimitAssumption DEF Acts
    <3> QED BY <2>1, <3>1, GrowMade DEF Made
  <2> QED BY <2>1, GrowMade
<1> QED BY <1>1 DEF Later, World, hitlVars, Born

\* Rows and jobs stay where they are, and no worker takes a task but the next one.
LEMMA EngineApart ==
  ASSUME TaskInv, UNCHANGED hitlVars, tasks' \in {tasks, tasks + 1}, tasks' \in 0..MaxTasks,
         \A w \in Workers :
           worker'[w].pc = "suspendSave" =>
             \/ Delivers(w) /\ worker'[w].task = worker[w].task /\ worker'[w].node = worker[w].node
             \/ /\ tasks' = tasks + 1 /\ worker'[w].task = tasks + 1
                /\ \A v \in Workers \ {w} : worker'[v] = worker[v]
  PROVE  RowsInv' /\ TasksApart'
<1>1. tasks \in Nat /\ tasks <= tasks' /\ \A t \in Tasks : t \in Nat
  BY LimitAssumption DEF TaskInv, MatchInv, TypeOK, Tasks
<1>2. RowsInv'
  BY <1>1 DEF TaskInv, TellInv, RowsInv, hitlVars
<1>3. \A t \in Tasks : row[t].status # "none" => t <= tasks
  BY DEF TaskInv, TellInv, RowsInv
<1>4. TasksApart
  BY DEF TaskInv, TellInv
<1>5. ASSUME NEW w \in Workers, worker'[w].pc = "suspendSave"
      PROVE  /\ worker'[w].task \in Tasks /\ worker'[w].task <= tasks'
             /\ row'[worker'[w].task].status # "none" => row'[worker'[w].task].node = worker'[w].node
  <2>1. CASE Delivers(w) /\ worker'[w].task = worker[w].task /\ worker'[w].node = worker[w].node
    BY <1>1, <1>4, <2>1 DEF TasksApart, hitlVars
  <2>2. CASE tasks' = tasks + 1 /\ worker'[w].task = tasks + 1
    <3>1. tasks + 1 \in Tasks
      BY <1>1, <2>2, LimitAssumption DEF Tasks
    <3>2. row[tasks + 1].status = "none"
      BY <1>1, <1>3, <3>1
    <3> QED BY <1>1, <2>2, <3>1, <3>2 DEF hitlVars
  <2> QED BY <1>5, <2>1, <2>2
<1>6. ASSUME NEW v \in Workers, NEW w \in Workers, worker'[v].pc = "suspendSave",
             worker'[w].pc = "suspendSave", worker'[v].task = worker'[w].task
      PROVE  v = w
  <2>1. CASE Delivers(v) /\ Delivers(w) /\ worker[v].task = worker[w].task
    BY <1>4, <2>1 DEF TasksApart
  <2>2. ASSUME NEW x \in Workers, NEW y \in Workers, x # y, worker'[x].task = tasks + 1,
               \A u \in Workers \ {x} : worker'[u] = worker[u],
               worker'[y].pc = "suspendSave", worker'[y].task = tasks + 1
        PROVE  FALSE
    <3>1. Delivers(y) /\ worker[y].task = tasks + 1
      BY <2>2 DEF Delivers
    <3> QED BY <1>1, <1>4, <3>1 DEF TasksApart
  <2> QED BY <1>6, <2>1, <2>2
<1>7. TasksApart'
  BY <1>5, <1>6 DEF TasksApart, Delivers
<1> QED BY <1>2, <1>7

\* A step of a worker, when it has made the row and the job of what it saves.
LEMMA WorkerTells ==
  ASSUME TaskInv, TypeOK', NEW w \in Workers, WorkerGoesOn(w), asked' = asked \cup run'.susp
  PROVE  TellInv'
<1> DEFINE W == worker[w]
<1>1. /\ TypeOK /\ worker \in [Workers -> WorkerRecord] /\ run \in RunRecord
      /\ W \in WorkerRecord /\ W.state \in RunRecord /\ W.ending \in RunRecord
  <2>1. TypeOK /\ worker \in [Workers -> WorkerRecord] /\ run \in RunRecord
    BY DEF TaskInv, MatchInv, TypeOK
  <2> QED BY <2>1 DEF WorkerRecord
<1>2. Effect(w) /\ UNCHANGED hitlVars
  BY <1>1, WorkerEffect DEF WorkerGoesOn
<1>3. Later(World, World') /\ World.acts \in Nat /\ World'.acts \in Nat
  BY <1>1, <1>2, EngineLater DEF Effect, World, TypeOK
<1>4. WorkerTold(World, W) /\ Told(World, run) /\ RowsInv /\ TasksApart
  BY DEF TaskInv, TellInv
<1>5. Told(World', run) /\ Told(World', W.state) /\ Told(World', W.ending)
      /\ Told(World', CreatedRun)
  BY <1>1, <1>3, <1>4, ToldLater, NothingTold DEF WorkerTold
<1>6. W.pc = "suspendSave" /\ OwnEntry(w) \in run'.susp => Asked(World', OwnEntry(w))
  <2> SUFFICES ASSUME W.pc = "suspendSave", OwnEntry(w) \in run'.susp
               PROVE  Asked(World', OwnEntry(w))
    OBVIOUS
  <2>1. timer[W.task] # "none" /\ W.task \in Tasks
    BY <1>4 DEF WorkerGoesOn, ReadyToSuspend, TasksApart, Delivers
  <2>2. row[W.task].status # "none" /\ row[W.task].node = W.node
    BY <1>4, <2>1 DEF RowsInv, TasksApart, Delivers
  <2> QED BY <1>2, <2>1, <2>2 DEF Asked, Born, World, OwnEntry, hitlVars
<1>7. Told(World', run')
  <2>1. \A s \in run'.susp : Asked(World', s)
    BY <1>2, <1>5, <1>6 DEF Effect, Stores, Told
  <2>2. ResumeGiven(World', NoResume)
    BY DEF ResumeGiven, NoResume
  <2>3. ResumeGiven(World', run'.resume)
    BY <1>2, <1>5, <2>2 DEF Effect, Stores, Told
  <2> QED BY <2>1, <2>3 DEF Told
<1>8. PICK rec : Becomes(w, rec) /\ Onward(w, rec)
  BY <1>2 DEF Effect
<1>9. worker'[w] = rec /\ \A v \in Workers : v # w => worker'[v] = worker[v]
  BY <1>1, <1>8 DEF Becomes
<1>10. WorkerTold(World', rec)
  <2>1. Told(World', rec.state)
    BY <1>5, <1>8 DEF Onward
  <2>2. Told(World', rec.ending)
    BY <1>5, <1>8 DEF Onward, Told
  <2>3. ASSUME rec.ctx # "none" PROVE Given(World', rec.act, rec.node, rec.ctx)
    <3>1. CASE rec.ctx = W.ctx /\ rec.node = W.node /\ rec.act = W.act
      <4>1. WorkerTold(World', W)
        BY <1>1, <1>3, <1>4, HoldersLater
      <4> QED BY <2>3, <3>1, <4>1 DEF WorkerTold
    <3>2. CASE W.pc = "handle" /\ rec.node = W.node /\ rec.act = W.act
               /\ W.state.resume.act = W.act /\ W.state.resume.verdict = rec.ctx
      <4>1. W.act # 0 /\ Made(acts, nodeOf, W.act, W.node)
        BY <1>4, <3>2 DEF WorkerTold, TaskInv, MatchInv, WorkerMade
      <4>2. W.act \in Acts /\ W.act <= acts /\ nodeOf[W.act] = W.node
        BY <1>1, <4>1, LimitAssumption DEF Made, WorkerRecord, Acts
      <4>3. World'.nodeOf[W.act] = W.node
        BY <1>3, <4>2 DEF Later, World
      <4>4. Given(World', W.act, World'.nodeOf[W.act], W.state.resume.verdict)
        BY <1>5, <3>2, <4>1 DEF Told, ResumeGiven
      <4> QED BY <3>2, <4>3, <4>4
    <3> QED BY <1>8, <2>3, <3>1, <3>2 DEF Onward
  <2>4. rec.pc # "idle" => rec.act # 0
    BY <1>4, <1>8, LimitAssumption DEF Onward, WorkerTold, Acts
  <2> QED BY <2>1, <2>2, <2>3, <2>4 DEF WorkerTold
<1>11. RowsInv' /\ TasksApart'
  <2>1. tasks' \in {tasks, tasks + 1} /\ tasks' \in 0..MaxTasks
    BY <1>2 DEF Effect, TypeOK
  <2>2. \A v \in Workers :
           worker'[v].pc = "suspendSave" =>
             \/ Delivers(v) /\ worker'[v].task = worker[v].task /\ worker'[v].node = worker[v].node
             \/ /\ tasks' = tasks + 1 /\ worker'[v].task = tasks + 1
                /\ \A u \in Workers \ {v} : worker'[u] = worker[u]
    BY <1>8, <1>9 DEF Onward, Delivers
  <2> QED BY <1>2, <2>1, <2>2, EngineApart
<1>12. UNCHANGED <<resumer, caller>> /\ \A r \in Resumers : CallerInCall(r)'
  BY <1>2 DEF Effect, hitlVars, TaskInv, TellInv, CallerInCall
<1> QED BY <1>3, <1>7, <1>9, <1>10, <1>11, <1>12, TellFrame

\* The start of the run.
LEMMA StartTells ==
  ASSUME TaskInv, TypeOK', Start \/ StartDispatch, UNCHANGED hitlVars,
         asked' = asked \cup run'.susp
  PROVE  TellInv'
<1>1. Grow /\ UNCHANGED <<worker, resumer, tasks>>
  BY GraphAssumption DEF Grow, Start, StartDispatch
<1>2. TypeOK /\ run \in RunRecord /\ Told(World, run) /\ tasks \in 0..MaxTasks
      /\ World.acts \in Nat /\ World'.acts \in Nat
  BY DEF TaskInv, TellInv, MatchInv, TypeOK, World
<1>3. Later(World, World')
  BY <1>1, <1>2, EngineLater
<1>4. RowsInv' /\ TasksApart'
  BY <1>1, <1>2, EngineApart DEF Delivers
<1>5. Told(World', run') \/ run' = run
  <2>1. CASE Start
    <3> DEFINE desired == Enqueued(acts + 1, Entry, <<>>, 0, {}, NoResume)
    <3>1. acts + 1 \in 0..MaxActs
      BY <1>2, <2>1, GraphAssumption, MakeActivationType DEF Start
    <3>2. NoResume \in Resumes /\ <<>> \in Seq(Nodes)
      BY LimitAssumption DEF NoResume, Resumes, Verdicts
    <3>3. desired \in RunRecord
      BY <3>1, <3>2, GraphAssumption, EnqueuedType
    <3>4. desired.susp = {} /\ desired.resume = NoResume
      BY DEF Enqueued
    <3>5. run' = Saved(desired, {})
      BY <2>1 DEF Start
    <3> HIDE DEF desired
    <3>6. run'.susp \in {{}, run.susp} /\ run'.resume \in {NoResume, run.resume}
      BY <1>2, <3>3, <3>4, <3>5, SavedHitl
    <3>7. Told(World', run)
      BY <1>2, <1>3, ToldLater
    <3> QED BY <3>6, <3>7 DEF Told, ResumeGiven, NoResume
  <2>2. CASE StartDispatch
    BY <2>2 DEF StartDispatch
  <2> QED BY <2>1, <2>2
<1>6. UNCHANGED <<worker, resumer, caller>> /\ \A r \in Resumers : CallerInCall(r)'
  BY <1>1 DEF hitlVars, TaskInv, TellInv, CallerInCall
<1> QED BY <1>3, <1>4, <1>5, <1>6, TellFrame

\* A processor that dies or loses its lock, a refused dispatch.
LEMMA FaultTells ==
  ASSUME TaskInv, TypeOK', EngineFaults, asked' = asked \cup run'.susp
  PROVE  TellInv'
<1>1. UNCHANGED <<run, acts, nodeOf, tasks, hitlVars>> /\ Grow
  BY DEF EngineFaults, Stall, DispatchFails, Grow
<1>2. TypeOK /\ worker \in [Workers -> WorkerRecord] /\ resumer \in [Resumers -> ResumerRecord]
      /\ tasks \in 0..MaxTasks /\ World.acts \in Nat /\ World'.acts \in Nat
  BY DEF TaskInv, MatchInv, TypeOK, World
<1>3. ASSUME NEW r \in Resumers
      PROVE  \/ resumer'[r] = resumer[r]
             \/ resumer[r].pc = "dispatch" /\ resumer'[r] = [resumer[r] EXCEPT !.pc = "done"]
  BY <1>2 DEF EngineFaults, Stall, DispatchFails
<1>4. ASSUME NEW r \in Resumers
       PROVE  /\ resumer'[r].next = resumer[r].next /\ resumer'[r].state = resumer[r].state
              /\ resumer'[r] = resumer[r] \/ resumer'[r].pc = "done"
  BY <1>2, <1>3 DEF ResumerRecord
<1>5. Later(World, World')
  BY <1>1, <1>2, <1>4, EngineLater
<1>6. ASSUME NEW w \in Workers PROVE WorkerTold(World', worker[w])
  BY <1>2, <1>5, HoldersLater DEF TaskInv, TellInv
<1>7. ASSUME NEW w \in Workers
      PROVE  /\ WorkerTold(World', worker'[w]) \/ worker'[w] = worker[w]
             /\ worker'[w].pc = "suspendSave" =>
                  Delivers(w) /\ worker'[w].task = worker[w].task /\ worker'[w].node = worker[w].node
  <2>1. CASE worker'[w] = worker[w]
    BY <2>1 DEF Delivers
  <2>2. CASE worker'[w] = IdleWorker
    <3>1. WorkerTold(World', IdleWorker)
      BY NothingTold
    <3>2. IdleWorker.pc # "suspendSave"
      BY DEF IdleWorker
    <3> QED BY <2>2, <3>1, <3>2
  <2>3. CASE worker'[w] = [worker[w] EXCEPT !.lock = FALSE]
    BY <1>2, <1>6, <2>3 DEF WorkerTold, WorkerRecord, Delivers
  <2>4. CASE worker'[w] = [worker[w] EXCEPT !.pc = "terminate"] /\ worker[w].pc = "dispatch"
    BY <1>2, <1>6, <2>4 DEF WorkerTold, WorkerRecord
  <2>5. \/ worker'[w] = worker[w] \/ worker'[w] = IdleWorker
        \/ worker'[w] = [worker[w] EXCEPT !.lock = FALSE]
        \/ (worker'[w] = [worker[w] EXCEPT !.pc = "terminate"] /\ worker[w].pc = "dispatch")
    BY <1>2 DEF EngineFaults, Stall, DispatchFails, Becomes
  <2> QED BY <2>1, <2>2, <2>3, <2>4, <2>5
<1>8. ASSUME NEW r \in Resumers
      PROVE  /\ ResumerTold(World', resumer'[r]) \/ resumer'[r] = resumer[r]
             /\ CallerInCall(r)'
  <2>1. ResumerTold(World', resumer[r]) /\ CallerInCall(r)
    BY <1>2, <1>5, HoldersLater DEF TaskInv, TellInv
  <2>2. resumer'[r] = resumer[r] \/ ResumerTold(World', resumer'[r])
    BY <1>4, <2>1 DEF ResumerTold
  <2>3. CallerInCall(r)'
    <3>1. CASE resumer'[r] = resumer[r]
      BY <1>1, <2>1, <3>1 DEF CallerInCall, hitlVars
    <3>2. CASE resumer[r].pc = "dispatch" /\ resumer'[r].pc = "done"
      BY <1>1, <2>1, <3>2 DEF CallerInCall, hitlVars
    <3> QED BY <1>3, <1>4, <3>1, <3>2
  <2> QED BY <2>2, <2>3
<1>9. RowsInv' /\ TasksApart'
  BY <1>1, <1>2, <1>7, EngineApart
<1>10. caller' = caller
  BY <1>1 DEF hitlVars
<1> QED BY <1>1, <1>5, <1>7, <1>8, <1>9, <1>10, TellFrame

\* Any step in which the processors stand still.
LEMMA WorkersStay ==
  ASSUME TaskInv, UNCHANGED <<worker, tasks>>, UNCHANGED <<row, timer, lost>>
  PROVE  RowsInv' /\ TasksApart'
BY DEF TaskInv, TellInv, RowsInv, TasksApart, Delivers

\* A step of resumeRun: the decision it saves is for the node whose task was decided.
LEMMA ResumeTells ==
  ASSUME TaskInv, TypeOK', NEW r \in Resumers, ResumeGoesOn(r),
         asked' = asked \cup run'.susp
  PROVE  TellInv'
<1> DEFINE R == resumer[r]
<1>1. /\ TypeOK /\ run \in RunRecord /\ resumer \in [Resumers -> ResumerRecord]
      /\ R \in ResumerRecord /\ R.state \in RunRecord /\ R.verdict \in Verdicts
      /\ acts \in Nat /\ acts' \in Nat
  <2>1. TypeOK /\ run \in RunRecord /\ resumer \in [Resumers -> ResumerRecord]
        /\ acts \in Nat /\ acts' \in Nat
    BY DEF TaskInv, MatchInv, TypeOK
  <2> QED BY <2>1 DEF ResumerRecord
<1>2. R.state.susp \in SUBSET Suspensions /\ R.state.count \in Nat
  BY <1>1 DEF RunRecord
<1>3. ResumeStep(r) /\ UNCHANGED <<worker, tasks, row, timer, caller, lost>>
  BY DEF ResumeGoesOn, ResumeStep, ResumeRefused, ResumeRejected, ResumeSave, ResumeDispatch
<1>4. \A s \in Entries(r) : s \in R.state.susp /\ s.task = R.task /\ s.node \in Nodes
  BY <1>2 DEF Entries, Suspensions
<1>5. Grow
  BY <1>3, <1>4 DEF ResumeStep, ResumeRefused, ResumeRejected, ResumeSave, ResumeDispatch, Grow
<1>6. World.acts = acts /\ World'.acts = acts' /\ World'.nodeOf = nodeOf'
      /\ World'.asked = asked' /\ World'.row = row' /\ World'.resumer = resumer'
      /\ World'.caller = caller'
  BY DEF World
<1>7. ASSUME NEW q \in Resumers PROVE CallerInCall(q)
  BY DEF TaskInv, TellInv
<1>8. ASSUME NEW q \in Resumers, resumer[q].next # 0
       PROVE  resumer'[q].next = resumer[q].next /\ caller'[q] = caller[q]
  <2>1. R.next # 0 => R.pc \notin {"idle", "loaded"}
    BY <1>7 DEF CallerInCall
  <2>2. q # r => resumer'[q] = resumer[q]
    BY <1>1, <1>3 DEF ResumeStep, ResumeRefused, ResumeRejected, ResumeSave, ResumeDispatch
  <2>3. CASE q = r
    <3>1. resumer' = [resumer EXCEPT ![r].pc = "done"]
      BY <1>3, <1>8, <2>1, <2>3
         DEF ResumeStep, ResumeRefused, ResumeRejected, ResumeSave, ResumeDispatch
    <3> QED BY <1>1, <1>3, <2>3, <3>1 DEF ResumerRecord
  <2> QED BY <1>3, <2>2, <2>3
<1>9. Later(World, World')
  <2>1. acts <= acts' /\ \A a \in Acts : a <= acts => nodeOf'[a] = nodeOf[a]
    <3>1. ASSUME NEW a \in Acts, a <= acts PROVE nodeOf'[a] = nodeOf[a]
      <4>1. a \in 0..MaxActs /\ a # 0
        BY LimitAssumption DEF Acts
      <4> QED BY <1>1, <1>5, <3>1, <4>1, GrowMade DEF Made
    <3> QED BY <1>1, <1>5, <3>1, GrowMade
  <2> QED BY <1>3, <1>8, <2>1 DEF Later, World, Born
<1>10. ResumerTold(World', R) /\ Told(World', run)
  BY <1>1, <1>6, <1>9, HoldersLater, ToldLater DEF TaskInv, TellInv
<1>11. (Told(World', run') \/ run' = run)
      /\ \E rec : /\ resumer' = [resumer EXCEPT ![r] = rec] /\ ResumerTold(World', rec)
                  /\ rec.pc = "done" \/ (rec.pc = "dispatch" /\ rec.task = R.task /\ R.pc = "loaded")
  <2>1. CASE ResumeRefused(r) \/ ResumeRejected(r)
    <3>1. [IdleResumer EXCEPT !.pc = "done"].pc = "done"
      BY DEF IdleResumer
    <3> QED BY <2>1, <3>1, NothingTold DEF ResumeRefused, ResumeRejected
  <2>2. CASE ResumeDispatch(r)
    <3>1. /\ [R EXCEPT !.pc = "done"].state = R.state /\ [R EXCEPT !.pc = "done"].pc = "done"
      BY <1>1 DEF ResumerRecord
    <3>2. ResumerTold(World', [R EXCEPT !.pc = "done"])
      BY <1>10, <3>1 DEF ResumerTold
    <3> QED BY <2>2, <3>1, <3>2 DEF ResumeDispatch
  <2>3. CASE ResumeSave(r)
    <3> DEFINE remaining == R.state.susp \ Entries(r)
               resume == [act |-> acts + 1, verdict |-> R.verdict]
               keys == IF remaining = {} THEN {"resume"} ELSE {"resume", "susp"}
               rec == [IdleResumer EXCEPT !.pc = "dispatch", !.task = R.task, !.next = acts + 1]
    <3>1. PICK entry \in Entries(r) :
            /\ MakeActivation(entry.node)
            /\ run' = Saved(Enqueued(acts + 1, entry.node, <<>>, R.state.count, remaining, resume),
                            keys)
      BY <2>3 DEF ResumeSave
    <3>2. resumer' = [resumer EXCEPT ![r] = rec] /\ R.pc = "loaded"
      BY <2>3 DEF ResumeSave
    <3>3. entry \in R.state.susp /\ entry.task = R.task /\ entry.node \in Nodes
      BY <1>4, <3>1
    <3>4. acts + 1 \in 0..MaxActs /\ acts + 1 \in Acts /\ acts' = acts + 1
          /\ nodeOf'[acts + 1] = entry.node
      BY <1>1, <3>1, <3>3, LimitAssumption, MakeActivationType DEF MakeActivation, Acts, TypeOK
    <3>5. Given(World', acts + 1, entry.node, R.verdict)
      <4>1. Asked(World', entry)
        BY <1>10, <3>3 DEF ResumerTold, Told
      <4>2. World'.row[R.task].status \in Resolved
        BY <1>10, <3>2 DEF ResumerTold
      <4>3. caller[r].task = R.task /\ caller[r].verdict = R.verdict
        BY <1>7, <3>2 DEF CallerInCall
      <4>4. resumer'[r].next = acts + 1
        BY <1>1, <3>2 DEF IdleResumer
      <4>5. acts + 1 # 0
        BY <1>1
      <4> QED BY <1>3, <1>6, <3>3, <4>1, <4>2, <4>3, <4>4, <4>5 DEF Asked, Given
    <3>6. ResumeGiven(World', resume)
      BY <1>1, <1>6, <3>4, <3>5 DEF ResumeGiven
    <3>7. remaining \in SUBSET Suspensions /\ resume \in Resumes /\ <<>> \in Seq(Nodes)
      BY <1>1, <1>2, <3>4 DEF Resumes
    <3>8. rec.pc = "dispatch" /\ rec.state = CreatedRun /\ rec.task = R.task
      BY DEF IdleResumer
    <3>9. \A s \in remaining : Asked(World', s)
      BY <1>10 DEF ResumerTold, Told
    <3> HIDE DEF remaining, resume, keys, rec
    <3> DEFINE desired == Enqueued(acts + 1, entry.node, <<>>, R.state.count, remaining, resume)
    <3>10. desired \in RunRecord
      BY <1>2, <3>3, <3>4, <3>7, EnqueuedType
    <3>11. desired.susp = remaining /\ desired.resume = resume
      BY DEF Enqueued
    <3> HIDE DEF desired
    <3>12. run'.susp \in {remaining, run.susp} /\ run'.resume \in {resume, run.resume}
      BY <1>1, <3>1, <3>10, <3>11, SavedHitl DEF desired
    <3>13. Told(World', run')
      BY <1>10, <3>6, <3>9, <3>12 DEF Told
    <3>14. ResumerTold(World', rec)
      BY <3>8, NothingTold DEF ResumerTold
    <3> QED BY <3>2, <3>8, <3>13, <3>14
  <2> QED BY <1>3, <2>1, <2>2, <2>3 DEF ResumeStep
<1>12. RowsInv' /\ TasksApart'
  BY <1>3, WorkersStay
<1>13. PICK rec : /\ resumer' = [resumer EXCEPT ![r] = rec] /\ ResumerTold(World', rec)
                  /\ rec.pc = "done" \/ (rec.pc = "dispatch" /\ rec.task = R.task /\ R.pc = "loaded")
  BY <1>11
<1>14. \A q \in Resumers : /\ ResumerTold(World', resumer'[q]) \/ resumer'[q] = resumer[q]
                           /\ CallerInCall(q)'
  <2>1. ASSUME NEW q \in Resumers PROVE CallerInCall(q)'
    <3>1. CASE q = r
      <4>1. R.pc \in {"loaded", "dispatch"}
        BY <1>3 DEF ResumeStep, ResumeRefused, ResumeRejected, ResumeSave, ResumeDispatch
      <4> QED BY <1>1, <1>3, <1>13, <1>7, <3>1, <4>1 DEF CallerInCall
    <3>2. CASE q # r
      BY <1>1, <1>3, <1>13, <1>7, <3>2 DEF CallerInCall
    <3> QED BY <3>1, <3>2
  <2> QED BY <1>1, <1>13, <2>1
<1> QED BY <1>3, <1>9, <1>11, <1>12, <1>14, TellFrame

-----------------------------------------------------------------------------
(* The steps that write rows and jobs, and those of the callers: the run stands still. *)

\* What is told stays told, when no row, job or answer is taken back.
LEMMA TaskLater ==
  ASSUME TaskInv, UNCHANGED <<acts, nodeOf>>, asked \subseteq asked',
         \A r \in Resumers : resumer[r].next # 0 =>
           /\ resumer'[r].next = resumer[r].next
           /\ caller'[r].task = caller[r].task /\ caller'[r].verdict = caller[r].verdict,
         \A t \in Tasks : row[t].status # "none" =>
           /\ row'[t].status # "none" /\ row'[t].node = row[t].node
           /\ timer[t] # "none" => timer'[t] # "none"
           /\ row[t].status \in Resolved => row'[t].status \in Resolved
  PROVE  Later(World, World')
<1>1. acts <= acts' /\ \A a \in Acts : a <= acts => nodeOf'[a] = nodeOf[a]
  BY DEF TaskInv, MatchInv, TypeOK
<1> QED BY <1>1 DEF Later, World, Born

\* The row of a request that was delivered,
LEMMA CreateRowTells ==
  ASSUME TaskInv, TypeOK', NEW w \in Workers, CreateRow(w), asked \subseteq asked'
  PROVE  TellInv'
<1> DEFINE t == worker[w].task
<1>1. t \in Tasks /\ t <= tasks /\ Delivers(w)
  BY DEF TaskInv, TellInv, TasksApart, CreateRow, Delivers
<1>2. row \in [Tasks -> RowRecord] /\ row[t] = NoRow /\ UNCHANGED <<vars, timer, caller, lost>>
  BY DEF TaskInv, TaskTypeOK, CreateRow
<1>3. UNCHANGED <<run, worker, resumer, acts, nodeOf, tasks>>
  BY <1>2 DEF vars
<1>4. /\ row'[t].status = "pending" /\ row'[t].node = worker[w].node
      /\ \A u \in Tasks : u # t => row'[u] = row[u]
  BY <1>1, <1>2 DEF CreateRow
<1>5. row[t].status = "none"
  BY <1>2 DEF NoRow
<1>6. Later(World, World')
  BY <1>2, <1>3, <1>4, <1>5, TaskLater
<1>7. RowsInv /\ TasksApart
  BY DEF TaskInv, TellInv
<1>8. timer[t] = "none"
  BY <1>1, <1>5, <1>7 DEF RowsInv
<1>9. RowsInv'
  BY <1>1, <1>2, <1>3, <1>4, <1>7, <1>8 DEF RowsInv, NoRow
<1>10. TasksApart'
  BY <1>1, <1>3, <1>4, <1>7 DEF TasksApart, Delivers
<1>11. \A r \in Resumers : CallerInCall(r)'
  BY <1>2, <1>3 DEF TaskInv, TellInv, CallerInCall
<1> QED BY <1>2, <1>3, <1>6, <1>9, <1>10, <1>11, TellFrame

\* its timeout job.
LEMMA EnqueueTells ==
  ASSUME TaskInv, TypeOK', NEW w \in Workers, EnqueueTimeout(w), asked \subseteq asked'
  PROVE  TellInv'
<1> DEFINE t == worker[w].task
<1>1. t \in Tasks
  BY DEF TaskInv, TellInv, TasksApart, EnqueueTimeout, Delivers
<1>2. timer \in [Tasks -> TimerState] /\ row[t] # NoRow /\ UNCHANGED <<vars, row, caller, lost>>
  BY DEF TaskInv, TaskTypeOK, EnqueueTimeout
<1>3. UNCHANGED <<run, worker, resumer, acts, nodeOf, tasks>>
  BY <1>2 DEF vars
<1>4. /\ timer'[t] = IF TimeoutQueue THEN "delayed" ELSE "gone"
      /\ \A u \in Tasks : u # t => timer'[u] = timer[u]
  BY <1>1, <1>2 DEF EnqueueTimeout
<1>5. Later(World, World')
  BY <1>2, <1>3, <1>4, TaskLater
<1>6. RowsInv /\ TasksApart
  BY DEF TaskInv, TellInv
<1>7. RowsInv'
  BY <1>1, <1>2, <1>3, <1>4, <1>6 DEF RowsInv
<1>8. TasksApart'
  BY <1>2, <1>3, <1>6 DEF TasksApart, Delivers
<1>9. \A r \in Resumers : CallerInCall(r)'
  BY <1>2, <1>3 DEF TaskInv, TellInv, CallerInCall
<1> QED BY <1>2, <1>3, <1>5, <1>7, <1>8, <1>9, TellFrame

\* A caller begins or goes on, while the row and the job of its task change.
LEMMA CallerFrame ==
  ASSUME TaskInv, TypeOK', NEW r \in Resumers, NEW rec, caller' = [caller EXCEPT ![r] = rec],
         CallerTold(World', rec), asked \subseteq asked',
         \/ caller[r].pc = "idle"
         \/ rec.task = caller[r].task /\ rec.verdict = caller[r].verdict,
         resumer[r].pc \in {"loaded", "dispatch"} => rec.pc = "wait",
         rec.pc \notin {"wait", "done"} => caller[r].pc \notin {"wait", "done"},
         UNCHANGED <<run, worker, resumer, acts, nodeOf, tasks>>,
         NEW t \in Tasks, \A u \in Tasks : u # t => row'[u] = row[u] /\ timer'[u] = timer[u],
         row[t].status # "none", row'[t].status # "none", row'[t].node = row[t].node,
         row'[t] = row[t] \/ row'[t].status \in Resolved,
         timer[t] # "none" => timer'[t] # "none", lost \subseteq lost',
         timer'[t] = "gone" => timer[t] = "gone" \/ row[t].status \in Resolved \/ t \in lost'
  PROVE  TellInv'
<1>1. RowsInv /\ TasksApart /\ caller \in [Resumers -> CallerRecord]
      /\ \A q \in Resumers : CallerInCall(q)
  BY DEF TaskInv, TellInv, TaskTypeOK
<1>2. Later(World, World')
  <2>1. \A u \in Tasks : row[u].status # "none" =>
           /\ row'[u].status # "none" /\ row'[u].node = row[u].node
           /\ timer[u] # "none" => timer'[u] # "none"
           /\ row[u].status \in Resolved => row'[u].status \in Resolved
    OBVIOUS
  <2>2. ASSUME NEW q \in Resumers, resumer[q].next # 0
        PROVE  /\ resumer'[q].next = resumer[q].next
               /\ caller'[q].task = caller[q].task /\ caller'[q].verdict = caller[q].verdict
    <3>1. caller[q].pc # "idle"
      BY <1>1, <2>2 DEF CallerInCall
    <3> QED BY <1>1, <3>1
  <2> QED BY <2>1, <2>2, TaskLater
<1>3. RowsInv'
  <2>1. ASSUME NEW u \in Tasks, u # t
        PROVE  /\ row'[u] = NoRow \/ row'[u].status # "none"
               /\ row'[u].status # "none" => u <= tasks'
               /\ timer'[u] # "none" => row'[u].status # "none"
               /\ timer'[u] = "gone" => row'[u].status \in Resolved \/ u \in lost' \/ ~TimeoutQueue
    BY <1>1, <2>1 DEF RowsInv
  <2>2. /\ row'[t] = NoRow \/ row'[t].status # "none"
        /\ row'[t].status # "none" => t <= tasks'
        /\ timer'[t] # "none" => row'[t].status # "none"
        /\ timer'[t] = "gone" => row'[t].status \in Resolved \/ t \in lost' \/ ~TimeoutQueue
    BY <1>1 DEF RowsInv
  <2> QED BY <2>1, <2>2 DEF RowsInv
<1>4. TasksApart'
  BY <1>1 DEF TasksApart, Delivers
<1>5. \A q \in Resumers : CallerTold(World', caller'[q]) \/ caller'[q] = caller[q]
  BY <1>1
<1>6. ASSUME NEW q \in Resumers PROVE CallerInCall(q)'
  <2>1. CASE q = r
    BY <1>1, <2>1 DEF CallerInCall
  <2>2. CASE q # r
    BY <1>1, <2>2 DEF CallerInCall
  <2> QED BY <2>1, <2>2
<1> QED BY <1>2, <1>3, <1>4, <1>5, <1>6, TellFrame

\* A request or a timeout job finds its task.
LEMMA CallerBeginsTells ==
  ASSUME TaskInv, TypeOK', NEW r \in Resumers, NEW t \in Tasks, asked \subseteq asked',
         \/ \E verdict \in Verdicts : PersonReads(r, t, verdict)
         \/ PlaneReads(r, t) \/ TimerFires(r, t)
  PROVE  TellInv'
<1>1. /\ UNCHANGED <<run, worker, resumer, acts, nodeOf, tasks, row, lost>>
      /\ caller[r].pc = "idle" /\ timer \in [Tasks -> TimerState]
  BY DEF PersonReads, PlaneReads, TimerFires, vars, TaskInv, TaskTypeOK
<1>2. RowsInv /\ resumer[r].pc = "idle"
  BY <1>1 DEF TaskInv, TellInv, CallerInCall
<1>3. row[t].status # "none"
  <2>1. row[t].status = "pending" \/ timer[t] \in {"delayed", "stalled"}
    BY DEF PersonReads, PlaneReads, TimerFires
  <2> QED BY <1>2, <2>1 DEF RowsInv
<1>4. PICK rec : caller' = [caller EXCEPT ![r] = rec] /\ rec.pc \in {"read", "mark"} /\ rec.task = t
  <2>1. ASSUME NEW kind, NEW pc \in {"read", "mark"}, NEW verdict, NEW job,
               caller' = [caller EXCEPT ![r] = [kind |-> kind, pc |-> pc, task |-> t,
                                                verdict |-> verdict, job |-> job]]
        PROVE  \E rec : /\ caller' = [caller EXCEPT ![r] = rec]
                       /\ rec.pc \in {"read", "mark"} /\ rec.task = t
    <3> DEFINE rec == [kind |-> kind, pc |-> pc, task |-> t, verdict |-> verdict, job |-> job]
    <3>1. rec.pc \in {"read", "mark"} /\ rec.task = t
      BY <2>1
    <3>2. caller' = [caller EXCEPT ![r] = rec]
      BY <2>1
    <3> HIDE DEF rec
    <3> QED BY <3>1, <3>2
  <2>2. ASSUME NEW verdict, PersonReads(r, t, verdict)
        PROVE  \E rec : /\ caller' = [caller EXCEPT ![r] = rec]
                       /\ rec.pc \in {"read", "mark"} /\ rec.task = t
    BY <2>1, <2>2 DEF PersonReads
  <2>3. CASE PlaneReads(r, t)
    BY <2>1, <2>3 DEF PlaneReads
  <2>4. CASE TimerFires(r, t)
    BY <2>1, <2>4 DEF TimerFires
  <2> QED BY <2>2, <2>3, <2>4
<1>5. CallerTold(World', rec)
  BY <1>1, <1>3, <1>4 DEF CallerTold, Born, World
<1>6. \/ timer' = timer
      \/ timer[t] # "none" /\ \E taken \in {"active", "retried"} : timer' = [timer EXCEPT ![t] = taken]
  BY DEF PersonReads, PlaneReads, TimerFires
<1>7. /\ \A u \in Tasks : u # t => timer'[u] = timer[u]
      /\ timer[t] # "none" => timer'[t] # "none"
      /\ timer'[t] = "gone" => timer[t] = "gone"
  BY <1>1, <1>6
<1> QED BY <1>1, <1>2, <1>3, <1>4, <1>5, <1>7, CallerFrame

\* A caller that goes on at pc keeps its task and its verdict.
LEMMA CallerGoesOn ==
  ASSUME TaskTypeOK, NEW r \in Resumers, NEW pc, CallerAt(r, pc)
  PROVE  \E rec : /\ caller' = [caller EXCEPT ![r] = rec]
                  /\ rec.pc = pc /\ rec.task = caller[r].task /\ rec.verdict = caller[r].verdict
<1> DEFINE rec == [caller[r] EXCEPT !.pc = pc]
<1>1. caller \in [Resumers -> CallerRecord] /\ caller[r] \in CallerRecord
  BY DEF TaskTypeOK
<1>2. rec.pc = pc /\ rec.task = caller[r].task /\ rec.verdict = caller[r].verdict
  BY <1>1 DEF CallerRecord
<1>3. caller' = [caller EXCEPT ![r] = rec]
  BY DEF CallerAt
<1> QED BY <1>2, <1>3

\* What is known of a caller that has begun.
LEMMA CallerKnows ==
  ASSUME TaskInv, NEW r \in Resumers, caller[r].pc \notin {"idle", "done"}
  PROVE  /\ caller[r] \in CallerRecord /\ caller[r].task \in Tasks
         /\ row[caller[r].task] \in RowRecord /\ row[caller[r].task].status # "none"
         /\ timer[caller[r].task] \in TimerState
         /\ caller[r].pc \in {"cancel", "call", "wait"} => row[caller[r].task].status \in Resolved
         /\ CallerInCall(r)
<1>1. CallerTold(World, caller[r])
  BY DEF TaskInv, TellInv
<1>2. caller[r].task \in Tasks /\ row[caller[r].task].status # "none"
      /\ (caller[r].pc \in {"cancel", "call", "wait"} => row[caller[r].task].status \in Resolved)
  BY <1>1 DEF CallerTold, Born, World
<1> QED BY <1>2 DEF TaskInv, TaskTypeOK, TellInv

\* A caller stores a resolution.
LEMMA MarkTells ==
  ASSUME TaskInv, TypeOK', NEW r \in Resumers, Mark(r), asked \subseteq asked'
  PROVE  TellInv'
<1> DEFINE t == caller[r].task
           verdict == IF caller[r].kind = "person" THEN caller[r].verdict ELSE row[t].verdict
<1>1. /\ UNCHANGED <<run, worker, resumer, acts, nodeOf, tasks, timer, lost>>
      /\ caller[r].pc = "mark"
      /\ row' = [row EXCEPT ![t].status = MarkedStatus(caller[r].kind), ![t].verdict = verdict]
  BY DEF Mark, vars
<1>2. t \in Tasks /\ row[t] \in RowRecord /\ row[t].status # "none" /\ caller[r] \in CallerRecord
      /\ resumer[r].pc = "idle"
  BY <1>1, CallerKnows DEF CallerInCall
<1>3. row \in [Tasks -> RowRecord]
  BY DEF TaskInv, TaskTypeOK
<1>4. MarkedStatus(caller[r].kind) \in Resolved
  BY <1>2 DEF MarkedStatus, Resolved, CallerRecord
<1> HIDE DEF verdict
<1>5. /\ row'[t].status \in Resolved /\ row'[t].node = row[t].node
      /\ \A u \in Tasks : u # t => row'[u] = row[u]
  BY <1>1, <1>2, <1>3, <1>4 DEF RowRecord
<1>6. PICK pc \in {"cancel", "call", "done"} : CallerAt(r, pc)
  BY <1>2 DEF Mark, CallerRecord
<1>7. PICK rec : /\ caller' = [caller EXCEPT ![r] = rec]
                 /\ rec.pc = pc /\ rec.task = t /\ rec.verdict = caller[r].verdict
  BY <1>6, CallerGoesOn DEF TaskInv
<1>8. row'[t].status # "none"
  BY <1>5 DEF Resolved
<1>9. CallerTold(World', rec)
  BY <1>2, <1>5, <1>7, <1>8 DEF CallerTold, Born, World
<1> QED BY <1>1, <1>2, <1>5, <1>7, <1>8, <1>9, CallerFrame

\* A processor that returns removes the job it holds, or leaves all jobs alone.
LEMMA JobEndsAlone ==
  ASSUME TaskInv, NEW r \in Resumers, caller[r].task \in Tasks, JobEnds(r)
  PROVE  /\ \A u \in Tasks : u # caller[r].task => timer'[u] = timer[u]
         /\ timer'[caller[r].task] = IF Holds(r) THEN "gone" ELSE timer[caller[r].task]
         /\ timer' \in [Tasks -> TimerState]
BY DEF TaskInv, TaskTypeOK, JobEnds, TimerState

\* A timeout job is read, removed or completed; a caller throws.
LEMMA TimerTells ==
  ASSUME TaskInv, TypeOK', NEW r \in Resumers, asked \subseteq asked',
         TimerReads(r) \/ CancelTimer(r) \/ TimerReturns(r) \/ CallerThrows(r)
  PROVE  TellInv'
<1> DEFINE t == caller[r].task
<1>1. /\ UNCHANGED <<run, worker, resumer, acts, nodeOf, tasks, row>> /\ lost \subseteq lost'
      /\ caller[r].pc \in {"read", "mark", "cancel", "call", "wait"}
      /\ caller[r].pc = "wait" => resumer[r].pc = "done"
  BY DEF TimerReads, CancelTimer, TimerReturns, CallerThrows, vars
<1>2. /\ t \in Tasks /\ row[t] \in RowRecord /\ row[t].status # "none"
      /\ caller[r] \in CallerRecord /\ timer[t] \in TimerState
      /\ caller[r].pc \in {"cancel", "call", "wait"} => row[t].status \in Resolved
      /\ resumer[r].pc \in {"idle", "done"}
  BY <1>1, CallerKnows DEF CallerInCall
<1>3. timer \in [Tasks -> TimerState]
  BY DEF TaskInv, TaskTypeOK
<1>4. row[t].status = "pending" \/ row[t].status \in Resolved
  BY <1>2 DEF RowRecord
<1>5. /\ \A u \in Tasks : u # t => timer'[u] = timer[u]
      /\ timer[t] # "none" => timer'[t] # "none"
      /\ timer'[t] = "gone" => timer[t] = "gone" \/ row[t].status \in Resolved \/ t \in lost'
  <2>1. CASE TimerReads(r)
    BY <1>2, <1>4, <2>1, JobEndsAlone DEF TimerReads
  <2>2. CASE CancelTimer(r)
    BY <1>2, <1>3, <2>2 DEF CancelTimer
  <2>3. CASE TimerReturns(r)
    BY <1>2, <2>3, JobEndsAlone DEF TimerReturns
  <2>4. CASE CallerThrows(r)
    BY <1>2, <2>4, JobEndsAlone DEF CallerThrows
  <2> QED BY <2>1, <2>2, <2>3, <2>4
<1>6. PICK pc \in {"mark", "done", "call"} :
        /\ CallerAt(r, pc) /\ (pc = "call" => caller[r].pc = "cancel")
        /\ pc = "mark" => caller[r].pc = "read"
  BY DEF TimerReads, CancelTimer, TimerReturns, CallerThrows
<1>7. PICK rec : /\ caller' = [caller EXCEPT ![r] = rec]
                 /\ rec.pc = pc /\ rec.task = t /\ rec.verdict = caller[r].verdict
  BY <1>6, CallerGoesOn DEF TaskInv
<1>8. CallerTold(World', rec)
  BY <1>1, <1>2, <1>6, <1>7 DEF CallerTold, Born, World
<1> QED BY <1>1, <1>2, <1>5, <1>6, <1>7, <1>8, CallerFrame

\* A timeout job stalls: it is given up only with an entry in lost.
LEMMA StallTells ==
  ASSUME TaskInv, TypeOK', NEW t \in Tasks, TimerStalls(t), asked \subseteq asked'
  PROVE  TellInv'
<1>1. /\ UNCHANGED <<run, worker, resumer, acts, nodeOf, tasks, row, caller>>
      /\ timer \in [Tasks -> TimerState] /\ timer[t] \in {"active", "retried"}
      /\ lost \subseteq lost'
  BY DEF TimerStalls, TaskInv, TaskTypeOK
<1>2. /\ timer'[t] \in {"stalled", "gone"} /\ (timer'[t] = "gone" => t \in lost')
      /\ \A u \in Tasks : u # t => timer'[u] = timer[u]
  BY <1>1 DEF TimerStalls, AfterStall
<1>3. Later(World, World')
  <2>1. \A u \in Tasks : timer[u] # "none" => timer'[u] # "none"
    BY <1>1, <1>2
  <2> QED BY <1>1, <2>1, TaskLater
<1>4. RowsInv /\ TasksApart /\ \A r \in Resumers : CallerInCall(r)
  BY DEF TaskInv, TellInv
<1>5. RowsInv'
  BY <1>1, <1>2, <1>4 DEF RowsInv
<1>6. TasksApart' /\ \A r \in Resumers : CallerInCall(r)'
  BY <1>1, <1>4 DEF TasksApart, Delivers, CallerInCall
<1> QED BY <1>1, <1>3, <1>5, <1>6, TellFrame

\* A caller that has resolved its task calls resumeRun, which loads the run.
LEMMA CallResumeTells ==
  ASSUME TaskInv, TypeOK', NEW r \in Resumers, CallResume(r), asked \subseteq asked'
  PROVE  TellInv'
<1> DEFINE t == caller[r].task
           loaded == [IdleResumer EXCEPT !.pc = "loaded", !.task = t, !.verdict = caller[r].verdict,
                                         !.state = run]
<1>1. /\ UNCHANGED <<run, worker, acts, nodeOf, tasks, row, timer, lost>>
      /\ caller[r].pc = "call" /\ resumer' = [resumer EXCEPT ![r] = loaded] /\ CallerAt(r, "wait")
  BY DEF CallResume, ResumeCall
<1>2. t \in Tasks /\ row[t].status # "none" /\ row[t].status \in Resolved
      /\ resumer[r].pc = "idle" /\ resumer[r].next = 0
  BY <1>1, CallerKnows DEF CallerInCall
<1>3. loaded.state = run /\ loaded.pc = "loaded" /\ loaded.task = t
      /\ loaded.verdict = caller[r].verdict /\ loaded.next = 0
  BY DEF IdleResumer
<1> HIDE DEF loaded
<1>4. PICK rec : /\ caller' = [caller EXCEPT ![r] = rec]
                 /\ rec.pc = "wait" /\ rec.task = t /\ rec.verdict = caller[r].verdict
  BY <1>1, CallerGoesOn DEF TaskInv
<1>5. /\ resumer \in [Resumers -> ResumerRecord] /\ caller \in [Resumers -> CallerRecord]
      /\ run \in RunRecord /\ Told(World, run) /\ World.acts \in Nat /\ World'.acts \in Nat
  BY DEF World, TaskInv, TellInv, MatchInv, TypeOK, TaskTypeOK
<1>6. /\ caller'[r] = rec /\ resumer'[r] = loaded
      /\ \A q \in Resumers : q # r => caller'[q] = caller[q] /\ resumer'[q] = resumer[q]
  BY <1>1, <1>4, <1>5
<1>7. Later(World, World')
  <2>1. \A q \in Resumers : resumer[q].next # 0 =>
          /\ resumer'[q].next = resumer[q].next
          /\ caller'[q].task = caller[q].task /\ caller'[q].verdict = caller[q].verdict
    BY <1>2, <1>6
  <2> QED BY <1>1, <2>1, TaskLater
<1>8. RowsInv' /\ TasksApart' /\ Told(World', run)
  BY <1>1, <1>5, <1>7, WorkersStay, ToldLater
<1>9. ResumerTold(World', loaded)
  BY <1>1, <1>2, <1>3, <1>8 DEF ResumerTold, Born, World
<1>10. CallerTold(World', rec)
  BY <1>1, <1>2, <1>4 DEF CallerTold, Born, World
<1>11. ASSUME NEW q \in Resumers PROVE CallerInCall(q)'
  <2>1. CASE q = r
    BY <1>3, <1>4, <1>6, <2>1 DEF CallerInCall
  <2>2. CASE q # r
    BY <1>6, <2>2 DEF CallerInCall, TaskInv, TellInv
  <2> QED BY <2>1, <2>2
<1>12. \A q \in Resumers : /\ ResumerTold(World', resumer'[q]) \/ resumer'[q] = resumer[q]
                           /\ CallerTold(World', caller'[q]) \/ caller'[q] = caller[q]
                           /\ CallerInCall(q)'
  BY <1>6, <1>9, <1>10, <1>11
<1> QED BY <1>1, <1>7, <1>8, <1>12, TellFrame

\* A caller dies, its call of resumeRun with it.
LEMMA CrashTells ==
  ASSUME TaskInv, TypeOK', NEW r \in Resumers, CallerCrashes(r), asked \subseteq asked'
  PROVE  TellInv'
<1>1. /\ UNCHANGED <<run, worker, acts, nodeOf, tasks, row, timer, lost>> /\ CallerAt(r, "done")
      /\ resumer' = [resumer EXCEPT ![r].pc = "done", ![r].state = CreatedRun]
  BY DEF CallerCrashes
<1>2. resumer \in [Resumers -> ResumerRecord] /\ caller \in [Resumers -> CallerRecord]
  BY DEF TaskInv, TaskTypeOK, MatchInv, TypeOK
<1>3. PICK gone : /\ caller' = [caller EXCEPT ![r] = gone] /\ gone.pc = "done"
                  /\ gone.task = caller[r].task /\ gone.verdict = caller[r].verdict
  BY <1>1, CallerGoesOn DEF TaskInv
<1>4. /\ resumer'[r].pc = "done" /\ resumer'[r].state = CreatedRun
      /\ resumer'[r].next = resumer[r].next /\ caller'[r] = gone
      /\ \A q \in Resumers : q # r => caller'[q] = caller[q] /\ resumer'[q] = resumer[q]
  BY <1>1, <1>2, <1>3 DEF ResumerRecord
<1>5. Later(World, World')
  <2>1. \A q \in Resumers : /\ resumer'[q].next = resumer[q].next
                            /\ caller'[q].task = caller[q].task
                            /\ caller'[q].verdict = caller[q].verdict
    BY <1>3, <1>4
  <2> QED BY <1>1, <2>1, TaskLater
<1>6. RowsInv' /\ TasksApart'
  BY <1>1, WorkersStay
<1>7. CallerTold(World', gone) /\ ResumerTold(World', resumer'[r])
  BY <1>3, <1>4, NothingTold DEF CallerTold, ResumerTold
<1>8. ASSUME NEW q \in Resumers PROVE CallerInCall(q)'
  <2>1. CASE q = r
    BY <1>3, <1>4, <2>1 DEF CallerInCall
  <2>2. CASE q # r
    BY <1>4, <2>2 DEF CallerInCall, TaskInv, TellInv
  <2> QED BY <2>1, <2>2
<1>9. \A q \in Resumers : /\ ResumerTold(World', resumer'[q]) \/ resumer'[q] = resumer[q]
                          /\ CallerTold(World', caller'[q]) \/ caller'[q] = caller[q]
                          /\ CallerInCall(q)'
  BY <1>4, <1>7, <1>8
<1> QED BY <1>1, <1>5, <1>6, <1>9, TellFrame

-----------------------------------------------------------------------------
(* The theorems. *)

\* The accidents of a caller are the only steps that the engine alone cannot take.
LEMMA EngineSteps ==
  ASSUME TaskInv, [TaskNext]_taskVars
  PROVE  \/ [Next]_vars
         \/ \E r \in Resumers : CallerCrashes(r)
         \/ \E t \in Tasks : TimerStalls(t)
<1>1. ASSUME NEW r \in Resumers, CallResume(r) PROVE Next
  <2>1. caller[r].task \in Tasks /\ caller[r].verdict \in Verdicts
    BY <1>1, CallerKnows DEF CallResume, CallerRecord
  <2> QED BY <1>1, <2>1 DEF CallResume, Next
<1>2. ASSUME NEW r \in Resumers, CallerStep(r) \/ CallerThrows(r) PROVE [Next]_vars
  BY <1>1, <1>2 DEF CallerStep, TimerReads, Mark, CancelTimer, ResumeGoesOn, TimerReturns,
                    CallerThrows, Next
<1>3. ASSUME NEW w \in Workers, WorkerGoesOn(w) \/ CreateRow(w) \/ EnqueueTimeout(w) PROVE [Next]_vars
  BY <1>3 DEF WorkerGoesOn, CreateRow, EnqueueTimeout, Next
<1>4. ASSUME NEW r \in Resumers, NEW t \in Tasks, NEW verdict \in Verdicts,
             PersonReads(r, t, verdict) \/ PlaneReads(r, t) \/ TimerFires(r, t)
      PROVE  UNCHANGED vars
  BY <1>4 DEF PersonReads, PlaneReads, TimerFires
<1>5. "approve" \in Verdicts
  BY DEF Verdicts
<1> QED BY <1>2, <1>3, <1>4, <1>5 DEF TaskNext, TaskAction, EngineFaults, Next, taskVars

\* Every step keeps what is known of the activations.
LEMMA TaskMade ==
  ASSUME TaskInv, [TaskNext]_taskVars
  PROVE  MatchInv'
<1>1. CASE [Next]_vars
  BY <1>1, StepMade DEF TaskInv
<1>2. ASSUME NEW r \in Resumers, CallerCrashes(r) PROVE MatchInv'
  <2> DEFINE rec == [resumer[r] EXCEPT !.pc = "done", !.state = CreatedRun]
  <2>1. /\ UNCHANGED <<run, jobs, stalled, starter, worker, acts, nodeOf, tasks, won>>
        /\ resumer' = [resumer EXCEPT ![r] = rec] /\ faults < MaxFaults /\ faults' = faults + 1
    BY <1>2 DEF CallerCrashes, Fault
  <2>2. /\ MatchInv /\ TypeOK /\ resumer[r] \in ResumerRecord /\ CreatedRun \in RunRecord
        /\ ResumerMade(acts, nodeOf, resumer[r])
    BY CreatedRunType DEF TaskInv, MatchInv, TypeOK
  <2>3. rec \in ResumerRecord /\ rec.next = resumer[r].next /\ rec.state = CreatedRun
    BY <2>2 DEF ResumerRecord
  <2> HIDE DEF rec
  <2>4. TypeOK'
    BY <2>1, <2>2, <2>3, LimitAssumption DEF TypeOK
  <2>5. ResumerMade(acts, nodeOf, rec)
    BY <2>2, <2>3, CreatedRunMade DEF ResumerMade, TypeOK
  <2>6. \A q \in Resumers : ResumerMade(acts, nodeOf, resumer'[q])
    BY <2>1, <2>2, <2>5 DEF MatchInv, TypeOK
  <2> QED BY <2>1, <2>2, <2>4, <2>6 DEF MatchInv
<1>3. ASSUME NEW t \in Tasks, TimerStalls(t) PROVE MatchInv'
  <2>1. /\ UNCHANGED <<run, jobs, stalled, starter, worker, resumer, acts, nodeOf, tasks, won>>
        /\ faults' = faults \/ (faults < MaxFaults /\ faults' = faults + 1)
    BY <1>3 DEF TimerStalls, Fault
  <2>2. MatchInv /\ TypeOK
    BY DEF TaskInv, MatchInv
  <2>3. TypeOK'
    BY <2>1, <2>2, LimitAssumption DEF TypeOK
  <2> QED BY <2>1, <2>2, <2>3 DEF MatchInv
<1> QED BY <1>1, <1>2, <1>3, EngineSteps

\* Every step keeps the types of this module's variables.
LEMMA TaskType ==
  ASSUME TaskInv, TypeOK', [TaskNext]_taskVars
  PROVE  TaskTypeOK'
<1>1. /\ row \in [Tasks -> RowRecord] /\ timer \in [Tasks -> TimerState]
      /\ caller \in [Resumers -> CallerRecord]
      /\ lost \subseteq Tasks /\ harmed \subseteq Tasks /\ asked \subseteq Suspensions
      /\ worker \in [Workers -> WorkerRecord]
  BY DEF TaskInv, TaskTypeOK, MatchInv, TypeOK
<1> DEFINE Typed == /\ row \in [Tasks -> RowRecord] /\ timer \in [Tasks -> TimerState]
                    /\ caller \in [Resumers -> CallerRecord]
                    /\ lost \subseteq Tasks /\ harmed \subseteq Tasks
<1>2. ASSUME NEW r \in Resumers, NEW pc \in CallerPc, CallerAt(r, pc)
      PROVE  caller' \in [Resumers -> CallerRecord]
  <2>1. [caller[r] EXCEPT !.pc = pc] \in CallerRecord
    BY <1>1, <1>2 DEF CallerRecord
  <2> QED BY <1>1, <1>2, <2>1 DEF CallerAt
<1>3. {"mark", "cancel", "call", "wait", "done"} \subseteq CallerPc
  BY DEF CallerPc
<1>4. {"delayed", "active", "stalled", "retried", "gone"} \subseteq TimerState
  BY DEF TimerState
<1>5. ASSUME UNCHANGED hitlVars PROVE Typed'
  BY <1>1, <1>5 DEF hitlVars
<1>6. ASSUME NEW w \in Workers, CreateRow(w) PROVE Typed'
  <2>1. [status |-> "pending", node |-> worker[w].node, verdict |-> "none"] \in RowRecord
    BY <1>1 DEF RowRecord, WorkerRecord
  <2> QED BY <1>1, <1>6, <2>1 DEF CreateRow
<1>7. ASSUME NEW w \in Workers, EnqueueTimeout(w) PROVE Typed'
  BY <1>1, <1>4, <1>7 DEF EnqueueTimeout
<1>8. ASSUME NEW r \in Resumers, NEW t \in Tasks, NEW kind \in {"person", "timer", "plane"},
             NEW pc \in {"read", "mark"}, NEW verdict \in Verdicts,
             NEW job \in {"none", "active", "retried"},
             caller' = [caller EXCEPT ![r] = [kind |-> kind, pc |-> pc, task |-> t,
                                              verdict |-> verdict, job |-> job]]
      PROVE  caller' \in [Resumers -> CallerRecord]
  <2>1. [kind |-> kind, pc |-> pc, task |-> t, verdict |-> verdict, job |-> job] \in CallerRecord
    BY LimitAssumption DEF CallerRecord, CallerPc, Tasks
  <2> QED BY <1>1, <1>8, <2>1
<1>9. "approve" \in Verdicts /\ "reject" \in Verdicts
  BY DEF Verdicts
<1>10. ASSUME NEW r \in Resumers, NEW t \in Tasks, NEW verdict \in Verdicts, PersonReads(r, t, verdict)
       PROVE  Typed'
  BY <1>1, <1>8, <1>10 DEF PersonReads
<1>11. ASSUME NEW r \in Resumers, NEW t \in Tasks, PlaneReads(r, t) PROVE Typed'
  BY <1>1, <1>8, <1>9, <1>11 DEF PlaneReads
<1>12. ASSUME NEW r \in Resumers, NEW t \in Tasks, TimerFires(r, t) PROVE Typed'
  <2> DEFINE taken == IF timer[t] = "delayed" THEN "active" ELSE "retried"
             verdict == IF OnTimeout = "halt" THEN "reject" ELSE "approve"
  <2>1. taken \in {"active", "retried"} /\ taken \in TimerState /\ verdict \in Verdicts
    BY <1>4, <1>9
  <2>2. caller' = [caller EXCEPT ![r] = [kind |-> "timer", pc |-> "read", task |-> t, job |-> taken,
                                         verdict |-> verdict]]
        /\ timer' = [timer EXCEPT ![t] = taken] /\ UNCHANGED <<row, lost, harmed>>
    BY <1>12 DEF TimerFires
  <2> HIDE DEF taken, verdict
  <2>3. [kind |-> "timer", pc |-> "read", task |-> t, job |-> taken, verdict |-> verdict]
          \in CallerRecord
    BY <2>1, LimitAssumption DEF CallerRecord, CallerPc, Tasks
  <2> QED BY <1>1, <2>1, <2>2, <2>3
<1>13. ASSUME NEW r \in Resumers, TimerReads(r) PROVE Typed'
  <2>1. caller' \in [Resumers -> CallerRecord] /\ caller[r].task \in Tasks
    BY <1>2, <1>3, <1>13, CallerKnows DEF TimerReads
  <2>2. timer' \in [Tasks -> TimerState]
    BY <1>1, <1>13, <2>1, JobEndsAlone DEF TimerReads
  <2> QED BY <1>1, <1>13, <2>1, <2>2 DEF TimerReads
<1>14. ASSUME NEW r \in Resumers, Mark(r) PROVE Typed'
  <2> DEFINE t == caller[r].task
             verdict == IF caller[r].kind = "person" THEN caller[r].verdict ELSE row[t].verdict
             marked == [row[t] EXCEPT !.status = MarkedStatus(caller[r].kind), !.verdict = verdict]
  <2>1. caller[r] \in CallerRecord /\ t \in Tasks /\ row[t] \in RowRecord /\ caller[r].verdict \in Verdicts
    BY <1>14, CallerKnows DEF Mark, CallerRecord
  <2>2. MarkedStatus(caller[r].kind) \in Resolved
    BY <2>1 DEF MarkedStatus, Resolved, CallerRecord
  <2>3. marked \in RowRecord
    BY <2>1, <2>2 DEF RowRecord
  <2>4. row' = [row EXCEPT ![t] = marked] /\ lost' = lost
    BY <1>14 DEF Mark
  <2> HIDE DEF marked
  <2>5. row' \in [Tasks -> RowRecord]
    BY <1>1, <2>1, <2>3, <2>4
  <2>6. caller' \in [Resumers -> CallerRecord]
    BY <1>2, <1>3, <1>14, <2>1 DEF Mark, CallerRecord
  <2>7. harmed' \subseteq Tasks /\ timer' = timer
    BY <1>1, <1>14, <2>1 DEF Mark, Harm, CallerRecord
  <2> QED BY <1>1, <2>4, <2>5, <2>6, <2>7
<1>15. ASSUME NEW r \in Resumers, CancelTimer(r) PROVE Typed'
  <2>1. caller[r].task \in Tasks
    BY <1>15, CallerKnows DEF CancelTimer
  <2>2. caller' \in [Resumers -> CallerRecord]
    BY <1>2, <1>3, <1>15 DEF CancelTimer
  <2>3. timer' \in [Tasks -> TimerState]
    BY <1>1, <1>4, <1>15, <2>1 DEF CancelTimer
  <2> QED BY <1>1, <1>15, <2>1, <2>2, <2>3 DEF CancelTimer, Harm
<1>16. ASSUME NEW r \in Resumers, CallResume(r) PROVE Typed'
  BY <1>1, <1>2, <1>3, <1>16 DEF CallResume
<1>17. ASSUME NEW r \in Resumers, ResumeGoesOn(r) PROVE Typed'
  <2>1. resumer[r].pc = "loaded" => caller[r].task \in Tasks
    BY CallerKnows DEF TaskInv, TellInv, CallerInCall
  <2> QED BY <1>1, <1>17, <2>1 DEF ResumeGoesOn, Harm
<1>18. ASSUME NEW r \in Resumers, TimerReturns(r) PROVE Typed'
  <2>1. caller' \in [Resumers -> CallerRecord] /\ caller[r].task \in Tasks
    BY <1>2, <1>3, <1>18, CallerKnows DEF TimerReturns
  <2>2. timer' \in [Tasks -> TimerState]
    BY <1>1, <1>18, <2>1, JobEndsAlone DEF TimerReturns
  <2> QED BY <1>1, <1>18, <2>1, <2>2 DEF TimerReturns
<1>19. ASSUME NEW r \in Resumers, CallerThrows(r) PROVE Typed'
  <2>1. caller' \in [Resumers -> CallerRecord] /\ caller[r].task \in Tasks
    BY <1>2, <1>3, <1>19, CallerKnows DEF CallerThrows
  <2>2. timer' \in [Tasks -> TimerState]
    BY <1>1, <1>19, <2>1, JobEndsAlone DEF CallerThrows
  <2> QED BY <1>1, <1>19, <2>1, <2>2 DEF CallerThrows, Abandons, Harm
<1>20. ASSUME NEW r \in Resumers, CallerCrashes(r) PROVE Typed'
  <2>1. caller' \in [Resumers -> CallerRecord] /\ caller[r].task \in Tasks
    BY <1>2, <1>3, <1>20, CallerKnows DEF CallerCrashes
  <2> QED BY <1>1, <1>20, <2>1 DEF CallerCrashes, Abandons, Harm
<1>21. ASSUME NEW t \in Tasks, TimerStalls(t) PROVE Typed'
  BY <1>1, <1>4, <1>21 DEF TimerStalls, AfterStall
<1>22. ASSUME NEW r \in Resumers, CallerStep(r) PROVE Typed'
  BY <1>13, <1>14, <1>15, <1>16, <1>17, <1>18, <1>22 DEF CallerStep
<1>23. Typed'
  BY <1>5, <1>6, <1>7, <1>10, <1>11, <1>12, <1>19, <1>20, <1>21, <1>22
     DEF TaskNext, TaskAction, WorkerGoesOn, EngineFaults, taskVars
<1>24. asked' \subseteq Suspensions
  <2>1. run'.susp \subseteq Suspensions
    BY DEF TypeOK, RunRecord
  <2> QED BY <1>1, <2>1 DEF TaskNext, taskVars
<1> QED BY <1>23, <1>24 DEF TaskTypeOK

\* The initial state, and every step, satisfy the invariant.
LEMMA TaskInvariant == (TaskInit => TaskInv) /\ (TaskInv /\ [TaskNext]_taskVars => TaskInv')
<1>1. ASSUME TaskInit PROVE TaskInv
  <2>1. MatchInv
    BY <1>1, InitMade DEF TaskInit
  <2>2. TaskTypeOK
    <3>1. NoRow \in RowRecord
      BY GraphAssumption DEF NoRow, RowRecord
    <3>2. IdleCaller \in CallerRecord
      BY LimitAssumption DEF IdleCaller, CallerRecord, CallerPc, Verdicts
    <3> QED BY <1>1, <3>1, <3>2 DEF TaskInit, TaskTypeOK, TimerState
  <2>3. RowsInv /\ TasksApart
    BY <1>1 DEF TaskInit, Init, IdleWorker, RowsInv, TasksApart, Delivers, NoRow
  <2>4. /\ Told(World, run) /\ \A w \in Workers : WorkerTold(World, worker[w])
        /\ \A r \in Resumers : ResumerTold(World, resumer[r]) /\ CallerTold(World, caller[r])
    BY <1>1, NothingTold DEF TaskInit, Init
  <2>5. \A r \in Resumers : CallerInCall(r)
    BY <1>1 DEF TaskInit, Init, IdleResumer, IdleCaller, CallerInCall
  <2> QED BY <2>1, <2>2, <2>3, <2>4, <2>5 DEF TaskInv, TellInv
<1>2. ASSUME TaskInv, [TaskNext]_taskVars PROVE TaskInv'
  <2>1. MatchInv' /\ TaskTypeOK' /\ TypeOK'
    <3>1. MatchInv' /\ TypeOK'
      BY <1>2, TaskMade DEF MatchInv
    <3> QED BY <1>2, <3>1, TaskType
  <2>2. TellInv'
    <3>1. CASE UNCHANGED taskVars
      <4>1. World' = World /\ RowsInv' /\ TasksApart'
        BY <1>2, <3>1, WorkersStay DEF taskVars, vars, hitlVars, World
      <4>2. UNCHANGED <<run, worker, resumer, caller>>
        BY <3>1 DEF taskVars, vars, hitlVars
      <4> QED BY <1>2, <4>1, <4>2 DEF TaskInv, TellInv, CallerInCall
    <3>2. CASE TaskNext
      <4>1. asked' = asked \cup run'.susp /\ asked \subseteq asked' /\ TaskAction
        BY <3>2 DEF TaskNext
      <4>2. CASE (Start \/ StartDispatch) /\ UNCHANGED hitlVars
        BY <1>2, <2>1, <4>1, <4>2, StartTells
      <4>3. CASE \E w \in Workers : WorkerGoesOn(w) \/ CreateRow(w) \/ EnqueueTimeout(w)
        BY <1>2, <2>1, <4>1, <4>3, WorkerTells, CreateRowTells, EnqueueTells
      <4>4. ASSUME NEW r \in Resumers, NEW t \in Tasks,
                   \/ \E verdict \in Verdicts : PersonReads(r, t, verdict)
                   \/ PlaneReads(r, t) \/ TimerFires(r, t)
            PROVE  TellInv'
        BY <1>2, <2>1, <4>1, <4>4, CallerBeginsTells
      <4>5. ASSUME NEW r \in Resumers, CallerStep(r) \/ CallerThrows(r) \/ CallerCrashes(r)
            PROVE  TellInv'
        BY <1>2, <2>1, <4>1, <4>5, MarkTells, TimerTells, CallResumeTells, ResumeTells, CrashTells
           DEF CallerStep
      <4>6. ASSUME NEW t \in Tasks, TimerStalls(t) PROVE TellInv'
        BY <1>2, <2>1, <4>1, <4>6, StallTells
      <4>7. CASE EngineFaults
        BY <1>2, <2>1, <4>1, <4>7, FaultTells
      <4> QED BY <4>1, <4>2, <4>3, <4>4, <4>5, <4>6, <4>7 DEF TaskAction
    <3> QED BY <1>2, <3>1, <3>2
  <2> QED BY <2>1, <2>2 DEF TaskInv
<1> QED BY <1>1, <1>2

\* The rows, jobs and callers of a run's human tasks have their types in every reachable
\* state: no accident is booked for a task that does not exist.
THEOREM TaskTypes == TaskSpec => []TaskTypeOK
BY TaskInvariant, PTL DEF TaskSpec, TaskInv

\* Whoever answers, however late, and whatever copy of the run is saved over another one: the
\* verdict a node's handler passes to the node is the verdict of the caller that resumed the run
\* into this activation, for the task which the saved run was suspended with for this node.  The
\* answer to an orphaned task, which no saved run names, never gets there.
THEOREM VerdictsReachTheirNode == TaskSpec => []VerdictIsOfItsTask
<1>1. TaskInv => VerdictIsOfItsTask
  <2> SUFFICES ASSUME TaskInv, NEW w \in Workers, worker[w].ctx # "none"
               PROVE  \E r \in Resumers, entry \in asked :
                        /\ resumer[r].next = worker[w].act /\ caller[r].verdict = worker[w].ctx
                        /\ entry.task = caller[r].task /\ entry.node = worker[w].node
                        /\ row[entry.task].status \in Resolved
    BY DEF VerdictIsOfItsTask
  <2>1. Given(World, worker[w].act, worker[w].node, worker[w].ctx)
    BY DEF TaskInv, TellInv, WorkerTold
  <2> QED BY <2>1 DEF Given, World
<1> QED BY <1>1, TaskInvariant, PTL DEF TaskSpec

\* With a timeout queue a run never waits for a pending task without a timeout job, not even when
\* a stale copy of an earlier wait is saved again after a crash or by a second processor: unless
\* the job itself failed, by a processor that threw while it held it or by a second stall.
THEOREM PendingTasksAreTimed == TaskSpec => []PendingTaskHasTimer
<1>1. TaskInv => PendingTaskHasTimer
  <2> SUFFICES ASSUME TaskInv, TimeoutQueue, NEW t \in Waiting, row[t].status = "pending"
               PROVE  timer[t] \notin {"none", "gone"} \/ t \in lost
    BY DEF PendingTaskHasTimer
  <2>1. PICK s \in run.susp : s.task = t
    BY DEF Waiting
  <2>2. t \in Tasks /\ timer[t] # "none"
    BY <2>1 DEF TaskInv, TellInv, Told, Asked, Born, World
  <2>3. timer[t] = "gone" => t \in lost
    BY <2>2 DEF TaskInv, TellInv, RowsInv, Resolved
  <2> QED BY <2>2, <2>3
<1> QED BY <1>1, TaskInvariant, PTL DEF TaskSpec

-----------------------------------------------------------------------------
(* Where an answer can be: with one processor that does not retry, no copy of the run that   *)
(* could be saved again brings back a wait that is over.                                     *)

OneHandler == MaxAttempts = 1 /\ \A v, w \in Workers : v = w

\* The node is executed: between the check of the request and the result or the suspension.
Executing == {"clear", "mark", "exec", "report", "suspend", "suspendSave"}

\* What a handler holds is of a pending run, in the first attempt, and the run is pending
\* still: nothing but the handler's own save suspends it.
InHand(r, rec) ==
  /\ \/ rec.pc \in Executing
     \/ rec.pc = "handle" /\ "state" \in rec.got /\ rec.state.status = "pending"
     => r.status = "pending"
  /\ rec.pc \in Executing \cup {"handle"} => rec.attempt = 1
  /\ rec.pc \in Executing /\ ("state" \in rec.got \/ rec.pc \in {"report", "suspendSave"})
       => rec.state.status = "pending"
  /\ rec.ending.status \notin {"pending", "suspended"}

\* A suspension entry in some copy of the record; a pending activation has none.
Kept(s) == \/ s \in run.susp
           \/ \E w \in Workers : s \in worker[w].state.susp \cup worker[w].ending.susp
           \/ \E r \in Resumers : s \in resumer[r].state.susp
NotAsked(rec) == rec.status = "pending" => \A s \in Suspensions : Kept(s) => s.act # rec.pending.act

\* The caller that resolved the task is on its way, or it met an accident.
Cared(t) == row[t].status \in Resolved => OnItsWay(t) \/ t \in harmed

\* The tasks whose resolution must not be lost: those the run waits for, and the one whose
\* wait is being saved.  A call that has saved its resume was for neither.
Awaited(t) == t \in Waiting \/ \E w \in Workers : Delivers(w) /\ worker[w].task = t

AnswerInv ==
  /\ \A w \in Workers : InHand(run, worker[w]) /\ NotAsked(worker[w].state)
  /\ NotAsked(run)
  /\ \A w \in Workers : Delivers(w) => \A s \in Suspensions : Kept(s) => s.task # worker[w].task
  /\ \A r \in Resumers : resumer[r].pc = "dispatch" => ~Awaited(caller[r].task)
  /\ \A t \in Tasks : Awaited(t) => Cared(t)

-----------------------------------------------------------------------------
(* What a step of the worker does to the run, and to what it holds. *)

Advances(w) ==
  /\ InHand(run', worker'[w])
  /\ worker'[w].state \in {CreatedRun, worker[w].state, run}
  /\ worker'[w].pc = "suspendSave" => /\ worker[w].pc = "suspend" /\ run' = run
                                      /\ tasks < MaxTasks /\ worker'[w].task = tasks + 1
  /\ \/ worker[w].pc # "suspendSave" /\ run' = run
     \/ worker[w].pc # "suspendSave" /\ run'.status \notin {"pending", "suspended"}
     \/ /\ worker[w].pc # "suspendSave" /\ worker[w].state.status = "pending"
        /\ run'.status = "pending" /\ run'.pending = worker[w].state.pending
     \/ /\ worker[w].pc # "suspendSave"
        /\ run'.status = "pending" /\ run'.pending.act = acts + 1
     \/ /\ worker[w].pc = "suspendSave" /\ run'.status = "suspended"
        /\ run'.pending = worker[w].state.pending /\ worker'[w].state = CreatedRun

\* A processor that goes on with its request drops what it has read, and keeps its attempt.
LEMMA GotoFields ==
  ASSUME worker \in [Workers -> WorkerRecord], NEW w \in Workers, NEW pc \in WorkerPc
  PROVE  /\ Goto(w, pc) \in WorkerRecord
         /\ Goto(w, pc).pc = pc /\ Goto(w, pc).got = {} /\ Goto(w, pc).state = CreatedRun
         /\ Goto(w, pc).attempt = worker[w].attempt /\ Goto(w, pc).ending = worker[w].ending
<1>1. /\ Goto(w, pc).pc = pc /\ Goto(w, pc).got = {} /\ Goto(w, pc).state = CreatedRun
      /\ Goto(w, pc).attempt = worker[w].attempt /\ Goto(w, pc).ending = worker[w].ending
  BY DEF WorkerRecord, Goto
<1> QED BY <1>1, GotoType

\* A handler that goes on at pc has nothing in hand.
EmptyHanded(r, rec, pc) == InHand(r, rec) /\ rec.state = CreatedRun /\ rec.pc = pc

\* A handler that goes on, however its result or its next step is noted, has nothing in hand; it
\* executes its node only in the first attempt on a pending run.
LEMMA GotoInHand ==
  ASSUME worker \in [Workers -> WorkerRecord], NEW w \in Workers, NEW pc \in WorkerPc,
         pc \notin {"handle", "report", "suspendSave"}, NEW r,
         worker[w].ending.status \notin {"pending", "suspended"},
         pc \in Executing => r.status = "pending" /\ worker[w].attempt = 1
  PROVE  /\ EmptyHanded(r, Goto(w, pc), pc)
         /\ \A out : EmptyHanded(r, [Goto(w, pc) EXCEPT !.out = out], pc)
         /\ EmptyHanded(r, [Goto(w, pc) EXCEPT !.reported = TRUE], pc)
         /\ \A ctx : EmptyHanded(r, [Goto(w, pc) EXCEPT !.ctx = ctx], pc)
         /\ \A next, keys, ending : ending.status \notin {"pending", "suspended"} =>
              EmptyHanded(r, [Goto(w, pc) EXCEPT !.next = next, !.ending = ending, !.keys = keys], pc)
         /\ \A out, keys, ending : ending.status \notin {"pending", "suspended"} =>
              EmptyHanded(r, [Goto(w, pc) EXCEPT !.out = out, !.recovering = TRUE,
                                                 !.ending = ending, !.keys = keys], pc)
<1> DEFINE G == Goto(w, pc)
<1>1. /\ G.pc = pc /\ G.got = {} /\ G.state = CreatedRun /\ G.attempt = worker[w].attempt
      /\ G.ending = worker[w].ending
  BY GotoFields
<1>2. G \in WorkerRecord
  BY GotoFields
<1> HIDE DEF G
<1>3. ASSUME NEW rec, rec.pc = pc, rec.got = {}, rec.state = CreatedRun, rec.attempt = G.attempt,
             rec.ending.status \notin {"pending", "suspended"}
      PROVE  EmptyHanded(r, rec, pc)
  BY <1>1, <1>3 DEF InHand, EmptyHanded
<1>4. EmptyHanded(r, G, pc)
  BY <1>1, <1>3
<1>5. \A out : EmptyHanded(r, [G EXCEPT !.out = out], pc)
  BY <1>1, <1>2, <1>3 DEF WorkerRecord
<1>6. EmptyHanded(r, [G EXCEPT !.reported = TRUE], pc)
  BY <1>1, <1>2, <1>3 DEF WorkerRecord
<1>7. \A ctx : EmptyHanded(r, [G EXCEPT !.ctx = ctx], pc)
  BY <1>1, <1>2, <1>3 DEF WorkerRecord
<1>8. \A next, keys, ending : ending.status \notin {"pending", "suspended"} =>
        EmptyHanded(r, [G EXCEPT !.next = next, !.ending = ending, !.keys = keys], pc)
  BY <1>1, <1>2, <1>3 DEF WorkerRecord
<1>9. \A out, keys, ending : ending.status \notin {"pending", "suspended"} =>
        EmptyHanded(r, [G EXCEPT !.out = out, !.recovering = TRUE, !.ending = ending,
                                 !.keys = keys], pc)
  BY <1>1, <1>2, <1>3 DEF WorkerRecord
<1> QED BY <1>4, <1>5, <1>6, <1>7, <1>8, <1>9 DEF G

\* An idle processor, one that is about to acknowledge and one that received have nothing in hand.
LEMMA IdleInHand ==
  ASSUME NEW r
  PROVE  /\ EmptyHanded(r, IdleWorker, "idle")
         /\ \A act, lock :
              EmptyHanded(r, [IdleWorker EXCEPT !.pc = "ack", !.act = act, !.lock = lock], "ack")
         /\ \A act, node :
              EmptyHanded(r, [IdleWorker EXCEPT !.pc = "handle", !.act = act, !.node = node,
                                                !.lock = TRUE, !.attempt = 1], "handle")
<1>1. EmptyHanded(r, IdleWorker, "idle")
  BY DEF EmptyHanded, InHand, IdleWorker, CreatedRun, Executing
<1>2. \A act, lock :
        EmptyHanded(r, [IdleWorker EXCEPT !.pc = "ack", !.act = act, !.lock = lock], "ack")
  BY DEF EmptyHanded, InHand, IdleWorker, CreatedRun, Executing
<1>3. \A act, node :
        EmptyHanded(r, [IdleWorker EXCEPT !.pc = "handle", !.act = act, !.node = node,
                                          !.lock = TRUE, !.attempt = 1], "handle")
  BY DEF EmptyHanded, InHand, IdleWorker, CreatedRun, Executing
<1> QED BY <1>1, <1>2, <1>3

\* A run that ends is neither pending nor suspended any more.
LEMMA TerminalEnding ==
  ASSUME NEW state \in RunRecord, NEW status \in Terminal, NEW queue, NEW count
  PROVE  /\ MergeTerminal(state, status, queue, count).status = status
         /\ status \notin {"pending", "suspended"}
BY DEF MergeTerminal, RunRecord, Terminal

\* Every step of a processor advances in one of these ways: it saves only what is pending in its
\* hand, an activation of its own, an ending, or the wait of the task it has just delivered.
LEMMA WorkerAdvances ==
  ASSUME OneHandler, TypeOK, NEW w \in Workers, WorkerStep(w), InHand(run, worker[w])
  PROVE  Advances(w)
<1> DEFINE W == worker[w]
<1>1. /\ worker \in [Workers -> WorkerRecord] /\ run \in RunRecord /\ acts \in Nat /\ tasks \in Nat
      /\ W \in WorkerRecord /\ W.state \in RunRecord /\ W.ending \in RunRecord
      /\ W.sched.queue \in Seq(Nodes) /\ W.state.count \in Nat
  <2>1. worker \in [Workers -> WorkerRecord] /\ run \in RunRecord /\ acts \in Nat /\ tasks \in Nat
    BY DEF TypeOK
  <2>2. W \in WorkerRecord /\ W.state \in RunRecord /\ W.ending \in RunRecord
        /\ W.sched \in SchedulingState
    BY <2>1 DEF WorkerRecord
  <2> QED BY <2>1, <2>2 DEF SchedulingState, RunRecord
<1>2. {"mark", "clear", "exec", "error", "result", "failSave", "dispatch", "suspend"} \subseteq WorkerPc
  BY DEF WorkerPc
<1>3. W.ending.status \notin {"pending", "suspended"}
  BY DEF InHand
<1>4. W.pc \in Executing => run.status = "pending" /\ W.attempt = 1
  BY DEF InHand
<1>5. W.pc \in Executing /\ ("state" \in W.got \/ W.pc \in {"report", "suspendSave"}) =>
        W.state.status = "pending"
  BY DEF InHand
\* The handler goes on with nothing in hand, or it returns.
<1>6. ASSUME NEW rec, NEW pc, Becomes(w, rec), EmptyHanded(run', rec, pc), pc # "suspendSave",
             W.pc # "suspendSave", run' = run
      PROVE  Advances(w)
  BY <1>1, <1>6 DEF Advances, EmptyHanded, Becomes
<1>7. ASSUME NEW pc \in WorkerPc, pc \notin {"handle", "report", "suspendSave"},
             Becomes(w, Goto(w, pc)), W.pc # "suspendSave", run' = run,
             pc \in Executing => run.status = "pending" /\ W.attempt = 1
      PROVE  Advances(w)
  <2>1. EmptyHanded(run', Goto(w, pc), pc)
    BY <1>1, <1>3, <1>7, GotoInHand
  <2> QED BY <1>6, <1>7, <2>1
<1>8. ASSUME Return(w)
      PROVE  /\ EmptyHanded(run', worker'[w], "ack")
  <2> DEFINE rec == [IdleWorker EXCEPT !.pc = "ack", !.act = W.act, !.lock = W.lock]
  <2>1. EmptyHanded(run', rec, "ack")
    BY IdleInHand
  <2>2. worker'[w] = rec
    BY <1>1, <1>8 DEF Return, Becomes
  <2> QED BY <2>1, <2>2
<1>9. ASSUME Return(w), run' = run, W.pc # "suspendSave" PROVE Advances(w)
  BY <1>8, <1>9 DEF Advances, EmptyHanded
<1>10. ASSUME NEW status \in Terminal, NEW queue \in Seq(Nodes), NEW count \in Nat,
              EndRun(w, W.state, status, queue, count), W.pc # "suspendSave"
       PROVE  Advances(w)
  <2> DEFINE ended == MergeTerminal(W.state, status, queue, count)
  <2>1. ended \in RunRecord /\ ended.status = status
    BY <1>1, <1>10, MergeTerminalType, TerminalEnding
  <2>2. run' = Saved(ended, TerminalKeys(W.state)) /\ Return(w)
    BY <1>10 DEF EndRun
  <2> HIDE DEF ended
  <2>3. run'.status = status /\ status \notin {"pending", "suspended"}
    BY <1>1, <1>10, <2>1, <2>2, SavedType, TerminalEnding
  <2> QED BY <1>8, <1>10, <2>2, <2>3 DEF Advances, EmptyHanded
<1>11. {"completed", "failed", "halted"} \subseteq Terminal /\ <<>> \in Seq(Nodes)
  BY DEF Terminal
\* A copy in hand is saved.
<1>12. ASSUME NEW r \in RunRecord, NEW keys, run' = Saved(r, keys), r.status = W.state.status,
              r.pending = W.state.pending, W.state.status = "pending",
              W.pc # "suspendSave",
              NEW rec, NEW pc, Becomes(w, rec), EmptyHanded(run', rec, pc), pc # "suspendSave"
       PROVE  Advances(w)
  <2>1. run'.status = "pending" /\ run'.pending = W.state.pending
    BY <1>1, <1>12, SavedType
  <2> QED BY <1>1, <1>12, <2>1 DEF Advances, EmptyHanded, Becomes
<1>13. ASSUME NEW r \in RunRecord, NEW keys, run' = Saved(r, keys), r.status = "pending"
       PROVE  run'.status = "pending"
  BY <1>1, <1>13, SavedType
<1>20. ASSUME NEW a \in Acts, Receive(w, a) PROVE Advances(w)
  <2> DEFINE rec == [IdleWorker EXCEPT !.pc = "handle", !.act = a, !.node = nodeOf[a], !.lock = TRUE,
                                       !.attempt = 1]
  <2>1. Becomes(w, rec) /\ run' = run /\ W.pc = "idle"
    BY <1>20 DEF Receive
  <2>2. EmptyHanded(run', rec, "handle")
    BY IdleInHand
  <2> HIDE DEF rec
  <2> QED BY <1>6, <2>1, <2>2
<1>21. ASSUME NEW parts \in SUBSET {"state", "sched"}, Read(w, parts) PROVE Advances(w)
  <2> DEFINE rec == [W EXCEPT !.got = @ \cup parts, !.state = IF "state" \in parts THEN run ELSE @,
                              !.sched = IF "sched" \in parts THEN Sched(run) ELSE @]
  <2>1. Becomes(w, rec) /\ run' = run
        /\ W.pc \in {"handle", "clear", "mark", "suspend", "result", "error"}
    BY <1>21 DEF Read
  <2>2. /\ rec.state = (IF "state" \in parts THEN run ELSE W.state) /\ rec.ending = W.ending
        /\ rec.pc = W.pc /\ rec.got = W.got \cup parts /\ rec.attempt = W.attempt
    BY <1>1 DEF WorkerRecord
  <2> HIDE DEF rec
  <2>3. InHand(run', rec)
    BY <2>1, <2>2 DEF InHand
  <2>4. worker'[w] = rec
    BY <1>1, <2>1 DEF Becomes
  <2> QED BY <2>1, <2>2, <2>3, <2>4 DEF Advances, EmptyHanded
<1>22. ASSUME HandleIgnored(w) PROVE Advances(w)
  BY <1>9, <1>22 DEF HandleIgnored
<1>23. ASSUME Handle(w) PROVE Advances(w)
  <2>1. PICK pc \in {"mark", "clear"} : \E ctx : Becomes(w, [Goto(w, pc) EXCEPT !.ctx = ctx])
    BY <1>23 DEF Handle
  <2>2. PICK ctx : Becomes(w, [Goto(w, pc) EXCEPT !.ctx = ctx])
    BY <2>1
  <2>3. run' = run /\ W.pc = "handle" /\ W.state.status = "pending" /\ "state" \in W.got
    BY <1>23 DEF Handle, HasRead, Reads, IsPending
  <2>4. run.status = "pending" /\ W.attempt = 1
    BY <2>3 DEF InHand
  <2> DEFINE rec == [Goto(w, pc) EXCEPT !.ctx = ctx]
  <2>5. EmptyHanded(run', rec, pc)
    <3>1. pc \in WorkerPc /\ pc \notin {"handle", "report", "suspendSave"}
      BY <1>2
    <3> QED BY <1>1, <1>3, <2>3, <2>4, <3>1, GotoInHand
  <2> HIDE DEF rec
  <2> QED BY <1>6, <2>2, <2>3, <2>5 DEF rec
<1>24. ASSUME ClearResume(w) PROVE Advances(w)
  <2> DEFINE cleared == [W.state EXCEPT !.resume = NoResume]
  <2>1. /\ cleared \in RunRecord /\ cleared.status = W.state.status
        /\ cleared.pending = W.state.pending
    BY <1>1, HitlUpdates DEF RunRecord
  <2>2. W.pc = "clear" /\ "state" \in W.got /\ Becomes(w, Goto(w, "mark"))
    BY <1>24 DEF ClearResume, HasRead, Reads
  <2>3. run.status = "pending" /\ W.attempt = 1 /\ W.state.status = "pending"
    BY <1>4, <1>5, <2>2 DEF Executing
  <2>4. run' = run \/ run' = Saved(cleared, HitlKeys)
    BY <1>24 DEF ClearResume
  <2> HIDE DEF cleared
  <2>5. run'.status = "pending"
    BY <1>13, <2>1, <2>3, <2>4
  <2>6. EmptyHanded(run', Goto(w, "mark"), "mark")
    BY <1>1, <1>2, <1>3, <2>3, <2>5, GotoInHand
  <2> QED BY <1>6, <1>12, <2>1, <2>2, <2>3, <2>4, <2>6
<1>25. ASSUME MarkNodeRunning(w) PROVE Advances(w)
  <2>1. W.pc = "mark" /\ "state" \in W.got /\ Becomes(w, Goto(w, "exec"))
    BY <1>25 DEF MarkNodeRunning, HasRead, Reads
  <2>2. run.status = "pending" /\ W.attempt = 1 /\ W.state.status = "pending"
    BY <1>4, <1>5, <2>1 DEF Executing
  <2>3. run' = run \/ run' = Saved(W.state, LoadedKeys(W.state))
    BY <1>25 DEF MarkNodeRunning
  <2>4. run'.status = "pending"
    BY <1>1, <1>13, <2>2, <2>3
  <2>5. EmptyHanded(run', Goto(w, "exec"), "exec")
    BY <1>1, <1>2, <1>3, <2>2, <2>4, GotoInHand
  <2> QED BY <1>1, <1>6, <1>12, <2>1, <2>2, <2>3, <2>5
<1>26. ASSUME ReportLoad(w) PROVE Advances(w)
  <2> DEFINE rec == [W EXCEPT !.pc = "report", !.state = run]
  <2>1. Becomes(w, rec) /\ run' = run /\ W.pc = "exec"
    BY <1>26 DEF ReportLoad
  <2>2. /\ rec.state = run /\ rec.ending = W.ending /\ rec.pc = "report"
        /\ rec.attempt = W.attempt
    BY <1>1 DEF WorkerRecord
  <2> HIDE DEF rec
  <2>3. run.status = "pending" /\ W.attempt = 1
    BY <1>4, <2>1 DEF Executing
  <2>4. InHand(run', rec)
    BY <1>3, <2>1, <2>2, <2>3 DEF InHand
  <2>5. worker'[w] = rec
    BY <1>1, <2>1 DEF Becomes
  <2> QED BY <2>1, <2>2, <2>4, <2>5 DEF Advances, EmptyHanded
<1>27. ASSUME ReportSave(w) PROVE Advances(w)
  <2> DEFINE rec == [Goto(w, "exec") EXCEPT !.reported = TRUE]
  <2>1. W.pc = "report" /\ Becomes(w, rec) /\ run' = Saved(W.state, LoadedKeys(W.state))
    BY <1>27 DEF ReportSave
  <2>2. W.attempt = 1 /\ W.state.status = "pending"
    BY <1>4, <1>5, <2>1 DEF Executing
  <2>3. run'.status = "pending"
    BY <1>1, <1>13, <2>1, <2>2
  <2>4. EmptyHanded(run', rec, "exec")
    BY <1>1, <1>2, <1>3, <2>2, <2>3, GotoInHand
  <2> HIDE DEF rec
  <2> QED BY <1>1, <1>12, <2>1, <2>2, <2>4
<1>28. ASSUME ExecuteReturns(w) PROVE Advances(w)
  <2>1. PICK out : Becomes(w, [Goto(w, "result") EXCEPT !.out = out])
    BY <1>28 DEF ExecuteReturns
  <2>2. W.pc = "exec" /\ run' = run
    BY <1>28 DEF ExecuteReturns
  <2> DEFINE rec == [Goto(w, "result") EXCEPT !.out = out]
  <2>3. EmptyHanded(run', rec, "result")
    <3>1. "result" \in WorkerPc /\ "result" \notin Executing
      BY <1>2 DEF Executing
    <3> QED BY <1>1, <1>3, <3>1, GotoInHand
  <2> HIDE DEF rec
  <2> QED BY <1>6, <2>1, <2>2, <2>3 DEF rec
<1>29. ASSUME ExecuteThrows(w) PROVE Advances(w)
  <2>1. W.pc \in {"exec", "suspend"} /\ run' = run
    BY <1>29 DEF ExecuteThrows
  <2>2. W.attempt = 1
    BY <1>4, <2>1 DEF Executing
  <2>3. Becomes(w, Goto(w, "error"))
    BY <1>29, <2>2 DEF ExecuteThrows, RetryOr, OneHandler
  <2>4. "error" \in WorkerPc /\ "error" \notin Executing
    BY <1>2 DEF Executing
  <2> QED BY <1>7, <2>1, <2>3, <2>4
<1>30. ASSUME ExecuteSuspends(w) PROVE Advances(w)
  <2>1. W.pc = "exec" /\ run' = run /\ Becomes(w, Goto(w, "suspend"))
    BY <1>30 DEF ExecuteSuspends
  <2>2. run.status = "pending" /\ W.attempt = 1
    BY <1>4, <2>1 DEF Executing
  <2> QED BY <1>2, <1>7, <2>1, <2>2
<1>31. ASSUME Deliver(w) PROVE Advances(w)
  <2> DEFINE rec == [W EXCEPT !.pc = "suspendSave", !.task = tasks + 1]
  <2>1. /\ Becomes(w, rec) /\ run' = run /\ W.pc = "suspend" /\ "state" \in W.got
        /\ tasks < MaxTasks
    BY <1>31 DEF Deliver, HasRead, Reads
  <2>2. /\ rec.state = W.state /\ rec.ending = W.ending /\ rec.pc = "suspendSave"
        /\ rec.attempt = W.attempt /\ rec.task = tasks + 1
    BY <1>1 DEF WorkerRecord
  <2> HIDE DEF rec
  <2>3. run.status = "pending" /\ W.attempt = 1 /\ W.state.status = "pending"
    BY <1>4, <1>5, <2>1 DEF Executing
  <2>4. InHand(run', rec)
    BY <1>3, <2>1, <2>2, <2>3 DEF InHand
  <2>5. worker'[w] = rec
    BY <1>1, <2>1 DEF Becomes
  <2> QED BY <2>1, <2>2, <2>4, <2>5 DEF Advances, EmptyHanded
<1>32. ASSUME SuspendSave(w) PROVE Advances(w)
  <2> DEFINE desired == [W.state EXCEPT !.status = "suspended", !.susp = @ \cup {OwnEntry(w)}]
  <2>1. OwnEntry(w) \in Suspensions
    BY <1>1 DEF OwnEntry, Suspensions, WorkerRecord
  <2>2. desired \in RunRecord
    BY <1>1, <2>1, HitlUpdates
  <2>3. desired.status = "suspended" /\ desired.pending = W.state.pending
    BY <1>1 DEF RunRecord
  <2>4. \E keys : run' = Saved(desired, keys)
    BY <1>32 DEF SuspendSave, OwnEntry
  <2>5. W.pc = "suspendSave"
    BY <1>32 DEF SuspendSave
  <2>6. W.attempt = 1
    BY <1>4, <2>5 DEF Executing
  <2>7. Return(w)
    BY <1>32, <2>6 DEF SuspendSave, OneHandler
  <2> HIDE DEF desired
  <2>8. run'.status = "suspended" /\ run'.pending = W.state.pending
    BY <1>1, <2>2, <2>3, <2>4, SavedType
  <2> QED BY <1>8, <2>5, <2>7, <2>8 DEF Advances, EmptyHanded
<1>33. ASSUME ResultIgnored(w) PROVE Advances(w)
  <2>1. "failSave" \in WorkerPc /\ "failSave" \notin Executing
    BY <1>2 DEF Executing
  <2> QED BY <1>7, <1>9, <1>33, <2>1 DEF ResultIgnored
<1>34. ASSUME ResultHalts(w) PROVE Advances(w)
  BY <1>1, <1>10, <1>11, <1>34 DEF ResultHalts, InResult
<1>35. ASSUME ResultCompletes(w) PROVE Advances(w)
  BY <1>1, <1>10, <1>11, <1>35, PlannedType DEF ResultCompletes, InResult
<1>36. ASSUME ResultOverBudget(w) PROVE Advances(w)
  BY <1>1, <1>10, <1>11, <1>36, PlannedType DEF ResultOverBudget, InResult
<1>37. ASSUME ResultRejected(w) PROVE Advances(w)
  BY <1>1, <1>10, <1>11, <1>37, PlannedType DEF ResultRejected, InResult
<1>38. ASSUME ResultEnqueues(w) PROVE Advances(w)
  <2> DEFINE node == Head(Planned(w))
             queue == Tail(Planned(w))
             ending == MergeTerminal(W.state, "failed", queue, Count(w))
             desired == Enqueued(acts + 1, node, queue, Count(w), {}, NoResume)
  <2>1. node \in Nodes /\ queue \in Seq(Nodes) /\ Count(w) \in Nat
    BY <1>1, <1>38, PlannedType DEF ResultEnqueues
  <2>2. MakeActivation(node) /\ run' = Saved(desired, {})
    BY <1>38 DEF ResultEnqueues
  <2>3. PICK keys : Becomes(w, [Goto(w, "dispatch") EXCEPT
                                  !.next = acts + 1, !.ending = ending, !.keys = keys])
    BY <1>38 DEF ResultEnqueues
  <2>4. W.pc = "result"
    BY <1>38 DEF ResultEnqueues, InResult
  <2>5. ending.status \notin {"pending", "suspended"}
    BY <1>1, <1>11, TerminalEnding
  <2>6. desired.status = "pending" /\ desired.pending.act = acts + 1
    BY DEF Enqueued
  <2> HIDE DEF node, queue, ending
  <2>7. acts + 1 \in 0..MaxActs
    BY <2>1, <2>2, MakeActivationType
  <2>8. desired \in RunRecord
    BY <2>1, <2>7, EnqueuedType, LimitAssumption DEF NoResume, Resumes, Verdicts
  <2> HIDE DEF desired
  <2>9. run'.status = "pending" /\ run'.pending.act = acts + 1
    BY <1>1, <2>2, <2>6, <2>8, SavedType
  <2> DEFINE rec == [Goto(w, "dispatch") EXCEPT !.next = acts + 1, !.ending = ending, !.keys = keys]
  <2>10. EmptyHanded(run', rec, "dispatch")
    <3>1. "dispatch" \in WorkerPc /\ "dispatch" \notin Executing
      BY <1>2 DEF Executing
    <3> QED BY <1>1, <1>3, <2>5, <3>1, GotoInHand
  <2>11. worker'[w] = rec
    BY <1>1, <2>3 DEF Becomes
  <2> HIDE DEF rec
  <2> QED BY <2>4, <2>9, <2>10, <2>11 DEF Advances, EmptyHanded
<1>39. ASSUME Dispatch(w) PROVE Advances(w)
  BY <1>9, <1>39 DEF Dispatch
<1>40. ASSUME SaveFailure(w) PROVE Advances(w)
  <2>1. run' = Saved(W.ending, W.keys) /\ Return(w)
    BY <1>40 DEF SaveFailure
  <2>2. run'.status \notin {"pending", "suspended"}
    BY <1>1, <1>3, <2>1, SavedType
  <2>3. W.pc # "suspendSave"
    BY <1>40 DEF SaveFailure
  <2> QED BY <1>8, <2>1, <2>2, <2>3 DEF Advances, EmptyHanded
<1>41. ASSUME ErrorIgnored(w) PROVE Advances(w)
  BY <1>9, <1>41 DEF ErrorIgnored
<1>42. ASSUME ErrorRecovers(w) PROVE Advances(w)
  <2> DEFINE ending == MergeTerminal(W.state, "failed", W.sched.queue, W.state.count)
  <2>1. PICK out, keys : Becomes(w, [Goto(w, "result") EXCEPT !.out = out, !.recovering = TRUE,
                                                   !.ending = ending, !.keys = keys])
    BY <1>42 DEF ErrorRecovers
  <2>2. ending.status \notin {"pending", "suspended"}
    BY <1>1, <1>11, TerminalEnding
  <2>3. W.pc = "error" /\ run' = run
    BY <1>42 DEF ErrorRecovers, InError
  <2> HIDE DEF ending
  <2> DEFINE rec == [Goto(w, "result") EXCEPT !.out = out, !.recovering = TRUE,
                                              !.ending = ending, !.keys = keys]
  <2>4. EmptyHanded(run', rec, "result")
    <3>1. "result" \in WorkerPc /\ "result" \notin Executing
      BY <1>2 DEF Executing
    <3> QED BY <1>1, <1>3, <2>2, <3>1, GotoInHand
  <2> HIDE DEF rec
  <2> QED BY <1>6, <2>1, <2>3, <2>4 DEF rec
<1>43. ASSUME ErrorFails(w) PROVE Advances(w)
  <2>1. W.sched.queue \in Seq(Nodes)
    BY <1>1
  <2> QED BY <1>1, <1>10, <1>11, <1>43, <2>1 DEF ErrorFails, InError
<1>44. ASSUME Ack(w) PROVE Advances(w)
  BY <1>6, <1>44, IdleInHand DEF Ack
<1> QED
  BY <1>20, <1>21, <1>22, <1>23, <1>24, <1>25, <1>26, <1>27, <1>28, <1>29, <1>30, <1>31, <1>32,
     <1>33, <1>34, <1>35, <1>36, <1>37, <1>38, <1>39, <1>40, <1>41, <1>42, <1>43, <1>44
     DEF WorkerStep

-----------------------------------------------------------------------------
(* Every step keeps the answers. *)

\* An entry that is kept is of an activation that was made and of a task that was delivered.
LEMMA KeptKnown ==
  ASSUME TaskInv, NEW s, Kept(s)
  PROVE  s \in Suspensions /\ s.act <= acts /\ s.task \in Tasks /\ s.task <= tasks
<1>1. /\ run \in RunRecord /\ worker \in [Workers -> WorkerRecord]
      /\ resumer \in [Resumers -> ResumerRecord] /\ acts \in Nat
  BY DEF TaskInv, MatchInv, TypeOK
<1>2. ASSUME NEW r \in RunRecord, s \in r.susp, Told(World, r), RecordMade(acts, nodeOf, r)
      PROVE  s \in Suspensions /\ s.act <= acts /\ s.task \in Tasks /\ s.task <= tasks
  <2>1. s \in Suspensions
    BY <1>2 DEF RunRecord
  <2>2. s.act # 0 => s.act <= acts
    BY <1>2 DEF RecordMade, Made
  <2>3. s.task \in Tasks /\ row[s.task].status # "none"
    BY <1>2 DEF Told, Asked, Born, World
  <2>4. s.task <= tasks
    BY <2>3 DEF TaskInv, TellInv, RowsInv
  <2>5. s.act <= acts
    BY <1>1, <2>2
  <2> QED BY <2>1, <2>3, <2>4, <2>5
<1>3. /\ Told(World, run) /\ RecordMade(acts, nodeOf, run)
  BY DEF TaskInv, TellInv, MatchInv
<1>4. ASSUME NEW w \in Workers
      PROVE  /\ worker[w].state \in RunRecord /\ worker[w].ending \in RunRecord
             /\ Told(World, worker[w].state) /\ RecordMade(acts, nodeOf, worker[w].state)
             /\ Told(World, worker[w].ending) /\ RecordMade(acts, nodeOf, worker[w].ending)
  <2>1. worker[w] \in WorkerRecord /\ WorkerTold(World, worker[w])
        /\ WorkerMade(acts, nodeOf, worker[w])
    BY <1>1 DEF TaskInv, TellInv, MatchInv
  <2> QED BY <2>1 DEF WorkerTold, WorkerMade, WorkerRecord
<1>5. ASSUME NEW r \in Resumers
      PROVE  /\ resumer[r].state \in RunRecord
             /\ Told(World, resumer[r].state) /\ RecordMade(acts, nodeOf, resumer[r].state)
  <2>1. resumer[r] \in ResumerRecord /\ ResumerTold(World, resumer[r])
        /\ ResumerMade(acts, nodeOf, resumer[r])
    BY <1>1 DEF TaskInv, TellInv, MatchInv
  <2> QED BY <2>1 DEF ResumerTold, ResumerMade, ResumerRecord
<1> QED BY <1>1, <1>2, <1>3, <1>4, <1>5 DEF Kept

\* A task that is awaited exists.
LEMMA AwaitedKnown ==
  ASSUME TaskInv, NEW t, Awaited(t)
  PROVE  t \in Tasks
<1>1. CASE t \in Waiting
  <2>1. PICK s \in run.susp : s.task = t
    BY <1>1 DEF Waiting
  <2> QED BY <2>1, KeptKnown DEF Kept
<1>2. CASE \E w \in Workers : Delivers(w) /\ worker[w].task = t
  BY <1>2 DEF TaskInv, TellInv, TasksApart
<1> QED BY <1>1, <1>2 DEF Awaited

\* The run stands still: no copy is added, and no answer is lost.
LEMMA RunStands ==
  ASSUME TaskInv, AnswerInv, run' = run,
         \A w \in Workers :
           /\ InHand(run, worker'[w])
           /\ worker'[w].state \in {CreatedRun, worker[w].state}
           /\ worker'[w].ending \in {CreatedRun, worker[w].ending}
           /\ worker'[w].pc = "suspendSave" => Delivers(w) /\ worker'[w].task = worker[w].task,
         \A r \in Resumers :
           /\ resumer'[r].state \in {CreatedRun, resumer[r].state, run}
           /\ resumer'[r].pc = "dispatch" =>
                resumer[r].pc = "dispatch" /\ caller'[r].task = caller[r].task,
         \A t \in Tasks : Awaited(t) /\ Cared(t) => Cared(t)'
  PROVE  AnswerInv'
<1>1. CreatedRun.susp = {} /\ CreatedRun.status # "pending"
  BY DEF CreatedRun
<1>2. ASSUME NEW s, Kept(s)' PROVE Kept(s)
  BY <1>1, <1>2 DEF Kept
<1>3. NotAsked(run)' /\ \A w \in Workers : NotAsked(worker[w].state)'
  BY <1>1, <1>2 DEF AnswerInv, NotAsked
<1>4. ASSUME NEW t, Awaited(t)' PROVE Awaited(t)
  BY <1>4 DEF Awaited, Waiting, Delivers
<1>5. \A w \in Workers : Delivers(w)' => \A s \in Suspensions : Kept(s)' => s.task # worker'[w].task
  BY <1>2 DEF AnswerInv, Delivers
<1>6. \A r \in Resumers : resumer'[r].pc = "dispatch" => (~Awaited(caller[r].task))'
  BY <1>4 DEF AnswerInv
<1>7. \A t \in Tasks : Awaited(t)' => Cared(t)'
  BY <1>4 DEF AnswerInv
<1>8. \A w \in Workers : InHand(run, worker[w])'
  OBVIOUS
<1> QED BY <1>3, <1>5, <1>6, <1>7, <1>8 DEF AnswerInv

\* The run is saved as pending on a new activation, while the processors stand still.
LEMMA RunPends ==
  ASSUME TaskInv, AnswerInv, run'.status = "pending", run'.pending.act = acts + 1,
         \A s \in run'.susp : Kept(s), UNCHANGED <<worker, caller, row, harmed>>,
         \A r \in Resumers :
           /\ resumer'[r].state \in {CreatedRun, resumer[r].state}
           /\ resumer'[r].pc = "done" => resumer[r].pc = "done"
           /\ resumer'[r].pc = "dispatch" =>
                \A w \in Workers : Delivers(w) => worker[w].task # caller[r].task
  PROVE  AnswerInv'
<1>1. CreatedRun.susp = {}
  BY DEF CreatedRun
<1>2. ASSUME NEW s, Kept(s)' PROVE Kept(s)
  BY <1>1, <1>2 DEF Kept
<1>3. ASSUME NEW s, Kept(s) PROVE s.act # acts + 1
  <2>1. s \in Suspensions /\ s.act <= acts
    BY <1>3, KeptKnown
  <2>2. s.act \in Nat /\ acts \in Nat
    BY <2>1, LimitAssumption DEF Suspensions, TaskInv, MatchInv, TypeOK
  <2> QED BY <2>1, <2>2
<1>4. NotAsked(run)' /\ \A w \in Workers : NotAsked(worker[w].state)'
  BY <1>2, <1>3 DEF AnswerInv, NotAsked
<1>5. Waiting' = {}
  BY DEF Waiting
<1>6. \A w \in Workers : InHand(run', worker'[w])
  BY DEF AnswerInv, InHand
<1>7. \A w \in Workers : Delivers(w)' => \A s \in Suspensions : Kept(s)' => s.task # worker'[w].task
  BY <1>2 DEF AnswerInv, Delivers
<1>8. \A r \in Resumers : resumer'[r].pc = "dispatch" => (~Awaited(caller[r].task))'
  BY <1>5 DEF Awaited, Delivers
<1>9. ASSUME NEW t \in Tasks, Awaited(t)' PROVE Cared(t)'
  <2>1. Awaited(t)
    BY <1>5, <1>9 DEF Awaited, Delivers
  <2>2. Cared(t)
    BY <2>1 DEF AnswerInv
  <2> QED BY <2>2 DEF Cared, OnItsWay
<1>10. \A w \in Workers : InHand(run, worker[w])'
  BY <1>6
<1> QED BY <1>4, <1>7, <1>8, <1>9, <1>10 DEF AnswerInv

\* A step of the worker: the wait it saves is of its own task.
LEMMA WorkerAnswers ==
  ASSUME OneHandler, TaskInv, AnswerInv, NEW w \in Workers, WorkerGoesOn(w)
  PROVE  AnswerInv'
<1> DEFINE W == worker[w]
<1>1. /\ TypeOK /\ worker \in [Workers -> WorkerRecord] /\ run \in RunRecord /\ tasks \in Nat
      /\ W \in WorkerRecord /\ acts \in Nat
  <2>1. TypeOK
    BY DEF TaskInv, MatchInv
  <2> QED BY <2>1 DEF TypeOK
<1>2. Effect(w) /\ Advances(w) /\ UNCHANGED hitlVars
  BY <1>1, WorkerEffect, WorkerAdvances DEF WorkerGoesOn, AnswerInv
<1>3. /\ UNCHANGED <<resumer, row, timer, caller, lost, harmed>> /\ Stores(w)
      /\ \A v \in Workers : v = w
  BY <1>2 DEF Effect, hitlVars, OneHandler
<1>4. PICK rec : Becomes(w, rec) /\ Onward(w, rec)
  BY <1>2 DEF Effect
<1>5. worker'[w] = rec
  BY <1>1, <1>4 DEF Becomes
<1>6. CreatedRun.susp = {} /\ CreatedRun.status # "pending"
  BY DEF CreatedRun
<1>7. ASSUME NEW s, Kept(s)' PROVE Kept(s) \/ (W.pc = "suspendSave" /\ s = OwnEntry(w))
  <2>1. s \in worker'[w].state.susp \cup worker'[w].ending.susp => Kept(s)
    BY <1>4, <1>5, <1>6 DEF Onward, Kept
  <2>2. s \in run'.susp => Kept(s) \/ (W.pc = "suspendSave" /\ s = OwnEntry(w))
    BY <1>3 DEF Stores, Kept
  <2> QED BY <1>3, <1>7, <2>1, <2>2 DEF Kept
<1>8. ASSUME NEW s, Kept(s) PROVE s \in Suspensions /\ s.act # acts + 1 /\ s.task # tasks + 1
  <2>1. s \in Suspensions /\ s.act <= acts /\ s.task <= tasks
    BY <1>8, KeptKnown
  <2>2. s.act \in Nat /\ s.task \in Nat
    BY <2>1, LimitAssumption DEF Suspensions
  <2> QED BY <1>1, <2>1, <2>2
<1>9. NotAsked(run) /\ NotAsked(W.state) /\ InHand(run, W)
  BY DEF AnswerInv
<1>10. W.pc = "suspendSave" => W.state.status = "pending"
  BY <1>9 DEF InHand, Executing
<1>11. CASE W.pc = "suspendSave"
  <2>1. /\ run'.status = "suspended" /\ run'.pending = W.state.pending
        /\ worker'[w].state = CreatedRun /\ worker'[w].pc # "suspendSave"
    BY <1>2, <1>11 DEF Advances
  <2>2. \A t : Awaited(t)' => t = W.task
    <3>1. ASSUME NEW s \in run'.susp, s.act = run'.pending.act PROVE s = OwnEntry(w)
      <4>1. ~Kept(s)
        BY <1>8, <1>9, <1>10, <1>11, <2>1, <3>1 DEF NotAsked
      <4> QED BY <1>3, <1>7, <3>1, <4>1 DEF Stores, Kept
    <3> QED BY <1>3, <2>1, <3>1 DEF Awaited, Waiting, Delivers, OwnEntry
  <2>3. W.task \in Tasks /\ Awaited(W.task)
    BY <1>11, AwaitedKnown DEF Awaited, Delivers
  <2>4. NotAsked(run)' /\ NotAsked(worker[w].state)'
    BY <1>6, <2>1 DEF NotAsked
  <2>5. \A r \in Resumers : (resumer[r].pc = "dispatch" => ~Awaited(caller[r].task))'
    BY <1>3, <2>2, <2>3 DEF AnswerInv
  <2>6. \A t \in Tasks : Awaited(t)' => Cared(t)'
    BY <1>3, <2>2, <2>3 DEF AnswerInv, Cared, OnItsWay
  <2>7. \A v \in Workers : (InHand(run, worker[v]) /\ NotAsked(worker[v].state))'
    BY <1>2, <1>3, <2>4 DEF Advances
  <2>9. \A v \in Workers : ~Delivers(v)'
    BY <1>3, <2>1 DEF Delivers
  <2> QED BY <2>4, <2>5, <2>6, <2>7, <2>9 DEF AnswerInv
\* Otherwise the run waits for what it waited for or for nothing, and a task that is delivered
\* is new.
<1>12. CASE W.pc # "suspendSave"
  <2>1. \A s : Kept(s)' => Kept(s)
    BY <1>7, <1>12
  <2>2. \/ run' = run
        \/ run'.status \notin {"pending", "suspended"}
        \/ run'.status = "pending" /\ run'.pending = W.state.pending /\ W.state.status = "pending"
        \/ run'.status = "pending" /\ run'.pending.act = acts + 1
    BY <1>2, <1>12 DEF Advances
  <2>3. NotAsked(run)' /\ NotAsked(worker[w].state)'
    <3>1. NotAsked(run)'
      BY <1>8, <1>9, <2>1, <2>2 DEF NotAsked
    <3>2. worker'[w].state \in {CreatedRun, W.state, run}
      BY <1>2 DEF Advances
    <3> QED BY <1>6, <1>9, <2>1, <3>1, <3>2 DEF NotAsked
  <2>4. \A t : t \in Waiting' => t \in Waiting
    BY <2>2 DEF Waiting
  <2>5. Delivers(w)' => W.pc = "suspend" /\ tasks < MaxTasks /\ worker'[w].task = tasks + 1
    BY <1>2 DEF Advances, Delivers
  <2>6. \A t \in Tasks : row[t].status # "none" => t # tasks + 1
    BY <1>1, LimitAssumption DEF TaskInv, TellInv, RowsInv, Tasks
  <2>7. ASSUME NEW t, Awaited(t)' PROVE Awaited(t) \/ t = tasks + 1
    BY <1>3, <2>4, <2>5, <2>7 DEF Awaited, Delivers
  <2>8. \A r \in Resumers : (resumer[r].pc = "dispatch" => ~Awaited(caller[r].task))'
    <3>1. ASSUME NEW r \in Resumers, resumer[r].pc = "dispatch"
          PROVE  ~Awaited(caller[r].task) /\ caller[r].task # tasks + 1
      <4>1. caller[r].pc = "wait"
        BY <3>1 DEF TaskInv, TellInv, CallerInCall
      <4>2. caller[r].task \in Tasks /\ row[caller[r].task].status # "none"
        BY <4>1, CallerKnows
      <4> QED BY <2>6, <3>1, <4>2 DEF AnswerInv
    <3> QED BY <1>3, <2>7, <3>1
  <2>9. \A t \in Tasks : Awaited(t)' => Cared(t)'
    <3>1. ASSUME NEW t \in Tasks, Awaited(t)' PROVE Cared(t)
      <4>1. CASE t = tasks + 1
        BY <2>6, <4>1 DEF Cared, Resolved
      <4> QED BY <2>7, <3>1, <4>1 DEF AnswerInv
    <3> QED BY <1>3, <3>1 DEF Cared, OnItsWay
  <2>10. \A v \in Workers : (InHand(run, worker[v]) /\ NotAsked(worker[v].state))'
    BY <1>2, <1>3, <2>3 DEF Advances
  <2>12. \A v \in Workers :
           Delivers(v)' => \A s \in Suspensions : Kept(s)' => s.task # worker'[v].task
    BY <1>3, <1>8, <2>1, <2>5
  <2> QED BY <2>3, <2>8, <2>9, <2>10, <2>12 DEF AnswerInv
<1> QED BY <1>11, <1>12

\* The start of the run.
LEMMA StartAnswers ==
  ASSUME TaskInv, AnswerInv, Start \/ StartDispatch, UNCHANGED hitlVars
  PROVE  AnswerInv'
<1>1. UNCHANGED <<worker, resumer, caller, row, harmed>>
  BY DEF Start, StartDispatch, hitlVars
<1>2. TypeOK /\ run \in RunRecord /\ acts \in 0..MaxActs
  BY DEF TaskInv, MatchInv, TypeOK
<1>4. CASE Start
  <2> DEFINE desired == Enqueued(acts + 1, Entry, <<>>, 0, {}, NoResume)
  <2>1. acts + 1 \in 0..MaxActs
    BY <1>2, <1>4, GraphAssumption, MakeActivationType DEF Start
  <2>2. NoResume \in Resumes /\ <<>> \in Seq(Nodes)
    BY LimitAssumption DEF NoResume, Resumes, Verdicts
  <2>3. desired \in RunRecord
    BY <2>1, <2>2, GraphAssumption, EnqueuedType
  <2>4. desired.susp = {} /\ desired.status = "pending" /\ desired.pending.act = acts + 1
    BY DEF Enqueued
  <2>5. run' = Saved(desired, {})
    BY <1>4 DEF Start
  <2> HIDE DEF desired
  <2>6. /\ run'.status = "pending" /\ run'.pending.act = acts + 1
        /\ run'.susp \in {{}, run.susp}
    BY <1>2, <2>3, <2>4, <2>5, SavedType
  <2>7. \A s \in run'.susp : Kept(s)
    BY <2>6 DEF Kept
  <2>8. ASSUME NEW r \in Resumers, resumer'[r].pc = "dispatch", NEW w \in Workers, Delivers(w)
        PROVE  worker[w].task # caller[r].task
    BY <1>1, <2>8 DEF AnswerInv, Awaited
  <2> QED BY <1>1, <2>6, <2>7, <2>8, RunPends
<1>5. CASE StartDispatch
  <2>1. run' = run
    BY <1>5 DEF StartDispatch
  <2> QED BY <1>1, <2>1, RunStands DEF AnswerInv, Delivers, Cared, OnItsWay
<1> QED BY <1>4, <1>5

\* A processor that dies or loses its lock, a refused dispatch.
LEMMA FaultAnswers ==
  ASSUME TaskInv, AnswerInv, EngineFaults
  PROVE  AnswerInv'
<1>1. /\ run' = run /\ UNCHANGED <<row, caller, harmed>>
      /\ worker \in [Workers -> WorkerRecord] /\ resumer \in [Resumers -> ResumerRecord]
  BY DEF EngineFaults, Stall, DispatchFails, hitlVars, TaskInv, MatchInv, TypeOK
<1>2. ASSUME NEW w \in Workers
      PROVE  /\ InHand(run, worker'[w])
             /\ worker'[w].state \in {CreatedRun, worker[w].state}
             /\ worker'[w].ending \in {CreatedRun, worker[w].ending}
             /\ worker'[w].pc = "suspendSave" => Delivers(w) /\ worker'[w].task = worker[w].task
  <2>1. InHand(run, worker[w]) /\ worker[w] \in WorkerRecord
    BY <1>1 DEF AnswerInv
  <2>2. CASE worker'[w] = worker[w]
    BY <2>1, <2>2 DEF Delivers
  <2>3. CASE worker'[w] = IdleWorker
    <3>1. IdleWorker.state = CreatedRun /\ IdleWorker.ending = CreatedRun /\ IdleWorker.pc = "idle"
      BY DEF IdleWorker
    <3> QED BY <2>3, <3>1, IdleInHand DEF EmptyHanded
  <2>4. CASE worker'[w] = [worker[w] EXCEPT !.lock = FALSE]
    BY <2>1, <2>4 DEF InHand, WorkerRecord, Delivers
  <2>5. CASE worker'[w] = [worker[w] EXCEPT !.pc = "terminate"] /\ worker[w].pc = "dispatch"
    BY <2>1, <2>5 DEF InHand, WorkerRecord, Executing
  <2>6. \/ worker'[w] = worker[w] \/ worker'[w] = IdleWorker
        \/ worker'[w] = [worker[w] EXCEPT !.lock = FALSE]
        \/ (worker'[w] = [worker[w] EXCEPT !.pc = "terminate"] /\ worker[w].pc = "dispatch")
    BY <1>1 DEF EngineFaults, Stall, DispatchFails, Becomes
  <2> QED BY <2>2, <2>3, <2>4, <2>5, <2>6
<1>3. ASSUME NEW r \in Resumers
      PROVE  \/ resumer'[r] = resumer[r]
             \/ resumer[r].pc = "dispatch" /\ resumer'[r] = [resumer[r] EXCEPT !.pc = "done"]
  BY <1>1 DEF EngineFaults, Stall, DispatchFails
<1>4. ASSUME NEW r \in Resumers
      PROVE  /\ resumer'[r].state = resumer[r].state
             /\ resumer'[r].pc = resumer[r].pc \/ (resumer[r].pc = "dispatch" /\ resumer'[r].pc = "done")
             /\ resumer'[r].task = resumer[r].task
  BY <1>1, <1>3 DEF ResumerRecord
<1>6. ASSUME NEW t \in Tasks, Awaited(t), Cared(t) PROVE Cared(t)'
  <2>1. ASSUME NEW r \in Resumers, caller[r].task = t, resumer[r].pc # "done"
        PROVE  resumer'[r].pc # "done"
    BY <1>4, <1>6, <2>1 DEF AnswerInv
  <2> QED BY <1>1, <1>6, <2>1 DEF Cared, OnItsWay
<1> QED BY <1>1, <1>2, <1>4, <1>6, RunStands

\* A step of resumeRun: it removes the wait that it answers, or what it met is booked.
LEMMA ResumeAnswers ==
  ASSUME TaskInv, AnswerInv, NEW r \in Resumers, ResumeGoesOn(r)
  PROVE  AnswerInv'
<1> DEFINE R == resumer[r]
<1>1. /\ TypeOK /\ run \in RunRecord /\ resumer \in [Resumers -> ResumerRecord]
      /\ R \in ResumerRecord /\ R.state \in RunRecord /\ R.verdict \in Verdicts
      /\ R.state.susp \in SUBSET Suspensions /\ R.state.count \in Nat
  <2>1. TypeOK /\ run \in RunRecord /\ resumer \in [Resumers -> ResumerRecord]
    BY DEF TaskInv, MatchInv, TypeOK
  <2>2. R \in ResumerRecord /\ R.state \in RunRecord /\ R.verdict \in Verdicts
    BY <2>1 DEF ResumerRecord
  <2> QED BY <2>1, <2>2 DEF RunRecord
<1>2. ResumeStep(r) /\ UNCHANGED <<worker, row, caller>>
  BY DEF ResumeGoesOn, ResumeStep, ResumeRefused, ResumeRejected, ResumeSave, ResumeDispatch
<1>3. \A q \in Resumers : CallerInCall(q)
  BY DEF TaskInv, TellInv
<1>4. CASE ResumeRefused(r) \/ ResumeRejected(r)
  <2> DEFINE rec == [IdleResumer EXCEPT !.pc = "done"]
  <2>1. R.pc = "loaded" /\ run' = run /\ resumer' = [resumer EXCEPT ![r] = rec]
    BY <1>4 DEF ResumeRefused, ResumeRejected
  <2>2. rec.pc = "done" /\ rec.state = CreatedRun
    BY DEF IdleResumer
  <2> HIDE DEF rec
  <2>3. resumer'[r] = rec /\ \A q \in Resumers : q # r => resumer'[q] = resumer[q]
    BY <1>1, <2>1
  <2>4. harmed' = harmed \cup {caller[r].task}
    BY <2>1, <2>2, <2>3 DEF ResumeGoesOn, Harm
  <2>6. \A t \in Tasks : Cared(t) => Cared(t)'
    BY <1>2, <2>3, <2>4 DEF Cared, OnItsWay
  <2> QED BY <1>2, <2>1, <2>2, <2>3, <2>6, RunStands DEF AnswerInv, Delivers
<1>5. CASE ResumeSave(r)
  <2> DEFINE remaining == R.state.susp \ Entries(r)
             resume == [act |-> acts + 1, verdict |-> R.verdict]
             keys == IF remaining = {} THEN {"resume"} ELSE {"resume", "susp"}
             rec == [IdleResumer EXCEPT !.pc = "dispatch", !.task = R.task, !.next = acts + 1]
  <2>1. PICK entry \in Entries(r) :
          /\ MakeActivation(entry.node)
          /\ run' = Saved(Enqueued(acts + 1, entry.node, <<>>, R.state.count, remaining, resume),
                          keys)
    BY <1>5 DEF ResumeSave
  <2>2. resumer' = [resumer EXCEPT ![r] = rec] /\ R.pc = "loaded"
    BY <1>5 DEF ResumeSave
  <2>3. entry \in R.state.susp /\ entry.task = R.task /\ entry \in Suspensions /\ entry.node \in Nodes
    BY <1>1, <2>1 DEF Entries, Suspensions
  <2>4. acts + 1 \in 0..MaxActs
    BY <1>1, <2>1, <2>3, MakeActivationType
  <2>5. remaining \in SUBSET Suspensions /\ resume \in Resumes /\ <<>> \in Seq(Nodes)
        /\ remaining \subseteq R.state.susp
    BY <1>1, <2>4 DEF Resumes
  <2>6. rec.pc = "dispatch" /\ rec.state = CreatedRun /\ rec.task = R.task
    BY DEF IdleResumer
  <2> HIDE DEF remaining, resume, keys, rec
  <2> DEFINE desired == Enqueued(acts + 1, entry.node, <<>>, R.state.count, remaining, resume)
  <2>7. desired \in RunRecord
    BY <1>1, <2>3, <2>4, <2>5, EnqueuedType
  <2>8. desired.susp = remaining /\ desired.status = "pending" /\ desired.pending.act = acts + 1
    BY DEF Enqueued
  <2> HIDE DEF desired
  <2>9. /\ run'.status = "pending" /\ run'.pending.act = acts + 1
        /\ run'.susp \in {remaining, run.susp}
    BY <1>1, <2>1, <2>7, <2>8, SavedType DEF desired
  <2>10. \A s \in run'.susp : Kept(s)
    BY <2>5, <2>9 DEF Kept
  <2>11. resumer'[r] = rec /\ \A q \in Resumers : q # r => resumer'[q] = resumer[q]
    BY <1>1, <2>2
  <2>12. harmed' = harmed
    BY <2>2, <2>6, <2>11 DEF ResumeGoesOn
  <2>14. ASSUME NEW q \in Resumers, resumer'[q].pc = "dispatch", NEW w \in Workers, Delivers(w)
         PROVE  worker[w].task # caller[q].task
    <3>1. CASE q = r
      <4>1. Kept(entry)
        BY <2>3 DEF Kept
      <4>2. entry.task # worker[w].task
        BY <2>3, <2>14, <4>1 DEF AnswerInv
      <4>3. R.task = caller[r].task
        BY <1>3, <2>2 DEF CallerInCall
      <4> QED BY <2>3, <3>1, <4>2, <4>3
    <3>2. CASE q # r
      BY <2>11, <2>14, <3>2 DEF AnswerInv, Awaited
    <3> QED BY <3>1, <3>2
  <2> QED BY <1>2, <2>2, <2>6, <2>9, <2>10, <2>11, <2>12, <2>14, RunPends
<1>6. CASE ResumeDispatch(r)
  <2>1. R.pc = "dispatch" /\ run' = run /\ resumer' = [resumer EXCEPT ![r].pc = "done"]
    BY <1>6 DEF ResumeDispatch
  <2>2. /\ resumer'[r].pc = "done" /\ resumer'[r].state = R.state /\ resumer'[r].task = R.task
        /\ \A q \in Resumers : q # r => resumer'[q] = resumer[q]
    BY <1>1, <2>1 DEF ResumerRecord
  <2>3. harmed' = harmed
    BY <2>1 DEF ResumeGoesOn
  <2>5. ASSUME NEW t \in Tasks, Awaited(t), Cared(t) PROVE Cared(t)'
    <3>1. caller[r].task # t
      BY <2>1, <2>5 DEF AnswerInv
    <3> QED BY <1>2, <2>2, <2>3, <2>5, <3>1 DEF Cared, OnItsWay
  <2> QED BY <1>2, <2>1, <2>2, <2>5, RunStands DEF AnswerInv, Delivers
<1> QED BY <1>2, <1>4, <1>5, <1>6 DEF ResumeStep

\* Rows, jobs and callers: the run, its processors and its copies stand still.
LEMMA CallerAnswers ==
  ASSUME TaskInv, AnswerInv, UNCHANGED <<run, worker>>,
         \A r \in Resumers :
           /\ resumer'[r] = resumer[r] \/ (resumer'[r].state \in {CreatedRun, run}
                                            /\ resumer'[r].pc # "dispatch")
           /\ resumer'[r].pc = "dispatch" => caller'[r].task = caller[r].task,
         \A t \in Tasks : Cared(t) => Cared(t)'
  PROVE  AnswerInv'
<1>1. \A w \in Workers : InHand(run, worker[w])
  BY DEF AnswerInv
<1> QED BY <1>1, RunStands DEF Delivers

\* The row and the timeout job of a task that is being delivered: it is not resolved yet.
LEMMA RowAnswers ==
  ASSUME TaskInv, AnswerInv, NEW w \in Workers, CreateRow(w) \/ EnqueueTimeout(w)
  PROVE  AnswerInv'
<1> DEFINE t == worker[w].task
<1>1. /\ UNCHANGED <<run, worker, resumer, caller, harmed>> /\ row \in [Tasks -> RowRecord]
      /\ Delivers(w)
  BY DEF CreateRow, EnqueueTimeout, vars, TaskInv, TaskTypeOK, Delivers
<1>2. t \in Tasks
  BY <1>1 DEF TaskInv, TellInv, TasksApart
<1>3. \A u \in Tasks : row'[u] = row[u] \/ row'[u].status = "pending"
  BY <1>1, <1>2 DEF CreateRow, EnqueueTimeout
<1>4. \A u \in Tasks : Cared(u) => Cared(u)'
  BY <1>1, <1>3 DEF Cared, OnItsWay, Resolved
<1> QED BY <1>1, <1>4, CallerAnswers

\* A caller begins: no other caller is touched, and it was on its way for nobody.
LEMMA BeginAnswers ==
  ASSUME TaskInv, AnswerInv, NEW r \in Resumers, NEW t \in Tasks,
         \/ \E verdict \in Verdicts : PersonReads(r, t, verdict)
         \/ PlaneReads(r, t) \/ TimerFires(r, t)
  PROVE  AnswerInv'
<1>1. /\ UNCHANGED <<run, worker, resumer, row, harmed>> /\ caller[r].pc = "idle"
      /\ caller \in [Resumers -> CallerRecord]
  BY DEF PersonReads, PlaneReads, TimerFires, vars, TaskInv, TaskTypeOK
<1>2. /\ caller'[r].pc \in {"read", "mark"}
      /\ \A q \in Resumers : q # r => caller'[q] = caller[q]
  BY <1>1 DEF PersonReads, PlaneReads, TimerFires
<1>3. resumer[r].pc = "idle" /\ \A q \in Resumers : CallerInCall(q)
  BY <1>1 DEF TaskInv, TellInv, CallerInCall
<1>5. \A u \in Tasks : Cared(u) => Cared(u)'
  BY <1>1, <1>2 DEF Cared, OnItsWay
<1> QED BY <1>1, <1>2, <1>3, <1>5, CallerAnswers

\* A caller goes on: it is still on its way, or the accident is booked.
LEMMA CallerStepAnswers ==
  ASSUME TaskInv, AnswerInv, NEW r \in Resumers,
         CallerStep(r) \/ CallerThrows(r) \/ CallerCrashes(r)
  PROVE  AnswerInv'
<1> DEFINE t == caller[r].task
<1>1. /\ caller \in [Resumers -> CallerRecord] /\ resumer \in [Resumers -> ResumerRecord]
      /\ row \in [Tasks -> RowRecord]
  BY DEF TaskInv, TaskTypeOK, MatchInv, TypeOK
<1>2. \A q \in Resumers : CallerInCall(q)
  BY DEF TaskInv, TellInv
<1>3. ASSUME NEW pc, CallerAt(r, pc)
      PROVE  /\ caller'[r].pc = pc /\ caller'[r].task = t
             /\ \A q \in Resumers : q # r => caller'[q] = caller[q]
  BY <1>1, <1>3 DEF CallerAt, CallerRecord
<1>4. CASE TimerReads(r)
  <2>1. /\ UNCHANGED <<run, worker, resumer, row, harmed>> /\ caller[r].pc = "read"
        /\ \E pc \in {"mark", "done"} : CallerAt(r, pc)
    BY <1>4 DEF TimerReads, vars
  <2>2. /\ caller'[r].pc \in {"mark", "done"} /\ caller'[r].task = t
        /\ \A q \in Resumers : q # r => caller'[q] = caller[q]
    BY <1>3, <2>1
  <2>4. \A u \in Tasks : Cared(u) => Cared(u)'
    BY <2>1, <2>2 DEF Cared, OnItsWay
  <2> QED BY <2>1, <2>2, <2>4, CallerAnswers
<1>5. CASE Mark(r)
  <2>1. /\ UNCHANGED <<run, worker, resumer>> /\ caller[r].pc = "mark"
        /\ \/ \E pc \in {"cancel", "call"} : CallerAt(r, pc) /\ harmed' = harmed
           \/ CallerAt(r, "done") /\ harmed' = harmed \cup {t}
    BY <1>1, <1>5 DEF Mark, vars, Harm, CallerRecord
  <2>2. /\ \/ caller'[r].pc \in {"cancel", "call"} /\ harmed' = harmed
           \/ caller'[r].pc = "done" /\ harmed' = harmed \cup {t}
        /\ caller'[r].task = t /\ \A q \in Resumers : q # r => caller'[q] = caller[q]
    BY <1>3, <2>1
  <2>3. resumer[r].pc = "idle"
    BY <1>2, <2>1 DEF CallerInCall
  <2>4. \A u \in Tasks : u # t => row'[u] = row[u]
    BY <1>1, <1>5 DEF Mark
  <2>6. \A u \in Tasks : Cared(u) => Cared(u)'
    BY <2>1, <2>2, <2>3, <2>4 DEF Cared, OnItsWay
  <2> QED BY <2>1, <2>2, <2>6, CallerAnswers
<1>6. CASE CancelTimer(r)
  <2>1. /\ UNCHANGED <<run, worker, resumer, row>> /\ caller[r].pc = "cancel"
        /\ \/ CallerAt(r, "call") /\ harmed' = harmed
           \/ CallerAt(r, "done") /\ harmed' = harmed \cup {t}
    BY <1>6 DEF CancelTimer, vars, Harm
  <2>2. /\ \/ caller'[r].pc = "call" /\ harmed' = harmed
           \/ caller'[r].pc = "done" /\ harmed' = harmed \cup {t}
        /\ caller'[r].task = t /\ \A q \in Resumers : q # r => caller'[q] = caller[q]
    BY <1>3, <2>1
  <2>3. resumer[r].pc = "idle"
    BY <1>2, <2>1 DEF CallerInCall
  <2>5. \A u \in Tasks : Cared(u) => Cared(u)'
    BY <2>1, <2>2, <2>3 DEF Cared, OnItsWay
  <2> QED BY <2>1, <2>2, <2>5, CallerAnswers
<1>7. CASE CallResume(r)
  <2> DEFINE rec == [IdleResumer EXCEPT !.pc = "loaded", !.task = t, !.verdict = caller[r].verdict,
                                        !.state = run]
  <2>1. /\ UNCHANGED <<run, worker, row, harmed>> /\ caller[r].pc = "call" /\ CallerAt(r, "wait")
        /\ resumer' = [resumer EXCEPT ![r] = rec]
    BY <1>7 DEF CallResume, ResumeCall
  <2>2. rec.pc = "loaded" /\ rec.task = t /\ rec.state = run
    BY DEF IdleResumer
  <2> HIDE DEF rec
  <2>3. /\ caller'[r].pc = "wait" /\ caller'[r].task = t
        /\ \A q \in Resumers : q # r => caller'[q] = caller[q]
        /\ resumer'[r] = rec /\ \A q \in Resumers : q # r => resumer'[q] = resumer[q]
    BY <1>1, <1>3, <2>1
  <2>5. \A u \in Tasks : Cared(u) => Cared(u)'
    BY <2>1, <2>2, <2>3 DEF Cared, OnItsWay
  <2> QED BY <2>1, <2>2, <2>3, <2>5, CallerAnswers
<1>8. CASE TimerReturns(r)
  <2>1. /\ UNCHANGED <<run, worker, resumer, row, harmed>> /\ resumer[r].pc = "done"
        /\ CallerAt(r, "done")
    BY <1>8 DEF TimerReturns, vars
  <2>2. /\ caller'[r].pc = "done" /\ caller'[r].task = t
        /\ \A q \in Resumers : q # r => caller'[q] = caller[q]
    BY <1>3, <2>1
  <2>4. \A u \in Tasks : Cared(u) => Cared(u)'
    BY <2>1, <2>2 DEF Cared, OnItsWay
  <2> QED BY <2>1, <2>2, <2>4, CallerAnswers
<1>9. CASE CallerThrows(r) \/ CallerCrashes(r)
  <2>1. /\ UNCHANGED <<run, worker, row>> /\ CallerAt(r, "done") /\ Abandons(r)
        /\ \/ resumer' = resumer
           \/ resumer' = [resumer EXCEPT ![r].pc = "done", ![r].state = CreatedRun]
    BY <1>9 DEF CallerThrows, CallerCrashes, vars
  <2>2. /\ caller'[r].pc = "done" /\ caller'[r].task = t
        /\ \A q \in Resumers : q # r => caller'[q] = caller[q]
    BY <1>3, <2>1
  <2>3. /\ \A q \in Resumers : q # r => resumer'[q] = resumer[q]
        /\ \/ resumer'[r] = resumer[r]
           \/ resumer'[r].pc = "done" /\ resumer'[r].state = CreatedRun
    BY <1>1, <2>1 DEF ResumerRecord
  <2>4. IF caller[r].pc \in {"cancel", "call", "wait"} THEN harmed' = harmed \cup {t}
                                                     ELSE harmed' = harmed
    BY <2>1 DEF Abandons, Harm
  <2>5. \A u \in Tasks : Cared(u) => Cared(u)'
    <3> SUFFICES ASSUME NEW u \in Tasks, Cared(u), row[u].status \in Resolved
                 PROVE  OnItsWay(u)' \/ u \in harmed'
      BY <2>1 DEF Cared
    <3>1. CASE u \in harmed
      BY <2>4, <3>1
    <3>2. CASE OnItsWay(u)
      <4>1. PICK q \in Resumers : /\ caller[q].task = u /\ resumer[q].pc # "done"
                                 /\ caller[q].pc \in {"cancel", "call", "wait"}
        BY <3>2 DEF OnItsWay
      <4>2. CASE q = r
        BY <2>4, <4>1, <4>2
      <4>3. CASE q # r
        BY <2>2, <2>3, <4>1, <4>3 DEF OnItsWay
      <4> QED BY <4>2, <4>3
    <3> QED BY <3>1, <3>2 DEF Cared
  <2> QED BY <2>1, <2>2, <2>3, <2>5, CallerAnswers
<1> QED BY <1>4, <1>5, <1>6, <1>7, <1>8, <1>9, ResumeAnswers DEF CallerStep

\* A timeout job that stalls moves no caller, even when its processor goes on without the lock.
LEMMA StallAnswers ==
  ASSUME TaskInv, AnswerInv, NEW t \in Tasks, TimerStalls(t)
  PROVE  AnswerInv'
<1>1. UNCHANGED <<run, worker, resumer, row, caller, harmed>>
  BY DEF TimerStalls
<1>2. \A u \in Tasks : Cared(u) => Cared(u)'
  BY <1>1 DEF Cared, OnItsWay
<1> QED BY <1>1, <1>2, CallerAnswers

\* The invariant holds at first, and every step of the engine and of the callers keeps it.
LEMMA AnswerInvariant ==
  ASSUME OneHandler
  PROVE  /\ TaskInit => AnswerInv
         /\ TaskInv /\ AnswerInv /\ [TaskNext]_taskVars => AnswerInv'
<1>1. ASSUME TaskInit PROVE AnswerInv
  <2>1. /\ run = CreatedRun /\ worker = [w \in Workers |-> IdleWorker]
        /\ resumer = [r \in Resumers |-> IdleResumer] /\ row = [t \in Tasks |-> NoRow]
        /\ caller = [r \in Resumers |-> IdleCaller]
    BY <1>1 DEF TaskInit, Init
  <2>2. /\ CreatedRun.status = "running" /\ IdleWorker.pc = "idle" /\ IdleWorker.state = CreatedRun
        /\ IdleResumer.pc = "idle" /\ NoRow.status = "none" /\ IdleCaller.pc = "idle"
    BY DEF CreatedRun, IdleWorker, IdleResumer, NoRow, IdleCaller
  <2>3. \A w \in Workers : InHand(run, worker[w]) /\ ~Delivers(w)
    BY <2>1, <2>2, IdleInHand DEF EmptyHanded, Delivers
  <2>4. NotAsked(run) /\ \A w \in Workers : NotAsked(worker[w].state)
    BY <2>1, <2>2 DEF NotAsked
  <2>5. \A r \in Resumers : resumer[r].pc # "dispatch"
    BY <2>1, <2>2
  <2>6. \A t \in Tasks : Cared(t)
    BY <2>1, <2>2 DEF Cared, Resolved
  <2> QED BY <2>3, <2>4, <2>5, <2>6 DEF AnswerInv
<1>2. ASSUME TaskInv, AnswerInv, [TaskNext]_taskVars PROVE AnswerInv'
  <2>1. CASE TaskAction
    <3>1. CASE (Start \/ StartDispatch) /\ UNCHANGED hitlVars
      BY <1>2, <3>1, StartAnswers
    <3>2. CASE \E w \in Workers : WorkerGoesOn(w) \/ CreateRow(w) \/ EnqueueTimeout(w)
      BY <1>2, <3>2, WorkerAnswers, RowAnswers
    <3>3. ASSUME NEW r \in Resumers, NEW t \in Tasks,
                 \/ \E verdict \in Verdicts : PersonReads(r, t, verdict)
                 \/ PlaneReads(r, t) \/ TimerFires(r, t)
          PROVE  AnswerInv'
      BY <1>2, <3>3, BeginAnswers
    <3>4. ASSUME NEW r \in Resumers, CallerStep(r) \/ CallerThrows(r) \/ CallerCrashes(r)
          PROVE  AnswerInv'
      BY <1>2, <3>4, CallerStepAnswers
    <3>5. ASSUME NEW t \in Tasks, TimerStalls(t) PROVE AnswerInv'
      BY <1>2, <3>5, StallAnswers
    <3>6. CASE EngineFaults
      BY <1>2, <3>6, FaultAnswers
    <3> QED BY <2>1, <3>1, <3>2, <3>3, <3>4, <3>5, <3>6 DEF TaskAction
  <2>2. CASE UNCHANGED taskVars
    <3>1. UNCHANGED <<run, worker, resumer, caller, row, harmed>>
      BY <2>2 DEF taskVars, vars, hitlVars
    <3>2. \A t \in Tasks : Cared(t) => Cared(t)'
      BY <3>1 DEF Cared, OnItsWay
    <3> QED BY <1>2, <3>1, <3>2, CallerAnswers
  <2> QED BY <1>2, <2>1, <2>2 DEF TaskNext
<1> QED BY <1>1, <1>2

\* With one processor that executes a node once per request, a run waits for a task that is
\* resolved already only while the caller that resolved it - DecideHumanTaskCommandHandler,
\* HitlTimeoutWorker or the callback of the control plane - is on its way to resumeRun, or after
\* an accident that Harm lists.  Nothing the engine saves brings back a wait that resumeRun took
\* out of the record: a second processor that lost its lock can, and so can a second attempt
\* after the suspension was saved, hence the hypothesis OneHandler.
THEOREM AnswersAreNotStranded == OneHandler /\ TaskSpec => []NoAnswerStranded
<1>1. TaskInv /\ AnswerInv => NoAnswerStranded
  <2> SUFFICES ASSUME TaskInv, AnswerInv, NEW t \in Waiting, row[t].status \in Resolved
               PROVE  OnItsWay(t) \/ t \in harmed
    BY DEF NoAnswerStranded
  <2>1. Awaited(t)
    BY DEF Awaited
  <2> QED BY <2>1, AwaitedKnown DEF AnswerInv, Cared
<1>2. OneHandler /\ TaskInit => TaskInv /\ AnswerInv
  BY TaskInvariant, AnswerInvariant
<1>3. OneHandler /\ TaskInv /\ AnswerInv /\ [TaskNext]_taskVars => TaskInv' /\ AnswerInv'
  BY TaskInvariant, AnswerInvariant
<1>4. OneHandler => OneHandler'
  BY DEF OneHandler
<1> QED BY <1>1, <1>2, <1>3, <1>4, PTL DEF TaskSpec
=============================================================================
