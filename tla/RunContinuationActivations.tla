---------------------- MODULE RunContinuationActivations ----------------------
(***************************************************************************)
(* An activation id never meets another node than the one its request was  *)
(* made for, for every value of the constants: any workflow, approvals,    *)
(* decisions, processors, both repositories and every fault.  Stale saves  *)
(* merge whole records, so a pending activation is never paired with       *)
(* another record's node.                                                  *)
(***************************************************************************)
EXTENDS RunContinuationProof

\* MadeFor, with the number of ids and the nodes of their requests as parameters: a step
\* that makes an id relates the two pairs.
Made(n, f, act, node) == act # 0 => act <= n /\ f[act] = node

RecordMade(n, f, r) == /\ Made(n, f, r.pending.act, r.pending.node)
                       /\ \A s \in r.susp : Made(n, f, s.act, s.node)

\* A handler and the records it holds; it forgets the node before it acknowledges its job.
WorkerMade(n, f, rec) ==
  /\ rec.act <= n /\ rec.next <= n
  /\ rec.pc # "ack" => Made(n, f, rec.act, rec.node)
  /\ Made(n, f, rec.sched.pending.act, rec.sched.pending.node)
  /\ RecordMade(n, f, rec.state) /\ RecordMade(n, f, rec.ending)

ResumerMade(n, f, rec) == rec.next <= n /\ RecordMade(n, f, rec.state)

JobsMade(j, n) == \A a \in Acts : j[a] # "none" => a <= n

MatchInv ==
  /\ TypeOK
  /\ RecordMade(acts, nodeOf, run)
  /\ JobsMade(jobs, acts)
  /\ \A w \in Workers : WorkerMade(acts, nodeOf, worker[w])
  /\ \A r \in Resumers : ResumerMade(acts, nodeOf, resumer[r])
  /\ starter = "dispatch" => 1 <= acts

\* A step makes one activation or none.
Grow == UNCHANGED <<acts, nodeOf>> \/ \E node \in Nodes : MakeActivation(node)

\* The record a run is created with names no activation.
LEMMA CreatedRunMade == \A n, f : RecordMade(n, f, CreatedRun)
BY DEF RecordMade, Made, CreatedRun, NoPending

\* The new id is paired with its node.
LEMMA NewMade ==
  ASSUME TypeOK, NEW node \in Nodes, MakeActivation(node)
  PROVE  Made(acts', nodeOf', acts + 1, node) /\ acts + 1 <= acts'
<1>1. acts + 1 \in Acts
  BY LimitAssumption DEF MakeActivation, TypeOK, Acts
<1> QED BY <1>1 DEF MakeActivation, TypeOK, Made

\* Making an id disturbs no pair.
LEMMA GrowMade ==
  ASSUME TypeOK, Grow
  PROVE  /\ acts <= acts'
         /\ \A act \in 0..MaxActs : \A node :
              Made(acts, nodeOf, act, node) => Made(acts', nodeOf', act, node)
<1>1. CASE UNCHANGED <<acts, nodeOf>>
  BY <1>1 DEF Made, TypeOK
<1>2. ASSUME NEW node \in Nodes, MakeActivation(node)
      PROVE  /\ acts <= acts'
             /\ \A act \in 0..MaxActs : \A m : Made(acts, nodeOf, act, m) => Made(acts', nodeOf', act, m)
  <2>1. acts \in Nat /\ acts' = acts + 1
    BY <1>2 DEF MakeActivation, TypeOK
  <2>2. ASSUME NEW act \in 0..MaxActs, NEW m, act # 0, act <= acts, nodeOf[act] = m
        PROVE  act <= acts' /\ nodeOf'[act] = m
    <3>1. act \in Acts /\ act # acts + 1
      BY <2>1, <2>2, LimitAssumption DEF Acts
    <3> QED BY <1>2, <2>1, <2>2, <3>1 DEF MakeActivation, TypeOK
  <2> QED BY <2>1, <2>2 DEF Made
<1> QED BY <1>1, <1>2 DEF Grow

\* ... in a run record,
LEMMA GrowRecord ==
  ASSUME TypeOK, Grow, NEW r \in RunRecord, RecordMade(acts, nodeOf, r)
  PROVE  RecordMade(acts', nodeOf', r)
<1>1. r.pending.act \in 0..MaxActs /\ \A s \in r.susp : s.act \in 0..MaxActs
  BY DEF RunRecord, Pendings, Suspensions
<1> QED BY <1>1, GrowMade DEF RecordMade

\* in a handler,
LEMMA GrowWorker ==
  ASSUME TypeOK, Grow, NEW rec \in WorkerRecord, WorkerMade(acts, nodeOf, rec)
  PROVE  WorkerMade(acts', nodeOf', rec)
<1>1. /\ rec.act \in 0..MaxActs /\ rec.next \in 0..MaxActs /\ rec.sched.pending.act \in 0..MaxActs
      /\ rec.state \in RunRecord /\ rec.ending \in RunRecord
  BY DEF WorkerRecord, SchedulingState, Pendings
<1>2. acts \in Nat /\ acts' \in Nat
  BY DEF TypeOK, Grow, MakeActivation
<1>3. RecordMade(acts', nodeOf', rec.state) /\ RecordMade(acts', nodeOf', rec.ending)
  BY <1>1, GrowRecord DEF WorkerMade
<1>4. rec.act <= acts' /\ rec.next <= acts'
  BY <1>1, <1>2, GrowMade DEF WorkerMade
<1> QED BY <1>1, <1>3, <1>4, GrowMade DEF WorkerMade

\* in a call of resumeRun, and in the queue.
LEMMA GrowRest ==
  ASSUME TypeOK, Grow
  PROVE  /\ \A rec \in ResumerRecord :
              ResumerMade(acts, nodeOf, rec) => ResumerMade(acts', nodeOf', rec)
         /\ JobsMade(jobs, acts) => JobsMade(jobs, acts')
<1>1. acts \in Nat /\ acts' \in Nat /\ acts <= acts'
  BY GrowMade DEF TypeOK, Grow, MakeActivation
<1>2. ASSUME NEW rec \in ResumerRecord, ResumerMade(acts, nodeOf, rec)
      PROVE  ResumerMade(acts', nodeOf', rec)
  <2>1. rec.next \in 0..MaxActs /\ rec.state \in RunRecord
    BY DEF ResumerRecord
  <2>2. RecordMade(acts', nodeOf', rec.state)
    BY <1>2, <2>1, GrowRecord DEF ResumerMade
  <2>3. rec.next <= acts'
    BY <1>1, <1>2, <2>1 DEF ResumerMade
  <2> QED BY <2>2, <2>3 DEF ResumerMade
<1>3. ASSUME JobsMade(jobs, acts) PROVE JobsMade(jobs, acts')
  BY <1>1, <1>3, LimitAssumption DEF JobsMade, Acts
<1> QED BY <1>2, <1>3

\* A save stores pairs of the writer and of the stored record only.
LEMMA SavedMade ==
  ASSUME run \in RunRecord, NEW desired \in RunRecord, NEW keys, NEW n, NEW f,
         RecordMade(n, f, run), RecordMade(n, f, desired)
  PROVE  RecordMade(n, f, Saved(desired, keys))
BY SavedType DEF RecordMade

\* The record a run ends with names no pending activation.
LEMMA MergeTerminalMade ==
  ASSUME NEW state \in RunRecord, NEW n, NEW f, RecordMade(n, f, state), NEW status, NEW queue,
         NEW count
  PROVE  RecordMade(n, f, MergeTerminal(state, status, queue, count))
<1>1. /\ MergeTerminal(state, status, queue, count).pending = NoPending
      /\ MergeTerminal(state, status, queue, count).susp = state.susp
  BY DEF MergeTerminal, RunRecord
<1> QED BY <1>1 DEF RecordMade, Made, NoPending

\* The literal an enqueue saves names the new activation.
LEMMA EnqueuedMade ==
  ASSUME NEW n, NEW f, NEW act, NEW node, NEW queue, NEW count, NEW susp, NEW resume,
         Made(n, f, act, node), \A s \in susp : Made(n, f, s.act, s.node)
  PROVE  RecordMade(n, f, Enqueued(act, node, queue, count, susp, resume))
BY DEF RecordMade, Enqueued

\* The record of a processor without a job, with a new job, and with a finished one.
LEMMA IdleMade ==
  ASSUME NEW n \in Nat, NEW f
  PROVE  /\ WorkerMade(n, f, IdleWorker)
         /\ \A act \in 0..n : \A lock :
              WorkerMade(n, f, [IdleWorker EXCEPT !.pc = "ack", !.act = act, !.lock = lock])
         /\ \A act \in 0..n : \A node : Made(n, f, act, node) =>
              WorkerMade(n, f, [IdleWorker EXCEPT !.pc = "handle", !.act = act, !.node = node,
                                                  !.lock = TRUE, !.attempt = 1])
<1>1. RecordMade(n, f, CreatedRun) /\ Made(n, f, Sched(CreatedRun).pending.act, Sched(CreatedRun).pending.node)
  BY CreatedRunMade DEF RecordMade, Sched
<1>2. WorkerMade(n, f, IdleWorker)
  BY <1>1 DEF WorkerMade, IdleWorker, Made
<1>3. \A act \in 0..n : \A lock :
        WorkerMade(n, f, [IdleWorker EXCEPT !.pc = "ack", !.act = act, !.lock = lock])
  BY <1>1 DEF WorkerMade, IdleWorker
<1>4. \A act \in 0..n : \A node : Made(n, f, act, node) =>
        WorkerMade(n, f, [IdleWorker EXCEPT !.pc = "handle", !.act = act, !.node = node,
                                            !.lock = TRUE, !.attempt = 1])
  BY <1>1 DEF WorkerMade, IdleWorker
<1> QED BY <1>2, <1>3, <1>4

\* A handler that goes on keeps its activation and its node.
LEMMA GotoMade ==
  ASSUME TypeOK, NEW w \in Workers, worker[w].pc # "ack", NEW n \in Nat, NEW f,
         WorkerMade(n, f, worker[w]), NEW pc \in WorkerPc
  PROVE  /\ WorkerMade(n, f, Goto(w, pc))
         /\ \A ctx : WorkerMade(n, f, [Goto(w, pc) EXCEPT !.ctx = ctx])
         /\ \A out : WorkerMade(n, f, [Goto(w, pc) EXCEPT !.out = out])
         /\ WorkerMade(n, f, [Goto(w, pc) EXCEPT !.attempt = @ + 1])
         /\ WorkerMade(n, f, [Goto(w, pc) EXCEPT !.reported = TRUE])
         /\ WorkerMade(n, f, [Goto(w, pc) EXCEPT !.attempt = @ + 1, !.task = 0])
         /\ \A next \in 0..n : \A keys, ending : RecordMade(n, f, ending) =>
              WorkerMade(n, f, [Goto(w, pc) EXCEPT !.next = next, !.ending = ending, !.keys = keys])
         /\ \A out, keys, ending : RecordMade(n, f, ending) =>
              WorkerMade(n, f, [Goto(w, pc) EXCEPT !.out = out, !.recovering = TRUE,
                                                   !.ending = ending, !.keys = keys])
<1> DEFINE G == Goto(w, pc)
<1>1. /\ G.pc = pc /\ G.act = worker[w].act /\ G.node = worker[w].node /\ G.next = worker[w].next
      /\ G.state = CreatedRun /\ G.sched = Sched(CreatedRun) /\ G.ending = worker[w].ending
  BY DEF TypeOK, WorkerRecord, Goto
<1>2. G \in WorkerRecord
  BY GotoType DEF TypeOK
<1>3. RecordMade(n, f, CreatedRun) /\ Made(n, f, Sched(CreatedRun).pending.act, Sched(CreatedRun).pending.node)
  BY CreatedRunMade DEF RecordMade, Sched
<1>4. /\ G.act <= n /\ G.next <= n /\ Made(n, f, G.act, G.node)
      /\ Made(n, f, G.sched.pending.act, G.sched.pending.node)
      /\ RecordMade(n, f, G.state) /\ RecordMade(n, f, G.ending)
  BY <1>1, <1>3 DEF WorkerMade
<1> HIDE DEF G
<1> QED BY <1>2, <1>4 DEF WorkerMade, WorkerRecord, G

\* A step of a processor that leaves pairs made earlier or by the step keeps the invariant.
LEMMA WorkerFrame ==
  ASSUME MatchInv, TypeOK', Grow, NEW w \in Workers, NEW rec,
         worker' = [worker EXCEPT ![w] = rec], WorkerMade(acts', nodeOf', rec),
         RecordMade(acts', nodeOf', run'), JobsMade(jobs', acts'), UNCHANGED <<resumer, starter>>
  PROVE  MatchInv'
<1>1. TypeOK /\ worker \in [Workers -> WorkerRecord] /\ resumer \in [Resumers -> ResumerRecord]
  BY DEF MatchInv, TypeOK
<1>2. \A v \in Workers : WorkerMade(acts', nodeOf', worker'[v])
  <2>1. ASSUME NEW v \in Workers, v # w PROVE WorkerMade(acts', nodeOf', worker'[v])
    BY <1>1, <2>1, GrowWorker DEF MatchInv
  <2> QED BY <1>1, <2>1
<1>3. \A r \in Resumers : ResumerMade(acts', nodeOf', resumer'[r])
  BY <1>1, GrowRest DEF MatchInv
<1>4. starter' = "dispatch" => 1 <= acts'
  BY <1>1, GrowMade DEF MatchInv, TypeOK, Grow, MakeActivation
<1> QED BY <1>2, <1>3, <1>4 DEF MatchInv

\* Every step of a processor keeps the invariant: what it saves it read or prepared, and the
\* only new pair is that of the activation it makes.
LEMMA WorkerStepMade ==
  ASSUME MatchInv, NEW w \in Workers, WorkerStep(w)
  PROVE  MatchInv'
<1> DEFINE W == worker[w]
           Kept(r) == RecordMade(acts, nodeOf, r)
<1>1. TypeOK /\ TypeOK'
  BY WorkerStepType DEF MatchInv
<1>2. /\ worker \in [Workers -> WorkerRecord] /\ run \in RunRecord /\ acts \in Nat
      /\ W \in WorkerRecord /\ W.state \in RunRecord /\ W.ending \in RunRecord
      /\ W.sched.queue \in Seq(Nodes) /\ W.state.count \in Nat /\ W.act \in 0..MaxActs
      /\ W.next \in 0..MaxActs /\ W.lock \in BOOLEAN
  <2>1. worker \in [Workers -> WorkerRecord] /\ run \in RunRecord /\ acts \in Nat
    BY <1>1 DEF TypeOK
  <2>2. /\ W.state \in RunRecord /\ W.ending \in RunRecord /\ W.sched \in SchedulingState
        /\ W.act \in 0..MaxActs /\ W.next \in 0..MaxActs /\ W.lock \in BOOLEAN
    BY <2>1 DEF WorkerRecord
  <2> QED BY <2>1, <2>2 DEF SchedulingState, RunRecord
<1>3. /\ WorkerMade(acts, nodeOf, W) /\ Kept(W.state) /\ Kept(W.ending) /\ Kept(run)
      /\ W.act \in 0..acts /\ W.next <= acts /\ JobsMade(jobs, acts)
  BY <1>2 DEF MatchInv, WorkerMade
<1> HIDE DEF Kept
<1>4. ASSUME NEW rec, Becomes(w, rec), WorkerMade(acts, nodeOf, rec), Kept(run'),
             JobsMade(jobs', acts), UNCHANGED <<resumer, starter, acts, nodeOf>>
      PROVE  MatchInv'
  BY <1>1, <1>4, WorkerFrame DEF Becomes, Grow, Kept
<1>5. ASSUME Return(w), Kept(run'), JobsMade(jobs', acts),
             UNCHANGED <<resumer, starter, acts, nodeOf>>
      PROVE  MatchInv'
  BY <1>2, <1>3, <1>4, <1>5, IdleMade DEF Return
<1>6. ASSUME NEW pc \in WorkerPc, W.pc # "ack", Becomes(w, Goto(w, pc)), Kept(run'),
             UNCHANGED <<jobs, resumer, starter, acts, nodeOf>>
      PROVE  MatchInv'
  BY <1>1, <1>2, <1>3, <1>4, <1>6, GotoMade
<1>7. {"mark", "clear", "exec", "error", "result", "failSave", "dispatch", "suspend",
       "suspendSave"} \subseteq WorkerPc
  BY DEF WorkerPc
<1>8. ASSUME UNCHANGED <<run, jobs>> PROVE Kept(run') /\ JobsMade(jobs', acts)
  BY <1>3, <1>8
<1>9. ASSUME NEW r \in RunRecord, Kept(r), NEW keys, run' = Saved(r, keys) PROVE Kept(run')
  BY <1>2, <1>3, <1>9, SavedMade DEF Kept
<1>10. ASSUME NEW status \in Terminal, NEW queue \in Seq(Nodes), NEW count \in Nat,
              EndRun(w, W.state, status, queue, count)
       PROVE  MatchInv'
  <2>1. MergeTerminal(W.state, status, queue, count) \in RunRecord
    BY <1>2, <1>10, MergeTerminalType
  <2>2. Kept(MergeTerminal(W.state, status, queue, count))
    BY <1>2, <1>3, MergeTerminalMade DEF Kept
  <2>3. Kept(run')
    BY <1>9, <1>10, <2>1, <2>2 DEF EndRun
  <2> QED BY <1>3, <1>5, <1>10, <2>3 DEF EndRun
<1>11. {"completed", "failed", "halted"} \subseteq Terminal /\ <<>> \in Seq(Nodes)
  BY DEF Terminal
<1>12. ASSUME NEW a \in Acts, Receive(w, a) PROVE MatchInv'
  <2>1. a \in 0..acts /\ a # 0 /\ Made(acts, nodeOf, a, nodeOf[a])
    BY <1>2, <1>3, <1>12, LimitAssumption DEF Receive, JobsMade, Made, Acts
  <2>2. JobsMade(jobs', acts)
    BY <1>1, <1>3, <1>12 DEF Receive, JobsMade, TypeOK
  <2> QED BY <1>2, <1>3, <1>4, <1>12, <2>1, <2>2, IdleMade DEF Receive
<1>13. ASSUME NEW parts \in SUBSET {"state", "sched"}, Read(w, parts) PROVE MatchInv'
  <2> DEFINE rec == [W EXCEPT !.got = @ \cup parts, !.state = IF "state" \in parts THEN run ELSE @,
                              !.sched = IF "sched" \in parts THEN Sched(run) ELSE @]
  <2>1. RecordMade(acts, nodeOf, run) /\ Made(acts, nodeOf, Sched(run).pending.act, Sched(run).pending.node)
    BY <1>3 DEF Kept, RecordMade, Sched
  <2>2. WorkerMade(acts, nodeOf, rec)
    BY <1>2, <1>3, <2>1 DEF WorkerMade, WorkerRecord
  <2>3. Becomes(w, rec) /\ UNCHANGED <<run, jobs, resumer, starter, acts, nodeOf>>
    BY <1>13 DEF Read
  <2> HIDE DEF rec
  <2> QED BY <1>4, <1>8, <2>2, <2>3
<1>14. ASSUME HandleIgnored(w) PROVE MatchInv'
  BY <1>5, <1>8, <1>14 DEF HandleIgnored
<1>15. ASSUME Handle(w) PROVE MatchInv'
  <2>0. PICK pc \in {"mark", "clear"} : \E ctx : Becomes(w, [Goto(w, pc) EXCEPT !.ctx = ctx])
    BY <1>15 DEF Handle
  <2>1. PICK ctx : Becomes(w, [Goto(w, pc) EXCEPT !.ctx = ctx])
    BY <2>0
  <2>2. W.pc # "ack" /\ UNCHANGED <<run, jobs, resumer, starter, acts, nodeOf>>
    BY <1>15 DEF Handle
  <2> QED BY <1>1, <1>2, <1>3, <1>4, <1>7, <1>8, <2>1, <2>2, GotoMade
<1>16. ASSUME ClearResume(w) PROVE MatchInv'
  <2>1. [W.state EXCEPT !.resume = NoResume] \in RunRecord
    BY <1>2, HitlUpdates
  <2>2. Kept([W.state EXCEPT !.resume = NoResume])
    BY <1>2, <1>3 DEF Kept, RecordMade, RunRecord
  <2>3. Kept(run')
    BY <1>3, <1>9, <1>16, <2>1, <2>2 DEF ClearResume
  <2> QED BY <1>6, <1>7, <1>16, <2>3 DEF ClearResume
<1>17. ASSUME MarkNodeRunning(w) PROVE MatchInv'
  <2>1. Kept(run')
    BY <1>2, <1>3, <1>9, <1>17 DEF MarkNodeRunning
  <2> QED BY <1>6, <1>7, <1>17, <2>1 DEF MarkNodeRunning
<1>35. ASSUME ReportLoad(w) PROVE MatchInv'
  <2>1. RecordMade(acts, nodeOf, run)
    BY <1>3 DEF Kept
  <2>2. WorkerMade(acts, nodeOf, [W EXCEPT !.pc = "report", !.state = run])
    BY <1>2, <1>3, <1>35, <2>1 DEF WorkerMade, WorkerRecord, ReportLoad
  <2> QED BY <1>4, <1>8, <1>35, <2>2 DEF ReportLoad
<1>36. ASSUME ReportSave(w) PROVE MatchInv'
  <2>1. W.pc # "ack" /\ UNCHANGED <<jobs, resumer, starter, acts, nodeOf>>
    BY <1>36 DEF ReportSave
  <2>2. Kept(run') /\ JobsMade(jobs', acts)
    BY <1>2, <1>3, <1>9, <1>36, <2>1 DEF ReportSave
  <2>3. Becomes(w, [Goto(w, "exec") EXCEPT !.reported = TRUE])
    BY <1>36 DEF ReportSave
  <2> QED BY <1>1, <1>2, <1>3, <1>4, <1>7, <2>1, <2>2, <2>3, GotoMade
<1>18. ASSUME ExecuteReturns(w) PROVE MatchInv'
  <2>1. PICK out : Becomes(w, [Goto(w, "result") EXCEPT !.out = out])
    BY <1>18 DEF ExecuteReturns
  <2>2. W.pc # "ack" /\ UNCHANGED <<run, jobs, resumer, starter, acts, nodeOf>>
    BY <1>18 DEF ExecuteReturns
  <2> QED BY <1>1, <1>2, <1>3, <1>4, <1>7, <1>8, <2>1, <2>2, GotoMade
<1>19. ASSUME ExecuteThrows(w) PROVE MatchInv'
  <2>1. W.pc # "ack" /\ UNCHANGED <<run, jobs, resumer, starter, acts, nodeOf>>
    BY <1>19 DEF ExecuteThrows
  <2>2. CASE Becomes(w, [Goto(w, "exec") EXCEPT !.attempt = @ + 1])
    BY <1>1, <1>2, <1>3, <1>4, <1>7, <1>8, <2>1, <2>2, GotoMade
  <2>3. CASE Becomes(w, Goto(w, "error"))
    BY <1>6, <1>7, <1>8, <2>1, <2>3
  <2> QED BY <1>19, <2>2, <2>3 DEF ExecuteThrows, RetryOr
<1>20. ASSUME ExecuteSuspends(w) PROVE MatchInv'
  BY <1>6, <1>7, <1>8, <1>20 DEF ExecuteSuspends
<1>21. ASSUME Deliver(w) PROVE MatchInv'
  <2>1. WorkerMade(acts, nodeOf, [W EXCEPT !.pc = "suspendSave", !.task = tasks + 1])
    BY <1>2, <1>3, <1>21 DEF Deliver, WorkerMade, WorkerRecord
  <2> QED BY <1>4, <1>8, <1>21, <2>1 DEF Deliver
<1>22. ASSUME SuspendSave(w) PROVE MatchInv'
  <2> DEFINE entry == [task |-> W.task, node |-> W.node, act |-> W.act]
             desired == [W.state EXCEPT !.status = "suspended", !.susp = @ \cup {entry}]
  <2>1. entry \in Suspensions
    BY <1>2 DEF Suspensions, WorkerRecord
  <2>2. desired \in RunRecord
    BY <1>2, <2>1, HitlUpdates
  <2>3. Made(acts, nodeOf, W.act, W.node)
    BY <1>3, <1>22 DEF SuspendSave, WorkerMade
  <2>4. Kept(desired)
    BY <1>2, <1>3, <2>3 DEF Kept, RecordMade, RunRecord
  <2>5. \E keys : run' = Saved(desired, keys)
    BY <1>22 DEF SuspendSave
  <2>6. W.pc # "ack" /\ UNCHANGED <<jobs, resumer, starter, acts, nodeOf>>
    BY <1>22 DEF SuspendSave
  <2> HIDE DEF desired
  <2>7. Kept(run') /\ JobsMade(jobs', acts)
    BY <1>3, <1>9, <2>2, <2>4, <2>5, <2>6
  <2>8. CASE Becomes(w, [Goto(w, "exec") EXCEPT !.attempt = @ + 1, !.task = 0])
    BY <1>1, <1>2, <1>3, <1>4, <1>7, <2>6, <2>7, <2>8, GotoMade
  <2>9. CASE Return(w)
    BY <1>5, <2>6, <2>7, <2>9
  <2> QED BY <1>22, <2>8, <2>9 DEF SuspendSave
<1>23. ASSUME ResultIgnored(w) PROVE MatchInv'
  BY <1>5, <1>6, <1>7, <1>8, <1>23 DEF ResultIgnored
<1>24. ASSUME ResultHalts(w) PROVE MatchInv'
  BY <1>2, <1>10, <1>11, <1>24 DEF ResultHalts
<1>25. ASSUME ResultCompletes(w) PROVE MatchInv'
  BY <1>2, <1>10, <1>11, <1>25, PlannedType DEF ResultCompletes
<1>26. ASSUME ResultOverBudget(w) PROVE MatchInv'
  BY <1>2, <1>10, <1>11, <1>26, PlannedType DEF ResultOverBudget
<1>27. ASSUME ResultRejected(w) PROVE MatchInv'
  BY <1>2, <1>10, <1>11, <1>27, PlannedType DEF ResultRejected
<1>28. ASSUME ResultEnqueues(w) PROVE MatchInv'
  <2> DEFINE node == Head(Planned(w))
             queue == Tail(Planned(w))
             ending == MergeTerminal(W.state, "failed", queue, Count(w))
             desired == Enqueued(acts + 1, node, queue, Count(w), {}, NoResume)
  <2>1. node \in Nodes /\ queue \in Seq(Nodes) /\ Count(w) \in Nat
    BY <1>2, <1>28, PlannedType DEF ResultEnqueues
  <2>2. MakeActivation(node) /\ run' = Saved(desired, {})
    BY <1>28 DEF ResultEnqueues
  <2>3. \E keys : Becomes(w, [Goto(w, "dispatch") EXCEPT
                               !.next = acts + 1, !.ending = ending, !.keys = keys])
    BY <1>28 DEF ResultEnqueues
  <2>4. W.pc # "ack" /\ UNCHANGED <<jobs, resumer, starter>>
    BY <1>28 DEF ResultEnqueues, InResult
  <2>5. Kept(ending)
    BY <1>2, <1>3, MergeTerminalMade DEF Kept
  <2>6. ending \in RunRecord
    BY <1>2, <1>11, <2>1, MergeTerminalType
  <2> HIDE DEF node, queue, ending
  <2>7. Grow /\ acts' = acts + 1 /\ acts' \in Nat
    <3>1. Grow
      BY <2>1, <2>2 DEF Grow
    <3> QED BY <1>2, <2>2, <3>1 DEF MakeActivation
  <2>8. Made(acts', nodeOf', acts + 1, node) /\ acts + 1 \in 0..MaxActs
    BY <1>1, <2>1, <2>2, NewMade, MakeActivationType
  <2>9. desired \in RunRecord
    BY <2>1, <2>8, EnqueuedType, LimitAssumption DEF NoResume, Resumes, Verdicts
  <2>10. RecordMade(acts', nodeOf', desired)
    BY <2>8, EnqueuedMade
  <2> HIDE DEF desired
  <2>11. RecordMade(acts', nodeOf', run) /\ RecordMade(acts', nodeOf', ending)
    BY <1>1, <1>2, <1>3, <2>5, <2>6, <2>7, GrowRecord DEF Kept
  <2>12. RecordMade(acts', nodeOf', run')
    BY <1>2, <2>2, <2>9, <2>10, <2>11, SavedMade
  <2>13. WorkerMade(acts', nodeOf', W) /\ JobsMade(jobs', acts')
    BY <1>1, <1>2, <1>3, <2>4, <2>7, GrowWorker, GrowRest
  <2>14. PICK keys : Becomes(w, [Goto(w, "dispatch") EXCEPT
                               !.next = acts + 1, !.ending = ending, !.keys = keys])
    BY <2>3
  <2>15. WorkerMade(acts', nodeOf', [Goto(w, "dispatch") EXCEPT
                               !.next = acts + 1, !.ending = ending, !.keys = keys])
    <3>1. acts + 1 \in 0..acts' /\ "dispatch" \in WorkerPc
      BY <1>2, <1>7, <2>7
    <3> QED BY <1>1, <2>4, <2>7, <2>11, <2>13, <3>1, GotoMade
  <2> QED BY <1>1, <2>4, <2>7, <2>12, <2>13, <2>14, <2>15, WorkerFrame DEF Becomes
<1>29. ASSUME Dispatch(w) PROVE MatchInv'
  <2>1. JobsMade(jobs', acts)
    BY <1>1, <1>3, <1>29 DEF Dispatch, JobsMade, TypeOK
  <2> QED BY <1>3, <1>5, <1>29, <2>1 DEF Dispatch
<1>30. ASSUME SaveFailure(w) PROVE MatchInv'
  <2>1. Kept(run')
    BY <1>2, <1>3, <1>9, <1>30 DEF SaveFailure
  <2> QED BY <1>3, <1>5, <1>30, <2>1 DEF SaveFailure
<1>31. ASSUME ErrorIgnored(w) PROVE MatchInv'
  BY <1>5, <1>8, <1>31 DEF ErrorIgnored
<1>32. ASSUME ErrorRecovers(w) PROVE MatchInv'
  <2> DEFINE ending == MergeTerminal(W.state, "failed", W.sched.queue, W.state.count)
  <2>1. PICK out, keys : Becomes(w, [Goto(w, "result") EXCEPT !.out = out, !.recovering = TRUE,
                                                   !.ending = ending, !.keys = keys])
    BY <1>32 DEF ErrorRecovers
  <2>2. RecordMade(acts, nodeOf, ending)
    BY <1>2, <1>3, MergeTerminalMade DEF Kept
  <2>3. W.pc # "ack" /\ UNCHANGED <<run, jobs, resumer, starter, acts, nodeOf>>
    BY <1>32 DEF ErrorRecovers, InError
  <2> HIDE DEF ending
  <2>4. WorkerMade(acts, nodeOf, [Goto(w, "result") EXCEPT !.out = out, !.recovering = TRUE,
                                                   !.ending = ending, !.keys = keys])
    BY <1>1, <1>2, <1>3, <1>7, <2>2, <2>3, GotoMade
  <2> QED BY <1>4, <1>8, <2>1, <2>3, <2>4
<1>33. ASSUME ErrorFails(w) PROVE MatchInv'
  BY <1>2, <1>10, <1>11, <1>33 DEF ErrorFails
<1>34. ASSUME Ack(w) PROVE MatchInv'
  <2>1. JobsMade(jobs', acts)
    BY <1>1, <1>3, <1>34 DEF Ack, JobsMade, TypeOK
  <2> QED BY <1>2, <1>3, <1>4, <1>34, <2>1, IdleMade DEF Ack
<1> QED
  BY <1>12, <1>13, <1>14, <1>15, <1>16, <1>17, <1>18, <1>19, <1>20, <1>21, <1>22, <1>23, <1>24,
     <1>25, <1>26, <1>27, <1>28, <1>29, <1>30, <1>31, <1>32, <1>33, <1>34, <1>35, <1>36 DEF WorkerStep

\* Starting the run keeps the invariant.
LEMMA StartMade ==
  ASSUME MatchInv, TypeOK', Start \/ StartDispatch
  PROVE  MatchInv'
<1>1. TypeOK /\ run \in RunRecord /\ acts \in Nat
  BY DEF MatchInv, TypeOK
<1>2. CASE Start
  <2>1. MakeActivation(Entry) /\ Grow /\ Entry \in Nodes
    BY <1>2, GraphAssumption DEF Start, Grow
  <2>2. Made(acts', nodeOf', acts + 1, Entry) /\ acts + 1 \in 0..MaxActs
    BY <1>1, <2>1, NewMade, MakeActivationType
  <2>2a. 1 <= acts'
    BY <1>1, <2>1 DEF MakeActivation
  <2>3. NoResume \in Resumes /\ <<>> \in Seq(Nodes) /\ {} \in SUBSET Suspensions
    BY LimitAssumption DEF NoResume, Resumes, Verdicts
  <2>4. Enqueued(acts + 1, Entry, <<>>, 0, {}, NoResume) \in RunRecord
    BY <2>1, <2>2, <2>3, EnqueuedType
  <2>5. RecordMade(acts', nodeOf', Enqueued(acts + 1, Entry, <<>>, 0, {}, NoResume))
    BY <2>2, EnqueuedMade
  <2>6. RecordMade(acts', nodeOf', run)
    BY <1>1, <2>1, GrowRecord DEF MatchInv
  <2>7. RecordMade(acts', nodeOf', run')
    BY <1>1, <1>2, <2>4, <2>5, <2>6, SavedMade DEF Start
  <2>8. \A w \in Workers : WorkerMade(acts', nodeOf', worker'[w])
    BY <1>1, <1>2, <2>1, GrowWorker DEF Start, MatchInv, TypeOK
  <2>9. (\A r \in Resumers : ResumerMade(acts', nodeOf', resumer'[r])) /\ JobsMade(jobs', acts')
    BY <1>1, <1>2, <2>1, GrowRest DEF Start, MatchInv, TypeOK
  <2> QED BY <2>2a, <2>7, <2>8, <2>9 DEF MatchInv
<1>3. CASE StartDispatch
  <2>1. JobsMade(jobs', acts)
    BY <1>1, <1>3 DEF StartDispatch, MatchInv, JobsMade, TypeOK
  <2> QED BY <1>3, <2>1 DEF StartDispatch, MatchInv
<1> QED BY <1>2, <1>3

\* A step of resumeRun keeps the invariant: it re-activates the node of a suspension entry.
LEMMA ResumeMade ==
  ASSUME MatchInv, TypeOK', NEW r \in Resumers,
         \/ \E task \in Tasks, verdict \in Verdicts : ResumeCall(r, task, verdict)
         \/ ResumeStep(r)
  PROVE  MatchInv'
<1> DEFINE R == resumer[r]
<1>1. TypeOK /\ run \in RunRecord /\ acts \in Nat /\ resumer \in [Resumers -> ResumerRecord]
  BY DEF MatchInv, TypeOK
<1>2. R \in ResumerRecord /\ ResumerMade(acts, nodeOf, R)
  BY <1>1 DEF MatchInv
<1>3. ASSUME NEW rec, resumer' = [resumer EXCEPT ![r] = rec], ResumerMade(acts, nodeOf, rec),
             JobsMade(jobs', acts), UNCHANGED <<run, worker, starter, acts, nodeOf>>
      PROVE  MatchInv'
  <2>1. \A q \in Resumers : ResumerMade(acts, nodeOf, resumer'[q])
    BY <1>1, <1>3 DEF MatchInv
  <2> QED BY <1>3, <2>1 DEF MatchInv
<1>4. JobsMade(jobs, acts)
  BY DEF MatchInv
<1>5. ResumerMade(acts, nodeOf, [IdleResumer EXCEPT !.pc = "done"])
  <2>1. [IdleResumer EXCEPT !.pc = "done"].next = 0
        /\ [IdleResumer EXCEPT !.pc = "done"].state = CreatedRun
    BY DEF IdleResumer
  <2> QED BY <1>1, <2>1, CreatedRunMade DEF ResumerMade
<1>6. ASSUME NEW task \in Tasks, NEW verdict \in Verdicts, ResumeCall(r, task, verdict)
      PROVE  MatchInv'
  <2> DEFINE rec == [IdleResumer EXCEPT !.pc = "loaded", !.task = task, !.verdict = verdict,
                                        !.state = run]
  <2>1. rec.next = 0 /\ rec.state = run
    BY DEF IdleResumer
  <2>2. resumer' = [resumer EXCEPT ![r] = rec] /\ UNCHANGED <<run, jobs, worker, starter, acts, nodeOf>>
    BY <1>6 DEF ResumeCall
  <2> HIDE DEF rec
  <2>3. ResumerMade(acts, nodeOf, rec)
    BY <1>1, <2>1 DEF ResumerMade, MatchInv
  <2> QED BY <1>3, <1>4, <2>2, <2>3
<1>7. CASE ResumeRefused(r) \/ ResumeRejected(r)
  BY <1>3, <1>4, <1>5, <1>7 DEF ResumeRefused, ResumeRejected
<1>8. CASE ResumeSave(r)
  <2> DEFINE remaining == R.state.susp \ Entries(r)
             resume == [act |-> acts + 1, verdict |-> R.verdict]
             keys == IF remaining = {} THEN {"resume"} ELSE {"resume", "susp"}
             rec == [IdleResumer EXCEPT !.pc = "dispatch", !.task = R.task, !.next = acts + 1]
  <2>1. PICK entry \in Entries(r) :
          /\ MakeActivation(entry.node)
          /\ run' = Saved(Enqueued(acts + 1, entry.node, <<>>, R.state.count, remaining, resume), keys)
    BY <1>8 DEF ResumeSave
  <2>2. resumer' = [resumer EXCEPT ![r] = rec] /\ UNCHANGED <<jobs, worker, starter>>
    BY <1>8 DEF ResumeSave
  <2>3. R.state \in RunRecord /\ R.verdict \in Verdicts
    BY <1>2 DEF ResumerRecord
  <2>4. R.state.susp \in SUBSET Suspensions /\ R.state.count \in Nat
    BY <2>3 DEF RunRecord
  <2>5. entry \in R.state.susp /\ entry.node \in Nodes
    BY <2>1, <2>4 DEF Entries, Suspensions
  <2>6. Grow /\ Made(acts', nodeOf', acts + 1, entry.node) /\ acts + 1 \in 0..MaxActs
        /\ acts' = acts + 1
    BY <1>1, <2>1, <2>5, NewMade, MakeActivationType DEF Grow, MakeActivation
  <2>7. RecordMade(acts', nodeOf', R.state) /\ RecordMade(acts', nodeOf', run)
    BY <1>1, <1>2, <2>3, <2>6, GrowRecord DEF ResumerMade, MatchInv
  <2>8. remaining \in SUBSET Suspensions /\ resume \in Resumes /\ <<>> \in Seq(Nodes)
        /\ \A s \in remaining : Made(acts', nodeOf', s.act, s.node)
    BY <2>3, <2>4, <2>6, <2>7 DEF Resumes, RecordMade
  <2>9. rec.next = acts + 1 /\ rec.state = CreatedRun
    BY DEF IdleResumer
  <2> HIDE DEF remaining, resume, keys, rec
  <2>10. Enqueued(acts + 1, entry.node, <<>>, R.state.count, remaining, resume) \in RunRecord
    BY <2>4, <2>5, <2>6, <2>8, EnqueuedType
  <2>11. RecordMade(acts', nodeOf', Enqueued(acts + 1, entry.node, <<>>, R.state.count, remaining, resume))
    BY <2>6, <2>8, EnqueuedMade
  <2>12. RecordMade(acts', nodeOf', run')
    BY <1>1, <2>1, <2>7, <2>10, <2>11, SavedMade
  <2>13. \A w \in Workers : WorkerMade(acts', nodeOf', worker'[w])
    BY <1>1, <2>2, <2>6, GrowWorker DEF MatchInv, TypeOK
  <2>14. ResumerMade(acts', nodeOf', rec)
    BY <1>1, <2>6, <2>9, CreatedRunMade DEF ResumerMade
  <2>15. \A q \in Resumers : ResumerMade(acts', nodeOf', resumer'[q])
    BY <1>1, <2>2, <2>6, <2>14, GrowRest DEF MatchInv
  <2>16. JobsMade(jobs', acts') /\ (starter' = "dispatch" => 1 <= acts')
    BY <1>1, <1>4, <2>2, <2>6, GrowRest DEF MatchInv
  <2> QED BY <2>12, <2>13, <2>15, <2>16 DEF MatchInv
<1>9. CASE ResumeDispatch(r)
  <2>1. [R EXCEPT !.pc = "done"].next = R.next /\ [R EXCEPT !.pc = "done"].state = R.state
    BY <1>2 DEF ResumerRecord
  <2>2. ResumerMade(acts, nodeOf, [R EXCEPT !.pc = "done"]) /\ R.next <= acts
    BY <1>2, <2>1 DEF ResumerMade
  <2>3. JobsMade(jobs', acts)
    BY <1>1, <1>4, <1>9, <2>2 DEF ResumeDispatch, JobsMade, TypeOK
  <2> QED BY <1>3, <1>9, <2>2, <2>3 DEF ResumeDispatch
<1> QED BY <1>6, <1>7, <1>8, <1>9 DEF ResumeStep

\* Faults keep the invariant.
LEMMA FaultMade ==
  ASSUME MatchInv, TypeOK',
         (\E w \in Workers, died \in BOOLEAN : Stall(w, died)) \/ DispatchFails
  PROVE  MatchInv'
<1>1. TypeOK /\ worker \in [Workers -> WorkerRecord] /\ acts \in Nat /\ JobsMade(jobs, acts)
  BY DEF MatchInv, TypeOK
<1>2. ASSUME NEW w \in Workers PROVE WorkerMade(acts, nodeOf, worker[w]) /\ worker[w] \in WorkerRecord
  BY <1>1 DEF MatchInv
<1>3. ASSUME NEW w \in Workers, NEW rec, Becomes(w, rec), WorkerMade(acts, nodeOf, rec),
             JobsMade(jobs', acts), UNCHANGED <<run, resumer, starter, acts, nodeOf>>
      PROVE  MatchInv'
  BY <1>1, <1>3, WorkerFrame DEF Becomes, Grow, MatchInv
<1>4. ASSUME NEW w \in Workers, JobStalls(worker[w].act) PROVE JobsMade(jobs', acts)
  BY <1>1, <1>2, <1>4 DEF JobStalls, JobsMade, WorkerMade, TypeOK
<1>5. ASSUME NEW w \in Workers, NEW died \in BOOLEAN, Stall(w, died) PROVE MatchInv'
  <2>1. WorkerMade(acts, nodeOf, [worker[w] EXCEPT !.lock = FALSE])
    BY <1>2 DEF WorkerMade, WorkerRecord
  <2>2. WorkerMade(acts, nodeOf, IF died THEN IdleWorker ELSE [worker[w] EXCEPT !.lock = FALSE])
    BY <1>1, <2>1, IdleMade
  <2> QED BY <1>3, <1>4, <1>5, <2>2 DEF Stall
<1>7. CASE DispatchFails
  <2>1. ASSUME NEW w \in Workers, worker[w].pc = "dispatch",
               Becomes(w, [worker[w] EXCEPT !.pc = "terminate"]),
               UNCHANGED <<run, jobs, resumer, starter, acts, nodeOf>>
        PROVE  MatchInv'
    <3>1. WorkerMade(acts, nodeOf, [worker[w] EXCEPT !.pc = "terminate"])
      BY <1>2, <2>1 DEF WorkerMade, WorkerRecord
    <3> QED BY <1>1, <1>3, <2>1, <3>1
  <2>2. ASSUME NEW r \in Resumers, resumer' = [resumer EXCEPT ![r].pc = "done"],
               UNCHANGED <<run, jobs, worker, starter, acts, nodeOf>>
        PROVE  MatchInv'
    <3>1. resumer \in [Resumers -> ResumerRecord] /\ \A q \in Resumers : ResumerMade(acts, nodeOf, resumer[q])
      BY DEF MatchInv, TypeOK
    <3>2. \A rec \in ResumerRecord : /\ [rec EXCEPT !.pc = "done"].next = rec.next
                                     /\ [rec EXCEPT !.pc = "done"].state = rec.state
      BY DEF ResumerRecord
    <3>3. \A q \in Resumers : ResumerMade(acts, nodeOf, resumer'[q])
      BY <2>2, <3>1, <3>2 DEF ResumerMade
    <3> QED BY <2>2, <3>3 DEF MatchInv
  <2>3. ASSUME starter' = "done", UNCHANGED <<run, jobs, worker, resumer, acts, nodeOf>>
        PROVE  MatchInv'
    BY <2>3 DEF MatchInv
  <2> QED BY <1>7, <2>1, <2>2, <2>3 DEF DispatchFails
<1> QED BY <1>5, <1>7

\* The record of a new run names no activation.
LEMMA InitMade == Init => MatchInv
<1> SUFFICES ASSUME Init PROVE MatchInv
  OBVIOUS
<1>1. TypeOK
  BY InitType
<1>2. acts = 0 /\ JobsMade(jobs, acts) /\ starter # "dispatch"
  BY DEF Init, JobsMade
<1>3. \A w \in Workers : WorkerMade(acts, nodeOf, worker[w])
  BY <1>2, IdleMade DEF Init
<1>4. ResumerMade(acts, nodeOf, IdleResumer)
  BY <1>2, CreatedRunMade DEF ResumerMade, IdleResumer
<1> QED BY <1>1, <1>2, <1>3, <1>4, CreatedRunMade DEF Init, MatchInv

\* Every step keeps the invariant.
LEMMA StepMade ==
  ASSUME MatchInv, [Next]_vars
  PROVE  MatchInv'
<1>1. TypeOK'
  BY StepType DEF MatchInv
<1>2. CASE \E w \in Workers : WorkerStep(w)
  BY <1>1, <1>2, WorkerStepMade
<1>3. CASE UNCHANGED vars
  BY <1>3 DEF vars, MatchInv, TypeOK
<1> QED BY <1>1, <1>2, <1>3, StartMade, ResumeMade, FaultMade DEF Next

\* Whatever happens to a run, every activation id in its record, in the queue and in a
\* handler comes with the node it was made for: the handlers' node checks never fire.
THEOREM ActivationsCorrect == Spec => []ActivationsMatch
<1>1. MatchInv => ActivationsMatch
  BY DEF MatchInv, ActivationsMatch, RecordMade, RecordMadeFor, Made, MadeFor, JobsMade, WorkerMade
<1> QED BY <1>1, InitMade, StepMade, PTL DEF Spec
=============================================================================
