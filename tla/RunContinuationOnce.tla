-------------------------- MODULE RunContinuationOnce --------------------------
(***************************************************************************)
(* An activation is continued once, for every value of the constants: any  *)
(* workflow, with approvals or without, any number of processors and of    *)
(* callers of resumeRun, both repositories, error handlers, reports and    *)
(* refused dispatches.  What is excluded is stated: a processor that goes  *)
(* on after it lost its lock, a suspended activation that is tried again,  *)
(* and a second resume that was saved for one task.                        *)
(*                                                                         *)
(* The code has no lock on the record.  What stands in for one is the job: *)
(* it is with one processor at a time, and only that processor can move    *)
(* the run away from the activation the job names.  So what it has read of *)
(* a run that still waits for it is what is stored, and a processor whose  *)
(* activation was left behind finds out before it saves anything.  While   *)
(* the run is suspended the entry of its task stands in: only a call that  *)
(* finds it can move the run.                                              *)
(*                                                                         *)
(* The invariant says where every handler and every call stands; from it   *)
(* follow the budget, the lifecycle, the carrier of a pending run, and     *)
(* what the record says of its approvals: which entries it has, whose      *)
(* decision it holds, and that a decision reaches its node.                *)
(***************************************************************************)
EXTENDS RunContinuationActivations

LOCAL INSTANCE SequencesExt

-----------------------------------------------------------------------------
(* The hypotheses. *)

\* No processor goes on without its lock.  An approval is not asked again by the processor that
\* asked it, nor by one that reads the state before and the scheduling state after the answer.
Undisturbed ==
  /\ "loseLock" \notin FaultKinds
  /\ ApprovalNodes # {} => /\ MaxAttempts = 1
                           /\ Store = "memory" \/ "crash" \notin FaultKinds

\* No task has two calls of resumeRun that saved a resume for it.  It holds of itself without
\* approval nodes (NobodyAnswers) and with one call (OneCaller); otherwise it is up to the
\* callers, who mark the row of the task without looking at it again.
ResumedOnce ==
  \A q, r \in Resumers : q # r /\ resumer[q].next # 0 /\ resumer[r].next # 0
                         => resumer[q].task # resumer[r].task

-----------------------------------------------------------------------------
(* The invariant. *)

\* The run waits for activation a.
Pends(r, a) == r.status = "pending" /\ r.pending.act = a

\* Two records that differ in what the continuation does not look at.
Alike(r, s) == /\ r.status = s.status /\ r.pending = s.pending
               /\ r.queue = s.queue /\ r.count = s.count

Busy(rec)   == rec.pc # "idle"
Moving(rec) == rec.pc \in {"dispatch", "terminate"}
Working     == {"clear", "mark", "exec", "report", "suspend", "suspendSave", "result", "error"}

\* What a handler has read of a run that waits for its activation is what is stored, and it
\* does not take a run for waiting that has moved on or is suspended.
Fresh(rec, r) ==
  /\ "state" \in rec.got /\ Pends(r, rec.act) => Alike(rec.state, r)
  /\ "sched" \in rec.got =>
       /\ Pends(r, rec.act) => rec.sched = Sched(r)
       /\ /\ rec.sched.pending.act = rec.act
          /\ "state" \in rec.got => rec.state.status = "pending"
          => Pends(r, rec.act)
  /\ rec.pc \in {"report", "suspendSave"} => Alike(rec.state, r)
  /\ rec.got # {} => rec.pc \in {"handle", "clear", "mark", "suspend", "suspendSave", "result", "error"}

\* Where a handler is, its job and the run agree; j are the jobs.
Placed(rec, r, j) ==
  /\ rec.pc # "failSave" /\ (rec.pc \in {"suspend", "suspendSave"} => ApprovalNodes # {})
  /\ rec.pc = "idle" => ~rec.lock
  /\ Busy(rec) => rec.act \in Acts /\ j[rec.act] = "active"
  /\ rec.pc \in Working => Pends(r, rec.act)
  /\ rec.pc = "handle" /\ "crash" \notin FaultKinds => Pends(r, rec.act)
  /\ rec.pc \in Working \cup {"handle"} => rec.attempt >= 1
  /\ rec.pc = "ack" => ~Pends(r, rec.act)
  /\ Moving(rec) => /\ rec.next \in Acts /\ j[rec.next] = "none" /\ Pends(r, rec.next)
                    /\ rec.ending.status = "failed" /\ rec.ending.pending = NoPending
                    /\ rec.ending.count = r.count

\* Where a call of resumeRun is: an entry it has read of a suspended run is of a task that was
\* resumed - d are those tasks - or the run is what it has read.
Called(rec, r, j, d) ==
  /\ rec.pc \in {"idle", "loaded"} => rec.next = 0
  /\ rec.pc = "loaded" /\ rec.state.status = "suspended"
       => rec.state = r \/ \A s \in rec.state.susp : s.task \in d
  /\ rec.pc = "dispatch" => rec.next \in Acts /\ j[rec.next] = "none" /\ Pends(r, rec.next)

\* A job is with one processor, and at most one handler or call has a dispatch to make.
Apart ==
  /\ \A v, w \in Workers : v # w =>
       /\ Busy(worker[v]) /\ Busy(worker[w]) => worker[v].act # worker[w].act
       /\ ~(Moving(worker[v]) /\ Moving(worker[w]))
  /\ \A r \in Resumers : resumer[r].pc = "dispatch" =>
       /\ \A w \in Workers : ~Moving(worker[w])
       /\ \A q \in Resumers \ {r} : resumer[q].pc # "dispatch"

\* The run before anybody works on it.
Starting == /\ starter = "start" => Alike(run, CreatedRun) /\ acts = 0
            /\ starter = "dispatch" => acts = 1 /\ jobs[1] = "none" /\ Pends(run, 1)
            /\ starter # "done" => tasks = 0 /\ \A r \in Resumers : resumer[r].pc = "idle"

\* Without crashes a job that is queued is the one the run waits for.
Queued(j, r) == "crash" \notin FaultKinds => \A a \in Acts : j[a] = "waiting" => Pends(r, a)

\* The activation the run waits for has not been continued, nor has one that is not made.
Unspent(wn, n, r) == \A a \in Acts : /\ wn[a] <= 1
                                     /\ a > n \/ Pends(r, a) => wn[a] = 0

\* The tasks that were resumed.  In a copy of the record that does not say "suspended" every
\* entry is of one of them (the Prisma merge keeps old entries); a suspended run waits for at
\* most one other task.
Resumed == {resumer[r].task : r \in {q \in Resumers : resumer[q].next # 0}}
Answered(rec, d) == rec.status # "suspended" => \A s \in rec.susp : s.task \in d
Remembers(rec, d) == Answered(rec.state, d) /\ Answered(rec.ending, d)
WaitsForOne(r, d) == /\ Answered(r, d)
                     /\ \A s, u \in r.susp : s.task \in d \/ u.task \in d \/ s.task = u.task

\* A workflow without approval nodes has no tasks.
NoTasks == /\ tasks = 0 /\ run.status # "suspended"
           /\ \A r \in Resumers : resumer[r].pc \in {"idle", "done"} /\ resumer[r].next = 0

OnceInv ==
  /\ run.status \in {"pending", "suspended"} <=> run.pending.act # 0
  /\ \A w \in Workers : Fresh(worker[w], run) /\ Placed(worker[w], run, jobs)
  /\ \A w \in Workers : Remembers(worker[w], Resumed)
  /\ \A r \in Resumers : Called(resumer[r], run, jobs, Resumed)
  /\ Apart
  /\ Starting
  /\ Queued(jobs, run)
  /\ Unspent(won, acts, run)
  /\ WaitsForOne(run, Resumed)
  /\ ApprovalNodes = {} => NoTasks

\* The types and the nodes of the activations are known (RunContinuationProof,
\* RunContinuationActivations).
Known == TypeOK /\ ActivationsMatch /\ OnceInv

-----------------------------------------------------------------------------
(* What a step does to the record: it keeps it, begins the run, moves it   *)
(* to a next activation, suspends it, resumes it or ends it.               *)

Awaits == run'.status = "pending" /\ acts' = acts + 1 /\ run'.pending.act = acts + 1

Keeps  == Alike(run', run) /\ acts' = acts

Begins == Alike(run, CreatedRun) /\ Awaits /\ run'.queue = <<>> /\ run'.count = 0

Moves  == /\ run.status = "pending" /\ Awaits
          /\ run'.count = run.count + 1 /\ run'.count < MaxNodeActivations
          /\ \E s \in Seq(Nodes) : LET planned == run.queue \o s
                                   IN  /\ planned # <<>> /\ run'.pending.node = Head(planned)
                                       /\ run'.queue = Tail(planned)

Suspends == /\ run.status = "pending" /\ run'.status = "suspended" /\ acts' = acts
            /\ run'.pending = run.pending /\ run'.queue = run.queue /\ run'.count = run.count

Awakens == run.status = "suspended" /\ Awaits /\ run'.count = run.count

Ends   == /\ run.status = "pending" /\ run'.status \in Terminal
          /\ run'.pending = NoPending /\ acts' = acts
          /\ run'.count \in {run.count, run.count + 1}
          /\ run'.status = "completed" => run'.count = run.count + 1
          /\ run'.status = "halted" => run'.count = run.count

Effect == Keeps \/ Begins \/ Moves \/ Suspends \/ Awakens \/ Ends

-----------------------------------------------------------------------------
(* Where a handler stands. *)

\* A handler works for an activation that was made, whose job it has, with that activation's
\* node, and the run was started before.
LEMMA Position ==
  ASSUME Known, NEW w \in Workers, Busy(worker[w])
  PROVE  /\ worker[w].act \in Acts /\ jobs[worker[w].act] = "active" /\ worker[w].act <= acts
         /\ worker[w].pc # "ack" => worker[w].node = nodeOf[worker[w].act]
         /\ starter = "done"
<1>1. worker[w].act \in Acts /\ jobs[worker[w].act] = "active"
  BY DEF Known, OnceInv, Placed
<1>2. worker[w].act # 0
  BY <1>1, LimitAssumption DEF Acts
<1>3. worker[w].act <= acts
  BY <1>1 DEF Known, ActivationsMatch
<1>4. starter # "start"
  BY <1>1, <1>3, LimitAssumption DEF Known, OnceInv, Starting, Acts
<1>5. starter # "dispatch"
  <2>1. ASSUME starter = "dispatch" PROVE FALSE
    <3>1. acts = 1 /\ jobs[1] = "none"
      BY <2>1 DEF Known, OnceInv, Starting
    <3>2. worker[w].act = 1
      BY <1>1, <1>3, <3>1, LimitAssumption DEF Acts
    <3> QED BY <1>1, <3>1, <3>2
  <2> QED BY <2>1
<1> QED BY <1>1, <1>2, <1>3, <1>4, <1>5 DEF Known, ActivationsMatch, MadeFor, TypeOK

\* The activation the run waits for was made.
LEMMA PendingMade ==
  ASSUME Known, NEW a \in Acts, Pends(run, a)
  PROVE  a <= acts /\ run.pending = [act |-> a, node |-> nodeOf[a]]
<1>1. run.pending \in Pendings /\ a # 0
  BY LimitAssumption DEF Known, TypeOK, RunRecord, Acts
<1>2. MadeFor(run.pending.act, run.pending.node)
  BY DEF Known, ActivationsMatch, RecordMadeFor
<1> QED BY <1>1, <1>2 DEF Pends, MadeFor, Pendings

\* What a handler has read tells it whether the run waits for its activation, and if so it is
\* what is stored.
LEMMA Reading ==
  ASSUME Known, NEW w \in Workers, HasRead(w),
         worker[w].pc \in {"handle", "mark", "result", "error"}
  PROVE  /\ IsPending(w) <=> Pends(run, worker[w].act)
         /\ Pends(run, worker[w].act) => Alike(worker[w].state, run) /\ worker[w].sched = Sched(run)
<1> DEFINE W == worker[w]
<1>1. W.got = {"state", "sched"} /\ Busy(W) /\ W.pc # "ack"
  BY DEF HasRead, Reads, Busy
<1>2. W.act \in Acts /\ W.node = nodeOf[W.act]
  BY <1>1, Position
<1>3. Fresh(W, run)
  BY DEF Known, OnceInv
<1>4. ASSUME IsPending(w) PROVE Pends(run, W.act)
  BY <1>1, <1>3, <1>4 DEF IsPending, Fresh
<1>5. ASSUME Pends(run, W.act) PROVE Alike(W.state, run) /\ W.sched = Sched(run)
  BY <1>1, <1>3, <1>5 DEF Fresh
<1>6. ASSUME Pends(run, W.act) PROVE IsPending(w)
  <2>1. W.state.status = "pending"
    BY <1>5, <1>6 DEF Alike, Pends
  <2>2. W.sched.pending = run.pending
    BY <1>5, <1>6 DEF Sched
  <2>3. run.pending = [act |-> W.act, node |-> W.node]
    BY <1>2, <1>6, PendingMade
  <2> QED BY <2>1, <2>2, <2>3 DEF IsPending
<1> QED BY <1>4, <1>5, <1>6

\* A record that the continuation sees as the stored one.
LEMMA AlikeSame ==
  ASSUME NEW r, NEW s, Alike(r, s)
  PROVE  /\ Sched(r) = Sched(s) /\ \A a : Pends(r, a) <=> Pends(s, a)
         /\ \A rec : Fresh(rec, s) => Fresh(rec, r)
         /\ \A rec, j : Placed(rec, s, j) => Placed(rec, r, j)
         /\ \A wn, n : Unspent(wn, n, s) => Unspent(wn, n, r)
         /\ \A j : Queued(j, s) => Queued(j, r)
<1>1. Sched(r) = Sched(s) /\ \A a : Pends(r, a) <=> Pends(s, a)
  BY DEF Alike, Sched, Pends
<1>2. \A x : Alike(x, s) => Alike(x, r)
  BY DEF Alike
<1>3. r.count = s.count
  BY DEF Alike
<1> QED BY <1>1, <1>2, <1>3 DEF Fresh, Placed, Unspent, Queued

\* A save changes nothing that the continuation looks at but what the writer passed.
LEMMA SavedAlike ==
  ASSUME TypeOK, NEW desired \in RunRecord, NEW keys
  PROVE  Alike(Saved(desired, keys), desired)
BY SavedType DEF Alike, TypeOK

\* A record that is saved while the run waits has no open entries, if the writer's has none.
LEMMA SavedAnswered ==
  ASSUME Known, run.status # "suspended", NEW desired \in RunRecord, NEW keys,
         desired.status # "suspended", Answered(desired, Resumed)
  PROVE  WaitsForOne(Saved(desired, keys), Resumed)
<1>1. Saved(desired, keys).susp \in {desired.susp, run.susp}
  BY SavedType DEF Known, TypeOK
<1>2. Answered(run, Resumed)
  BY DEF Known, OnceInv, WaitsForOne
<1> QED BY <1>1, <1>2 DEF Answered, WaitsForOne

-----------------------------------------------------------------------------
(* The two kinds of steps of a handler. *)

\* A step that leaves the record as it is, for the continuation, and the rest of the system
\* too: only the handler goes on.
LEMMA StaysFrame ==
  ASSUME Known, NEW w \in Workers, NEW rec, Becomes(w, rec), Alike(run', run),
         run' = run \/ (run.status = "pending" /\ WaitsForOne(run', Resumed)),
         UNCHANGED <<jobs, starter, resumer, acts, won>>, tasks' = tasks \/ ApprovalNodes # {},
         Busy(worker[w]), rec.act = worker[w].act, Moving(rec) => Moving(worker[w]),
         Fresh(rec, run), Placed(rec, run, jobs), Remembers(rec, Resumed)
  PROVE  OnceInv' /\ Keeps
<1>1. worker \in [Workers -> WorkerRecord]
  BY DEF Known, TypeOK
<1>2. \A v \in Workers : worker'[v] = IF v = w THEN rec ELSE worker[v]
  BY <1>1 DEF Becomes
<1>3. run'.status = run.status /\ run'.pending = run.pending
  BY DEF Alike
<1>4. \A v \in Workers : Fresh(worker'[v], run') /\ Placed(worker'[v], run', jobs')
  BY <1>2, AlikeSame DEF Known, OnceInv
<1>5. Apart'
  BY <1>2 DEF Known, OnceInv, Apart
<1>6. Starting'
  BY Position DEF Starting
<1>7. Unspent(won', acts', run') /\ Queued(jobs', run')
  BY AlikeSame DEF Known, OnceInv
<1>8. Resumed' = Resumed
  BY DEF Resumed
<1>9. \A v \in Workers : Remembers(worker'[v], Resumed)
  BY <1>2 DEF Known, OnceInv
<1>10. \A r \in Resumers : Called(resumer[r], run', jobs, Resumed)
  BY <1>3, AlikeSame DEF Known, OnceInv, Called
<1>11. WaitsForOne(run', Resumed)
  BY DEF Known, OnceInv
<1>12. ApprovalNodes = {} => NoTasks'
  BY <1>3 DEF Known, OnceInv, NoTasks
<1>13. Keeps
  BY DEF Keeps
<1>14. (\A r \in Resumers : Called(resumer[r], run, jobs, Resumed))'
       /\ WaitsForOne(run, Resumed)' /\ (\A v \in Workers : Remembers(worker[v], Resumed))'
  BY <1>8, <1>9, <1>10, <1>11
<1> QED BY <1>3, <1>4, <1>5, <1>6, <1>7, <1>12, <1>13, <1>14 DEF Known, OnceInv

\* While the run waits for the activation of a handler, or for the one a handler is to
\* dispatch, no other handler works for it and nobody else has a dispatch to make.
LEMMA Alone ==
  ASSUME Known, NEW w \in Workers, NEW a \in Acts, Pends(run, a),
         \/ Busy(worker[w]) /\ a = worker[w].act
         \/ Moving(worker[w]) /\ a = worker[w].next
  PROVE  /\ starter = "done" /\ Busy(worker[w])
         /\ \A v \in Workers \ {w} : /\ ~Moving(worker[v])
                                     /\ Busy(worker[v]) => worker[v].act # a
         /\ \A r \in Resumers : resumer[r].pc # "dispatch"
         /\ "crash" \notin FaultKinds => \A b \in Acts : jobs[b] # "waiting"
<1>1. Busy(worker[w])
  BY DEF Busy, Moving
<1>2. worker[w].act \in Acts /\ jobs[worker[w].act] = "active" /\ starter = "done"
  BY <1>1, Position
<1>3. Moving(worker[w]) => jobs[worker[w].next] = "none"
  BY DEF Known, OnceInv, Placed
<1>4. ASSUME NEW v \in Workers \ {w}, Moving(worker[v]) PROVE FALSE
  <2>1. jobs[worker[v].next] = "none" /\ Pends(run, worker[v].next)
    BY <1>4 DEF Known, OnceInv, Placed
  <2>2. worker[v].next = a
    BY <2>1 DEF Pends
  <2>3. ~Moving(worker[w])
    BY <1>4 DEF Known, OnceInv, Apart
  <2> QED BY <1>2, <2>1, <2>2, <2>3
<1>5. ASSUME NEW v \in Workers \ {w}, Busy(worker[v]) PROVE worker[v].act # a
  <2>1. jobs[worker[v].act] = "active" /\ worker[v].act # worker[w].act
    BY <1>1, <1>5, Position DEF Known, OnceInv, Apart
  <2> QED BY <1>3, <2>1
<1>6. ASSUME NEW r \in Resumers, resumer[r].pc = "dispatch" PROVE FALSE
  <2>1. jobs[resumer[r].next] = "none" /\ Pends(run, resumer[r].next)
    BY <1>6 DEF Known, OnceInv, Called
  <2>2. resumer[r].next = a
    BY <2>1 DEF Pends
  <2>3. ~Moving(worker[w])
    BY <1>6 DEF Known, OnceInv, Apart
  <2> QED BY <1>2, <2>1, <2>2, <2>3
<1>7. ASSUME "crash" \notin FaultKinds, NEW b \in Acts, jobs[b] = "waiting" PROVE FALSE
  <2>1. Pends(run, b)
    BY <1>7 DEF Known, OnceInv, Queued
  <2>2. b = a
    BY <2>1 DEF Pends
  <2> QED BY <1>2, <1>3, <1>7, <2>2
<1> QED BY <1>1, <1>2, <1>4, <1>5, <1>6, <1>7

\* A step that takes the run away from the activation it waits for: the other handlers, which
\* work for none that the run waits for, find out.
LEMMA LeavesFrame ==
  ASSUME Known, NEW w \in Workers, NEW a \in Acts, Pends(run, a),
         \/ Busy(worker[w]) /\ a = worker[w].act
         \/ Moving(worker[w]) /\ a = worker[w].next,
         NEW rec, Becomes(w, rec), Busy(rec), rec.act = worker[w].act,
         Fresh(rec, run'), Placed(rec, run', jobs'), Remembers(rec, Resumed),
         run'.status \in {"pending", "suspended"} <=> run'.pending.act # 0,
         WaitsForOne(run', Resumed), run'.status = "suspended" => ApprovalNodes # {},
         \A b \in Acts : Pends(run', b) => b > acts,
         acts' \in Nat, acts <= acts',
         won' = won \/ won' = [won EXCEPT ![a] = @ + 1],
         UNCHANGED <<jobs, starter, resumer, tasks>>
  PROVE  OnceInv'
<1>1. worker \in [Workers -> WorkerRecord] /\ acts \in Nat /\ won \in [Acts -> Nat]
  BY DEF Known, TypeOK
<1>2. \A v \in Workers : worker'[v] = IF v = w THEN rec ELSE worker[v]
  BY <1>1 DEF Becomes
<1>3. Busy(worker[w]) /\ starter = "done" /\ \A r \in Resumers : resumer[r].pc # "dispatch"
  BY Alone
<1>4. ASSUME NEW v \in Workers \ {w}
      PROVE  Fresh(worker[v], run') /\ Placed(worker[v], run', jobs')
  <2> DEFINE V == worker[v]
  <2>1. Fresh(V, run) /\ Placed(V, run, jobs)
    BY DEF Known, OnceInv
  <2>2. ~Moving(V) /\ (Busy(V) => V.act # a)
    BY Alone
  <2>3. Busy(V) => ~Pends(run, V.act)
    BY <2>2 DEF Pends
  <2>4. Busy(V) => ~Pends(run', V.act)
    <3>1. ASSUME Busy(V) PROVE ~Pends(run', V.act)
      <4>1. V.act \in Acts /\ V.act <= acts
        BY <3>1, Position
      <4> QED BY <1>1, <4>1, LimitAssumption DEF Acts
    <3> QED BY <3>1
  <2>5. V.pc \notin Working /\ (V.pc = "handle" => "crash" \in FaultKinds)
    BY <2>1, <2>3 DEF Placed, Busy, Working
  <2>6. V.got # {} => Busy(V)
    BY <2>1 DEF Fresh, Busy
  <2>7. Fresh(V, run')
    BY <2>1, <2>3, <2>4, <2>5, <2>6 DEF Fresh, Working
  <2> QED BY <2>1, <2>2, <2>4, <2>5, <2>7 DEF Placed, Busy
<1>5. \A v \in Workers : Fresh(worker'[v], run') /\ Placed(worker'[v], run', jobs')
  BY <1>2, <1>4
<1>6. Apart'
  <2>1. \A v \in Workers \ {w} : ~Moving(worker[v])
    BY Alone
  <2>2. \A v \in Workers \ {w} : Busy(worker[v]) => worker[v].act # worker[w].act
    BY <1>3 DEF Known, OnceInv, Apart
  <2>3. \A u, v \in Workers : u # v /\ Busy(worker[u]) /\ Busy(worker[v])
                                => worker[u].act # worker[v].act
    BY DEF Known, OnceInv, Apart
  <2> QED BY <1>2, <1>3, <2>1, <2>2, <2>3 DEF Apart
<1>7. Starting'
  BY <1>3 DEF Starting
<1>8. Unspent(won', acts', run')
  <2>1. Unspent(won, acts, run) /\ a <= acts
    BY PendingMade DEF Known, OnceInv
  <2>2. won[a] = 0
    BY <2>1 DEF Unspent
  <2>3. ASSUME NEW b \in Acts PROVE won'[b] <= 1 /\ (b > acts => won'[b] = 0)
    <3>1. won[b] <= 1 /\ (b > acts => won[b] = 0)
      BY <2>1 DEF Unspent
    <3> QED BY <1>1, <2>1, <2>2, <3>1, LimitAssumption DEF Acts
  <2>4. \A b \in Acts : b > acts' \/ Pends(run', b) => b > acts
    BY <1>1, LimitAssumption DEF Acts
  <2> QED BY <2>3, <2>4 DEF Unspent
<1>9. Queued(jobs', run')
  BY Alone DEF Queued
<1>10. Resumed' = Resumed
  BY DEF Resumed
<1>11. \A v \in Workers : Remembers(worker'[v], Resumed)
  BY <1>2 DEF Known, OnceInv
<1>12. \A r \in Resumers : Called(resumer[r], run', jobs', Resumed)
  <2>1. run.status # "suspended"
    BY DEF Pends
  <2> QED BY <1>3, <2>1 DEF Known, OnceInv, Called
<1>13. ApprovalNodes = {} => NoTasks'
  BY DEF Known, OnceInv, NoTasks
<1>14. (\A r \in Resumers : Called(resumer[r], run, jobs, Resumed))'
       /\ WaitsForOne(run, Resumed)' /\ (\A v \in Workers : Remembers(worker[v], Resumed))'
  BY <1>10, <1>11, <1>12
<1> QED BY <1>5, <1>6, <1>7, <1>8, <1>9, <1>13, <1>14 DEF OnceInv

\* A step that moves a job and changes one handler, not the record.
LEMMA JobFrame ==
  ASSUME Known, NEW w \in Workers, NEW rec, Becomes(w, rec),
         NEW a \in Acts, NEW job, jobs' = [jobs EXCEPT ![a] = job],
         job = "waiting" /\ "crash" \notin FaultKinds => Pends(run, a),
         UNCHANGED <<run, starter, resumer, acts, tasks, won>>,
         \A v \in Workers \ {w} : /\ Busy(worker[v]) => worker[v].act # a
                                  /\ Moving(worker[v]) => worker[v].next # a,
         \A r \in Resumers : resumer[r].pc = "dispatch" => resumer[r].next # a,
         starter = "dispatch" => a # 1,
         Fresh(rec, run), Placed(rec, run, jobs'), Remembers(rec, Resumed), ~Moving(rec),
         Busy(rec) => rec.act = a \/ (Busy(worker[w]) /\ rec.act = worker[w].act)
  PROVE  OnceInv' /\ Keeps
<1>1. worker \in [Workers -> WorkerRecord] /\ jobs \in [Acts -> {"none", "waiting", "active"}]
  BY DEF Known, TypeOK
<1>2. /\ \A v \in Workers : worker'[v] = IF v = w THEN rec ELSE worker[v]
      /\ \A b \in Acts : b # a => jobs'[b] = jobs[b]
      /\ jobs'[a] = job
  BY <1>1 DEF Becomes
<1>3. ASSUME NEW v \in Workers \ {w} PROVE Fresh(worker[v], run') /\ Placed(worker[v], run', jobs')
  <2>1. Fresh(worker[v], run) /\ Placed(worker[v], run, jobs)
    BY DEF Known, OnceInv
  <2>2. Busy(worker[v]) => worker[v].act \in Acts /\ jobs'[worker[v].act] = jobs[worker[v].act]
    BY <1>2, <2>1 DEF Placed
  <2>3. Moving(worker[v]) => jobs'[worker[v].next] = jobs[worker[v].next]
    BY <1>2, <2>1 DEF Placed
  <2> QED BY <2>1, <2>2, <2>3 DEF Placed
<1>4. \A v \in Workers : Fresh(worker'[v], run') /\ Placed(worker'[v], run', jobs')
  BY <1>2, <1>3
<1>5. Apart'
  <2>1. ASSUME NEW v \in Workers \ {w}, Busy(worker[v]), Busy(rec) PROVE worker[v].act # rec.act
    BY <2>1 DEF Known, OnceInv, Apart
  <2> QED BY <1>2, <2>1 DEF Known, OnceInv, Apart
<1>6. Starting'
  <2>1. starter = "dispatch" => 1 \in Acts
    BY LimitAssumption DEF Known, TypeOK, OnceInv, Starting, Acts
  <2> QED BY <1>2, <2>1 DEF Known, OnceInv, Starting
<1>7. Keeps
  BY DEF Keeps, Alike
<1>8. Queued(jobs', run')
  BY <1>2 DEF Known, OnceInv, Queued
<1>9. Resumed' = Resumed
  BY DEF Resumed
<1>10. \A v \in Workers : Remembers(worker'[v], Resumed)
  BY <1>2 DEF Known, OnceInv
<1>11. \A r \in Resumers : Called(resumer[r], run', jobs', Resumed)
  BY <1>2 DEF Known, OnceInv, Called
<1>12. (\A r \in Resumers : Called(resumer[r], run, jobs, Resumed))'
       /\ WaitsForOne(run, Resumed)' /\ (\A v \in Workers : Remembers(worker[v], Resumed))'
  BY <1>9, <1>10, <1>11 DEF Known, OnceInv
<1>13. ApprovalNodes = {} => NoTasks'
  BY DEF Known, OnceInv, NoTasks
<1> QED BY <1>4, <1>5, <1>6, <1>7, <1>8, <1>12, <1>13 DEF Known, OnceInv

-----------------------------------------------------------------------------
(* How a handler goes on. *)

Goes(rec, w, pc) == /\ rec.pc = pc /\ rec.got = {}
                    /\ rec.act = worker[w].act /\ rec.lock = worker[w].lock
                    /\ pc \in Working => rec.attempt >= worker[w].attempt
                    /\ rec.state = CreatedRun /\ Answered(rec.ending, Resumed)

\* A record that has no entries has no open ones.
LEMMA CreatedAnswered ==
  /\ Answered(CreatedRun, Resumed)
  /\ \A rec, w, pc : Goes(rec, w, pc) => Remembers(rec, Resumed)
BY DEF CreatedRun, Answered, Goes, Remembers

\* A handler that goes on keeps its activation and its lock and has nothing read.
LEMMA GotoGoes ==
  ASSUME Known, NEW w \in Workers, NEW pc \in WorkerPc
  PROVE  /\ Goes(Goto(w, pc), w, pc)
         /\ \A ctx : Goes([Goto(w, pc) EXCEPT !.ctx = ctx], w, pc)
         /\ \A out : Goes([Goto(w, pc) EXCEPT !.out = out], w, pc)
         /\ Goes([Goto(w, pc) EXCEPT !.attempt = @ + 1], w, pc)
         /\ Goes([Goto(w, pc) EXCEPT !.reported = TRUE], w, pc)
         /\ \A out, ending, keys : Answered(ending, Resumed) =>
              Goes([Goto(w, pc) EXCEPT !.out = out, !.recovering = TRUE, !.ending = ending,
                                       !.keys = keys], w, pc)
         /\ \A next, ending, keys : Answered(ending, Resumed) =>
              Goes([Goto(w, pc) EXCEPT !.next = next, !.ending = ending, !.keys = keys], w, pc)
<1> DEFINE G == Goto(w, pc)
<1>1. G \in WorkerRecord /\ worker[w] \in WorkerRecord
  BY GotoType DEF Known, TypeOK
<1>2. Goes(G, w, pc)
  <2>1. /\ G.pc = pc /\ G.got = {} /\ G.act = worker[w].act /\ G.lock = worker[w].lock
        /\ G.attempt = worker[w].attempt /\ G.state = CreatedRun /\ G.ending = worker[w].ending
    BY <1>1 DEF WorkerRecord, Goto
  <2>2. worker[w].attempt \in Nat
    BY <1>1 DEF WorkerRecord
  <2>3. Answered(worker[w].ending, Resumed)
    BY DEF Known, OnceInv, Remembers
  <2> HIDE DEF G
  <2> QED BY <2>1, <2>2, <2>3 DEF Goes
<1>3. worker[w].attempt \in Nat /\ G.attempt \in Nat
  BY <1>1 DEF WorkerRecord
<1> HIDE DEF G
<1>4. Goes([G EXCEPT !.attempt = @ + 1], w, pc)
  <2>1. [G EXCEPT !.attempt = @ + 1].attempt = G.attempt + 1
    BY <1>1 DEF WorkerRecord
  <2> QED BY <1>1, <1>2, <1>3, <2>1 DEF Goes, WorkerRecord
<1> QED BY <1>1, <1>2, <1>4 DEF Goes, WorkerRecord, G

\* It goes on with an activation the run waits for ...
LEMMA GoesOn ==
  ASSUME Known, NEW w \in Workers, Busy(worker[w]), Pends(run, worker[w].act),
         worker[w].pc \in Working \cup {"handle"},
         NEW pc \in {"clear", "mark", "exec", "suspend", "result", "error"}, NEW rec, Goes(rec, w, pc),
         Becomes(w, rec), pc = "suspend" => ApprovalNodes # {}, rec.attempt \in Nat,
         Alike(run', run), run' = run \/ WaitsForOne(run', Resumed),
         UNCHANGED <<jobs, starter, resumer, acts, tasks, won>>
  PROVE  OnceInv' /\ Keeps
<1>1. worker[w].act \in Acts /\ jobs[worker[w].act] = "active"
  BY Position
<1>2. Fresh(rec, run)
  BY DEF Goes, Fresh
<1>3. rec.attempt >= 1
  <2>1. worker[w].attempt \in Nat /\ worker[w].attempt >= 1
    BY DEF Known, TypeOK, WorkerRecord, OnceInv, Placed
  <2>2. rec.attempt >= worker[w].attempt
    BY DEF Goes, Working
  <2> QED BY <2>1, <2>2
<1>4. Placed(rec, run, jobs) /\ ~Moving(rec)
  BY <1>1, <1>3 DEF Goes, Placed, Moving
<1>5. run' = run \/ (run.status = "pending" /\ WaitsForOne(run', Resumed))
  BY DEF Pends
<1> QED BY <1>2, <1>4, <1>5, StaysFrame, CreatedAnswered DEF Goes

\* ... and acknowledges one that the run has left.
LEMMA ReturnGoes ==
  ASSUME TypeOK, NEW w \in Workers, Return(w)
  PROVE  \E rec : Becomes(w, rec) /\ Goes(rec, w, "ack")
<1> DEFINE rec == [IdleWorker EXCEPT !.pc = "ack", !.act = worker[w].act, !.lock = worker[w].lock]
<1>1. Goes(rec, w, "ack")
  BY CreatedAnswered DEF IdleWorker, Goes, Working
<1>2. Becomes(w, rec)
  BY DEF Return
<1> HIDE DEF rec
<1> QED BY <1>1, <1>2

\* The handler that acknowledges is where it should be.
LEMMA AckPlaced ==
  ASSUME NEW w \in Workers, NEW rec, Goes(rec, w, "ack"), NEW r, NEW j,
         worker[w].act \in Acts, j[worker[w].act] = "active", ~Pends(r, worker[w].act)
  PROVE  Fresh(rec, r) /\ Placed(rec, r, j) /\ Remembers(rec, Resumed) /\ ~Moving(rec) /\ Busy(rec)
BY CreatedAnswered DEF Goes, Fresh, Placed, Moving, Busy, Working

\* A handler that returns without having saved anything.
LEMMA Returns ==
  ASSUME Known, NEW w \in Workers, Busy(worker[w]), ~Pends(run, worker[w].act), Return(w),
         UNCHANGED <<run, jobs, starter, resumer, acts, tasks, won>>
  PROVE  OnceInv' /\ Keeps
<1>1. PICK rec : Becomes(w, rec) /\ Goes(rec, w, "ack")
  BY ReturnGoes DEF Known
<1>2. Fresh(rec, run) /\ Placed(rec, run, jobs) /\ Remembers(rec, Resumed) /\ ~Moving(rec)
  BY <1>1, Position, AckPlaced
<1>3. Alike(run', run)
  BY DEF Alike
<1> QED BY <1>1, <1>2, <1>3, StaysFrame DEF Goes

\* What the terminal record of a run says.
LEMMA MergeTerminalFields ==
  ASSUME NEW state \in RunRecord, NEW status, NEW queue, NEW count
  PROVE  LET r == MergeTerminal(state, status, queue, count)
         IN  /\ r.status = status /\ r.pending = NoPending /\ r.queue = queue /\ r.count = count
             /\ r.susp = state.susp /\ r.resume = state.resume
BY DEF MergeTerminal, RunRecord

\* A handler that ends the run.
LEMMA EndRunOnce ==
  ASSUME Known, NEW w \in Workers, HasRead(w), IsPending(w), worker[w].pc \in {"result", "error"},
         NEW status \in Terminal, NEW queue \in Seq(Nodes), NEW count \in Nat,
         EndRun(w, worker[w].state, status, queue, count),
         count = worker[w].state.count \/ count = worker[w].state.count + 1,
         status = "completed" => count = worker[w].state.count + 1,
         status = "halted" => count = worker[w].state.count
  PROVE  OnceInv' /\ Ends
<1> DEFINE W == worker[w]
           desired == MergeTerminal(W.state, status, queue, count)
<1>1. TypeOK /\ W \in WorkerRecord /\ W.state \in RunRecord
  BY DEF Known, TypeOK, WorkerRecord
<1>2. Busy(W) /\ Pends(run, W.act) /\ W.state.count = run.count /\ W.state.status = "pending"
  BY Reading DEF Busy, Alike, IsPending
<1>3. W.act \in Acts /\ jobs[W.act] = "active"
  BY <1>2, Position
<1>4. desired \in RunRecord /\ desired.status = status /\ desired.pending = NoPending
      /\ desired.count = count /\ desired.susp = W.state.susp
  BY <1>1, MergeTerminalType, MergeTerminalFields
<1>5. PICK keys : run' = Saved(desired, keys)
  BY DEF EndRun
<1> HIDE DEF desired
<1>6. run'.status = status /\ run'.pending = NoPending /\ run'.count = count
  BY <1>1, <1>4, <1>5, SavedAlike DEF Alike
<1>7. status \notin {"pending", "suspended"} /\ NoPending.act = 0
  BY DEF Terminal, NoPending
<1>8. PICK rec : Becomes(w, rec) /\ Goes(rec, w, "ack")
  BY <1>1, ReturnGoes DEF EndRun
<1>9. \A b : ~Pends(run', b)
  BY <1>6, <1>7 DEF Pends
<1>10. UNCHANGED <<jobs, starter, resumer, tasks, acts>> /\ won' = [won EXCEPT ![W.act] = @ + 1]
  BY DEF EndRun, Continued
<1>11. Fresh(rec, run') /\ Placed(rec, run', jobs') /\ Remembers(rec, Resumed) /\ Busy(rec)
  BY <1>3, <1>8, <1>9, <1>10, AckPlaced
<1>12. acts' \in Nat /\ acts <= acts'
  BY <1>1, <1>10 DEF TypeOK
<1>13. WaitsForOne(run', Resumed)
  <2>1. Answered(desired, Resumed)
    BY <1>2, <1>4 DEF Known, OnceInv, Remembers, Answered
  <2> QED BY <1>2, <1>4, <1>5, <1>7, <2>1, SavedAnswered DEF Pends
<1>14. OnceInv'
  BY <1>2, <1>3, <1>6, <1>7, <1>8, <1>9, <1>10, <1>11, <1>12, <1>13, LeavesFrame DEF Goes
<1>15. Ends
  BY <1>2, <1>6, <1>10 DEF Ends, Pends
<1> QED BY <1>14, <1>15

\* A handler that saves the next step and has its dispatch before it.
LEMMA EnqueuesOnce ==
  ASSUME Known, NEW w \in Workers, ResultEnqueues(w)
  PROVE  OnceInv' /\ Moves
<1> DEFINE W == worker[w]
           s == IF W.out = "items" THEN Succ[W.node] ELSE <<>>
           node == Head(Planned(w))
           queue == Tail(Planned(w))
           ending == MergeTerminal(W.state, "failed", queue, Count(w))
           desired == Enqueued(acts + 1, node, queue, Count(w), {}, NoResume)
<1>1. TypeOK /\ W \in WorkerRecord /\ W.state \in RunRecord /\ W.node \in Nodes /\ acts \in Nat
      /\ worker \in [Workers -> WorkerRecord] /\ run \in RunRecord
  BY DEF Known, TypeOK, WorkerRecord
<1>2. Busy(W) /\ HasRead(w) /\ IsPending(w) /\ W.pc = "result" /\ W.state.status = "pending"
  BY DEF ResultEnqueues, InResult, Busy, IsPending
<1>3. Pends(run, W.act) /\ Count(w) = run.count + 1 /\ W.sched.queue = run.queue
  <2>1. Pends(run, W.act)
    BY <1>2, Reading
  <2>2. Alike(W.state, run) /\ W.sched = Sched(run)
    BY <1>2, <2>1, Reading
  <2> QED BY <2>1, <2>2 DEF Alike, Sched, Count
<1>4. W.act \in Acts /\ jobs[W.act] = "active" /\ W.act <= acts
  BY <1>2, Position
<1>5. node \in Nodes /\ queue \in Seq(Nodes) /\ Count(w) \in Nat /\ Planned(w) # <<>>
  BY <1>1, PlannedType DEF ResultEnqueues
<1>6. s \in Seq(Nodes) /\ Planned(w) = run.queue \o s
  BY <1>1, <1>3, GraphAssumption DEF Planned
<1>7. acts + 1 \in Acts /\ acts' = acts + 1
  BY <1>1, LimitAssumption DEF ResultEnqueues, MakeActivation, Acts
<1>8. desired \in RunRecord
  <2>1. NoResume \in Resumes /\ {} \in SUBSET Suspensions /\ acts + 1 \in 0..MaxActs
    BY <1>7, LimitAssumption DEF NoResume, Resumes, Verdicts, Acts
  <2> QED BY <1>5, <2>1, EnqueuedType
<1>9. /\ desired.status = "pending" /\ desired.pending = [act |-> acts + 1, node |-> node]
      /\ desired.queue = queue /\ desired.count = Count(w) /\ desired.susp = {}
  BY DEF Enqueued
<1>10. ending.status = "failed" /\ ending.pending = NoPending /\ ending.count = Count(w)
       /\ Answered(ending, Resumed)
  <2>1. Answered(W.state, Resumed)
    BY DEF Known, OnceInv, Remembers
  <2> QED BY <1>1, <1>2, <2>1, MergeTerminalFields DEF Answered
<1>11. run' = Saved(desired, {}) /\ Count(w) < MaxNodeActivations
       /\ UNCHANGED <<jobs, starter, resumer, tasks>> /\ won' = [won EXCEPT ![W.act] = @ + 1]
  BY DEF ResultEnqueues, Continued
<1>12. Becomes(w, [Goto(w, "dispatch") EXCEPT !.next = acts + 1, !.ending = ending,
                                              !.keys = TerminalKeys(W.state)])
  BY DEF ResultEnqueues
<1>13. PICK rec : /\ Becomes(w, rec) /\ Goes(rec, w, "dispatch")
                  /\ rec.next = acts + 1 /\ rec.ending = ending
  <2> DEFINE G == Goto(w, "dispatch")
             rec == [G EXCEPT !.next = acts + 1, !.ending = ending, !.keys = TerminalKeys(W.state)]
  <2>1. Becomes(w, rec)
    BY <1>12
  <2>2. "dispatch" \in WorkerPc
    BY DEF WorkerPc
  <2>3. Goes(rec, w, "dispatch") /\ G \in WorkerRecord
    BY <1>1, <1>10, <2>2, GotoType, GotoGoes
  <2> HIDE DEF G, ending
  <2>4. rec.next = acts + 1 /\ rec.ending = ending
    BY <2>3 DEF WorkerRecord
  <2> HIDE DEF rec
  <2> QED BY <2>1, <2>3, <2>4
<1> HIDE DEF desired, ending, node, queue, s
<1>14. /\ run'.status = "pending" /\ run'.pending = [act |-> acts + 1, node |-> node]
       /\ run'.queue = queue /\ run'.count = Count(w)
  BY <1>1, <1>8, <1>9, <1>11, SavedAlike DEF Alike
<1>15. Pends(run', acts + 1) /\ \A b \in Acts : Pends(run', b) => b > acts
  BY <1>1, <1>14 DEF Pends
<1>16. Fresh(rec, run') /\ Busy(rec) /\ Remembers(rec, Resumed)
  BY <1>13, CreatedAnswered DEF Goes, Fresh, Busy
<1>17. jobs[acts + 1] = "none"
  BY <1>1, <1>7 DEF Known, ActivationsMatch
<1>18. Placed(rec, run', jobs')
  BY <1>4, <1>7, <1>10, <1>11, <1>13, <1>14, <1>15, <1>17 DEF Goes, Placed, Moving, Working
<1>19. acts' \in Nat /\ acts <= acts' /\ run'.status = "pending" /\ run'.pending.act # 0
  BY <1>1, <1>7, <1>14
<1>20. WaitsForOne(run', Resumed)
  BY <1>3, <1>8, <1>9, <1>11, SavedAnswered DEF Pends, Answered
<1>21. OnceInv'
  BY <1>2, <1>3, <1>4, <1>11, <1>13, <1>14, <1>15, <1>16, <1>18, <1>19, <1>20, LeavesFrame DEF Goes
<1>22. run.queue \o s # <<>> /\ run'.pending.node = Head(run.queue \o s)
       /\ run'.queue = Tail(run.queue \o s)
  BY <1>5, <1>6, <1>14 DEF node, queue
<1>23. run.status = "pending" /\ Awaits /\ run'.count = run.count + 1
       /\ run'.count < MaxNodeActivations
  BY <1>3, <1>7, <1>11, <1>14 DEF Awaits, Pends
<1>24. Moves
  BY <1>6, <1>22, <1>23, Zenon DEF Moves
<1> QED BY <1>21, <1>24

\* A handler whose dispatch was refused ends the run it has just moved.
LEMMA TerminateOnce ==
  ASSUME Known, NEW w \in Workers, SaveFailure(w)
  PROVE  OnceInv' /\ Ends
<1> DEFINE W == worker[w]
<1>1. TypeOK /\ W \in WorkerRecord /\ W.ending \in RunRecord /\ acts \in Nat
  BY DEF Known, TypeOK, WorkerRecord
<1>2. Busy(W) /\ Moving(W) /\ W.pc = "terminate"
  BY DEF SaveFailure, Known, OnceInv, Placed, Busy, Moving
<1>3. W.act \in Acts /\ jobs[W.act] = "active"
  BY <1>2, Position
<1>4. W.next \in Acts /\ Pends(run, W.next) /\ W.ending.status = "failed"
      /\ W.ending.pending = NoPending /\ W.ending.count = run.count
  BY <1>2 DEF Known, OnceInv, Placed
<1>5. run' = Saved(W.ending, W.keys)
  BY DEF SaveFailure
<1>6. run'.status = "failed" /\ run'.pending = NoPending /\ run'.count = run.count
  BY <1>1, <1>4, <1>5, SavedAlike DEF Alike
<1>7. WaitsForOne(run', Resumed)
  BY <1>1, <1>4, <1>5, SavedAnswered DEF Known, OnceInv, Remembers, Pends
<1>8. \A b : ~Pends(run', b)
  BY <1>6 DEF Pends
<1>9. UNCHANGED <<jobs, starter, resumer, tasks, acts>> /\ won' = won
  BY <1>2 DEF SaveFailure
<1>10. PICK rec : Becomes(w, rec) /\ Goes(rec, w, "ack")
  BY <1>1, ReturnGoes DEF SaveFailure
<1>11. Fresh(rec, run') /\ Placed(rec, run', jobs') /\ Remembers(rec, Resumed) /\ Busy(rec)
  BY <1>3, <1>8, <1>9, <1>10, AckPlaced
<1>12. run'.status \notin {"pending", "suspended"} /\ run'.pending.act = 0
  BY <1>6 DEF NoPending
<1>13. acts' \in Nat /\ acts <= acts'
  BY <1>1, <1>9
<1>14. OnceInv'
  BY <1>2, <1>4, <1>7, <1>8, <1>9, <1>10, <1>11, <1>12, <1>13, LeavesFrame DEF Goes
<1>15. Ends
  BY <1>4, <1>6, <1>9 DEF Ends, Pends, Terminal
<1> QED BY <1>14, <1>15

\* An approval node's handler that saves the run as suspended, and does not try again.
LEMMA SuspendsOnce ==
  ASSUME Undisturbed, Known, NEW w \in Workers, SuspendSave(w)
  PROVE  OnceInv' /\ Suspends
<1> DEFINE W == worker[w]
           entry == [task |-> W.task, node |-> W.node, act |-> W.act]
           desired == [W.state EXCEPT !.status = "suspended", !.susp = @ \cup {entry}]
           keys == LoadedKeys(W.state) \cup {"susp"}
<1>1. TypeOK /\ W \in WorkerRecord /\ W.state \in RunRecord /\ acts \in Nat /\ run \in RunRecord
      /\ W.attempt \in Nat
  BY DEF Known, TypeOK, WorkerRecord
<1>2. Busy(W) /\ Pends(run, W.act) /\ Alike(W.state, run) /\ ApprovalNodes # {} /\ W.attempt >= 1
  BY DEF SuspendSave, Known, OnceInv, Placed, Fresh, Busy, Working
<1>3. W.act \in Acts /\ jobs[W.act] = "active"
  BY <1>2, Position
<1>4. desired \in RunRecord
  <2>1. entry \in Suspensions
    BY <1>1 DEF Suspensions, WorkerRecord
  <2> QED BY <1>1, <2>1, HitlUpdates
<1>5. /\ desired.status = "suspended" /\ desired.pending = W.state.pending
      /\ desired.queue = W.state.queue /\ desired.count = W.state.count
      /\ desired.susp = W.state.susp \cup {entry}
  BY <1>1 DEF RunRecord
<1>6. run' = Saved(desired, keys) /\ "susp" \in keys
  BY DEF SuspendSave
<1>7. run'.susp = desired.susp
  <2>1. Merge(run, desired, keys).susp = desired.susp
    BY <1>4, <1>6 DEF Merge, RunRecord
  <2>2. Merge(run, desired, keys) \in RunRecord
    BY <1>1, <1>4, MergeType
  <2> HIDE DEF desired, keys
  <2> QED BY <1>4, <1>6, <2>1, <2>2 DEF Saved, RunRecord
<1>8. ~(W.attempt < MaxAttempts)
  BY <1>1, <1>2 DEF Undisturbed
<1>9. UNCHANGED <<jobs, starter, resumer, acts, tasks, won>> /\ Return(w)
  BY <1>8 DEF SuspendSave
<1> HIDE DEF desired, keys
<1>10. /\ run'.status = "suspended" /\ run'.pending = run.pending
       /\ run'.queue = run.queue /\ run'.count = run.count
  BY <1>1, <1>2, <1>4, <1>5, <1>6, SavedAlike DEF Alike
<1>11. WaitsForOne(run', Resumed)
  <2>1. \A s \in W.state.susp : s.task \in Resumed
    BY <1>2 DEF Known, OnceInv, Remembers, Answered, Alike, Pends
  <2> QED BY <1>5, <1>7, <1>10, <2>1 DEF WaitsForOne, Answered
<1>12. PICK rec : Becomes(w, rec) /\ Goes(rec, w, "ack")
  BY <1>1, <1>9, ReturnGoes
<1>13. \A b : ~Pends(run', b)
  BY <1>10 DEF Pends
<1>14. Fresh(rec, run') /\ Placed(rec, run', jobs') /\ Remembers(rec, Resumed) /\ Busy(rec)
  BY <1>3, <1>9, <1>12, <1>13, AckPlaced
<1>15. run'.status \in {"pending", "suspended"} <=> run'.pending.act # 0
  BY <1>2, <1>10 DEF Known, OnceInv, Pends
<1>16. acts' \in Nat /\ acts <= acts'
  BY <1>1, <1>9
<1>17. OnceInv'
  BY <1>2, <1>3, <1>9, <1>11, <1>12, <1>13, <1>14, <1>15, <1>16, LeavesFrame DEF Goes
<1>18. Suspends
  BY <1>2, <1>9, <1>10 DEF Suspends, Pends
<1> QED BY <1>17, <1>18

\* A processor that is done with its job, or dies, leaves it to nobody who has it.
LEMMA LeavesJob ==
  ASSUME Known, NEW w \in Workers, Busy(worker[w]), Becomes(w, IdleWorker),
         NEW job, jobs' = [jobs EXCEPT ![worker[w].act] = job],
         job = "waiting" => "crash" \in FaultKinds,
         UNCHANGED <<run, starter, resumer, acts, tasks, won>>
  PROVE  OnceInv' /\ Keeps
<1> DEFINE a == worker[w].act
<1>1. a \in Acts /\ jobs[a] = "active"
  BY Position
<1>2. ASSUME NEW v \in Workers \ {w}
      PROVE  /\ Busy(worker[v]) => worker[v].act # a
             /\ Moving(worker[v]) => worker[v].next # a
  BY <1>1 DEF Known, OnceInv, Apart, Placed
<1>3. starter = "dispatch" => a # 1
  BY <1>1 DEF Known, OnceInv, Starting
<1>4. \A r \in Resumers : resumer[r].pc = "dispatch" => resumer[r].next # a
  BY <1>1 DEF Known, OnceInv, Called
<1>5. Fresh(IdleWorker, run) /\ Placed(IdleWorker, run, jobs') /\ ~Moving(IdleWorker)
      /\ ~Busy(IdleWorker) /\ Remembers(IdleWorker, Resumed)
  BY CreatedAnswered DEF IdleWorker, Fresh, Placed, Moving, Busy, Working, Remembers
<1> HIDE DEF a
<1>6. Becomes(w, IdleWorker) /\ jobs' = [jobs EXCEPT ![a] = job]
  BY DEF a
<1> QED BY <1>1, <1>2, <1>3, <1>4, <1>5, <1>6, JobFrame

-----------------------------------------------------------------------------
(* Every step. *)

\* BullMQ hands over the job of an activation that nobody works for.
LEMMA ReceiveOnce ==
  ASSUME Known, NEW w \in Workers, NEW a \in Acts, Receive(w, a)
  PROVE  OnceInv' /\ Keeps
<1>1. TypeOK
  BY DEF Known
<1>2. PICK rec : /\ Becomes(w, rec) /\ rec.pc = "handle" /\ rec.act = a /\ rec.got = {}
                 /\ rec.attempt = 1 /\ rec.state = CreatedRun /\ rec.ending = CreatedRun
  <2> DEFINE new == [IdleWorker EXCEPT !.pc = "handle", !.act = a, !.node = nodeOf[a],
                                       !.lock = TRUE, !.attempt = 1]
  <2>1. /\ new.pc = "handle" /\ new.act = a /\ new.got = {} /\ new.attempt = 1
        /\ new.state = CreatedRun /\ new.ending = CreatedRun
    BY DEF IdleWorker
  <2>2. Becomes(w, new)
    BY DEF Receive
  <2> HIDE DEF new
  <2> QED BY <2>1, <2>2
<1>3. /\ UNCHANGED <<run, starter, resumer, acts, tasks, won>>
      /\ jobs' = [jobs EXCEPT ![a] = "active"] /\ jobs[a] = "waiting"
  BY DEF Receive
<1>4. Fresh(rec, run) /\ ~Moving(rec) /\ Remembers(rec, Resumed)
  BY <1>2, CreatedAnswered DEF Fresh, Moving, Remembers
<1>5. jobs'[a] = "active" /\ ("crash" \notin FaultKinds => Pends(run, a))
  BY <1>1, <1>3 DEF TypeOK, Known, OnceInv, Queued
<1>6. Placed(rec, run, jobs')
  BY <1>2, <1>5 DEF Placed, Moving, Working
<1>7. \A v \in Workers \ {w} : /\ Busy(worker[v]) => worker[v].act # a
                               /\ Moving(worker[v]) => worker[v].next # a
  BY <1>3 DEF Known, OnceInv, Placed
<1>8. starter = "dispatch" => a # 1
  BY <1>3 DEF Known, OnceInv, Starting
<1>9. \A r \in Resumers : resumer[r].pc = "dispatch" => resumer[r].next # a
  BY <1>3 DEF Known, OnceInv, Called
<1>10. /\ Becomes(w, rec)
       /\ Busy(rec) => rec.act = a \/ (Busy(worker[w]) /\ rec.act = worker[w].act)
  BY <1>2
<1> QED BY <1>3, <1>4, <1>6, <1>7, <1>8, <1>9, <1>10, JobFrame

\* A handler reads: together with what it has read before, it is not deceived.
LEMMA ReadOnce ==
  ASSUME Undisturbed, Known, NEW w \in Workers, NEW parts, Read(w, parts)
  PROVE  OnceInv' /\ Keeps
<1> DEFINE W == worker[w]
           rec == [W EXCEPT !.got = @ \cup parts, !.state = IF "state" \in parts THEN run ELSE @,
                            !.sched = IF "sched" \in parts THEN Sched(run) ELSE @]
<1>1. W \in WorkerRecord /\ TypeOK
  BY DEF Known, TypeOK
<1>2. /\ rec.pc = W.pc /\ rec.act = W.act /\ rec.lock = W.lock /\ rec.next = W.next
      /\ rec.ending = W.ending /\ rec.got = W.got \cup parts /\ rec.attempt = W.attempt
      /\ rec.state = IF "state" \in parts THEN run ELSE W.state
      /\ rec.sched = IF "sched" \in parts THEN Sched(run) ELSE W.sched
  BY <1>1 DEF WorkerRecord
<1>3. /\ Becomes(w, rec) /\ parts # {} /\ parts \subseteq {"state", "sched"}
      /\ parts \cap W.got = {} /\ (Store = "memory" => parts = Reads(W.pc))
      /\ W.pc \in {"handle", "clear", "mark", "suspend", "result", "error"}
      /\ UNCHANGED <<run, jobs, starter, resumer, acts, tasks, won>>
  BY DEF Read, Reads
<1> HIDE DEF rec
<1>4. Fresh(W, run) /\ Placed(W, run, jobs) /\ Busy(W) /\ W.act # 0
  BY <1>3, Position, LimitAssumption DEF Known, OnceInv, Busy, Acts
<1>5. Placed(rec, run, jobs) /\ (Moving(rec) => Moving(W))
  BY <1>2, <1>4 DEF Placed, Moving, Busy
<1>6. Remembers(rec, Resumed)
  BY <1>2 DEF Known, OnceInv, Remembers, WaitsForOne
<1>7. ASSUME "sched" \in rec.got, rec.sched.pending.act = W.act,
             "state" \in rec.got => rec.state.status = "pending"
      PROVE  Pends(run, W.act)
  <2>1. CASE W.pc # "handle" \/ "crash" \notin FaultKinds
    BY <1>3, <1>4, <2>1 DEF Placed, Working
  <2>2. CASE W.pc = "handle" /\ Store = "memory"
    <3>1. parts = {"state", "sched"}
      BY <1>3, <2>2 DEF Reads
    <3> QED BY <1>2, <1>7, <3>1 DEF Sched, Pends
  <2>3. CASE ApprovalNodes = {}
    <3>1. run.pending.act = W.act => Pends(run, W.act)
      BY <1>4, <2>3 DEF Known, OnceInv, NoTasks, Pends
    <3>2. CASE "sched" \in parts
      BY <1>2, <1>7, <3>1, <3>2 DEF Sched
    <3>3. CASE "sched" \notin parts
      <4>1. "state" \in parts /\ "sched" \in W.got /\ "state" \notin W.got
        BY <1>2, <1>3, <1>7, <3>3
      <4> QED BY <1>2, <1>4, <1>7, <3>3, <4>1 DEF Fresh
    <3> QED BY <3>2, <3>3
  <2> QED BY <2>1, <2>2, <2>3 DEF Undisturbed
<1>8. Alike(run, run)
  BY DEF Alike
<1>9. Fresh(rec, run)
  BY <1>2, <1>3, <1>4, <1>7, <1>8 DEF Fresh
<1> QED BY <1>2, <1>3, <1>4, <1>5, <1>6, <1>8, <1>9, StaysFrame

\* A handler asks the human; it has the run it will save.
LEMMA DeliverOnce ==
  ASSUME Known, NEW w \in Workers, Deliver(w)
  PROVE  OnceInv' /\ Keeps
<1> DEFINE W == worker[w]
           rec == [W EXCEPT !.pc = "suspendSave", !.task = tasks + 1]
<1>1. W \in WorkerRecord
  BY DEF Known, TypeOK
<1>2. /\ rec.pc = "suspendSave" /\ rec.act = W.act /\ rec.got = W.got /\ rec.state = W.state
      /\ rec.sched = W.sched /\ rec.ending = W.ending /\ rec.attempt = W.attempt
  BY <1>1 DEF WorkerRecord
<1>3. Becomes(w, rec) /\ UNCHANGED <<run, jobs, starter, resumer, acts, won>>
      /\ W.pc = "suspend" /\ W.got = {"state"}
  BY DEF Deliver, HasRead, Reads
<1> HIDE DEF rec
<1>4. Fresh(W, run) /\ Placed(W, run, jobs) /\ Busy(W) /\ ApprovalNodes # {}
  BY <1>3 DEF Known, OnceInv, Busy, Placed
<1>5. Alike(W.state, run) /\ Pends(run, W.act)
  BY <1>3, <1>4 DEF Fresh, Placed, Working
<1>6. Fresh(rec, run) /\ Placed(rec, run, jobs) /\ ~Moving(rec)
  BY <1>2, <1>3, <1>4, <1>5 DEF Fresh, Placed, Moving, Working, Busy
<1>7. Remembers(rec, Resumed)
  BY <1>2 DEF Known, OnceInv, Remembers
<1>8. Alike(run', run)
  BY <1>3 DEF Alike
<1> QED BY <1>2, <1>3, <1>4, <1>6, <1>7, <1>8, StaysFrame

\* Every step of a processor keeps the invariant and does to the record what Effect says; the
\* one that moves the run to another activation is ResultEnqueues.
LEMMA WorkerStepOnce ==
  ASSUME Undisturbed, Known, NEW w \in Workers, WorkerStep(w)
  PROVE  OnceInv' /\ (Keeps \/ Ends \/ Suspends \/ (Moves /\ ResultEnqueues(w)))
<1> DEFINE W == worker[w]
           Same == UNCHANGED <<jobs, starter, resumer, acts, tasks, won>>
           Does == Keeps \/ Ends \/ Suspends \/ (Moves /\ ResultEnqueues(w))
<1>1. /\ TypeOK /\ run \in RunRecord /\ worker \in [Workers -> WorkerRecord]
      /\ W \in WorkerRecord /\ W.state \in RunRecord /\ W.state.count \in Nat
      /\ W.sched.queue \in Seq(Nodes)
  BY DEF Known, TypeOK, WorkerRecord, RunRecord, SchedulingState
<1>2. Fresh(W, run) /\ Placed(W, run, jobs) /\ Remembers(W, Resumed)
  BY DEF Known, OnceInv
<1>3. ASSUME W.pc \in Working PROVE Busy(W) /\ Pends(run, W.act)
  BY <1>2, <1>3 DEF Placed, Working, Busy
<1>4. Alike(run, run) /\ {"mark", "clear", "exec", "error", "result", "suspend"} \subseteq WorkerPc
  BY DEF Alike, WorkerPc
<1>5. ASSUME Same, Busy(W), Pends(run, W.act), W.pc \in Working \cup {"handle"},
             Alike(run', run), run' = run \/ WaitsForOne(run', Resumed),
             NEW pc \in {"clear", "mark", "exec", "suspend", "result", "error"},
             pc = "suspend" => ApprovalNodes # {},
             \/ Becomes(w, Goto(w, pc))
             \/ \E ctx : Becomes(w, [Goto(w, pc) EXCEPT !.ctx = ctx])
             \/ \E out : Becomes(w, [Goto(w, pc) EXCEPT !.out = out])
             \/ Becomes(w, [Goto(w, pc) EXCEPT !.attempt = @ + 1])
             \/ Becomes(w, [Goto(w, pc) EXCEPT !.reported = TRUE])
      PROVE  OnceInv' /\ Does
  <2> DEFINE G == Goto(w, pc)
  <2>1. G \in WorkerRecord
    BY <1>1, <1>4, GotoType
  <2>2. /\ Goes(G, w, pc)
        /\ \A ctx : Goes([G EXCEPT !.ctx = ctx], w, pc)
        /\ \A out : Goes([G EXCEPT !.out = out], w, pc)
        /\ Goes([G EXCEPT !.attempt = @ + 1], w, pc)
        /\ Goes([G EXCEPT !.reported = TRUE], w, pc)
    BY <1>4, GotoGoes
  <2>3. /\ \/ Becomes(w, G)
           \/ \E ctx : Becomes(w, [G EXCEPT !.ctx = ctx])
           \/ \E out : Becomes(w, [G EXCEPT !.out = out])
           \/ Becomes(w, [G EXCEPT !.attempt = @ + 1])
           \/ Becomes(w, [G EXCEPT !.reported = TRUE])
    BY <1>5
  <2> HIDE DEF G
  <2>4. PICK rec : Becomes(w, rec) /\ Goes(rec, w, pc) /\ rec.attempt \in Nat
    <3>1. /\ G.attempt \in Nat
          /\ \A ctx : [G EXCEPT !.ctx = ctx].attempt = G.attempt
          /\ \A out : [G EXCEPT !.out = out].attempt = G.attempt
          /\ [G EXCEPT !.attempt = @ + 1].attempt \in Nat
          /\ [G EXCEPT !.reported = TRUE].attempt = G.attempt
      BY <2>1 DEF WorkerRecord
    <3> QED BY <2>2, <2>3, <3>1
  <2>5. OnceInv' /\ Keeps
    BY <1>5, <2>4, GoesOn
  <2> QED BY <2>5
<1>6. ASSUME Same, Busy(W), ~Pends(run, W.act), run' = run, Return(w)
      PROVE  OnceInv' /\ Does
  BY <1>6, Returns
<1>7. ASSUME NEW a \in Acts, Receive(w, a) PROVE OnceInv' /\ Does
  BY <1>7, ReceiveOnce
<1>8. ASSUME NEW parts, Read(w, parts) PROVE OnceInv' /\ Does
  BY <1>8, ReadOnce
<1>9. ASSUME HandleIgnored(w) PROVE OnceInv' /\ Does
  BY <1>6, <1>9, Reading DEF HandleIgnored, Busy
<1>10. ASSUME Handle(w) PROVE OnceInv' /\ Does
  <2>1. Busy(W) /\ Pends(run, W.act) /\ W.pc = "handle"
    BY <1>10, Reading DEF Handle, Busy
  <2>2. PICK pc \in {"mark", "clear"} : \E ctx : Becomes(w, [Goto(w, pc) EXCEPT !.ctx = ctx])
    BY <1>10 DEF Handle
  <2>3. Same /\ run' = run
    BY <1>10 DEF Handle
  <2> QED BY <1>4, <1>5, <2>1, <2>2, <2>3
<1>11. ASSUME NEW r \in RunRecord, Alike(r, run), Answered(r, Resumed), run.status = "pending",
              NEW keys, run' = Saved(r, keys)
       PROVE  Alike(run', run) /\ WaitsForOne(run', Resumed)
  <2>1. r.status # "suspended"
    BY <1>11 DEF Alike
  <2> QED BY <1>1, <1>11, <2>1, SavedAlike, SavedAnswered DEF Alike
<1>12. ASSUME ClearResume(w) PROVE OnceInv' /\ Does
  <2>1. Busy(W) /\ Pends(run, W.act) /\ W.got = {"state"} /\ W.pc \in Working
    BY <1>3, <1>12 DEF ClearResume, HasRead, Reads, Working
  <2>2. Alike(W.state, run) /\ run.status = "pending"
    BY <1>2, <2>1 DEF Fresh, Pends
  <2>3. /\ [W.state EXCEPT !.resume = NoResume] \in RunRecord
        /\ Alike([W.state EXCEPT !.resume = NoResume], run)
        /\ Answered([W.state EXCEPT !.resume = NoResume], Resumed)
    BY <1>1, <1>2, <2>2, HitlUpdates DEF Alike, RunRecord, Answered, Remembers
  <2>4. Alike(run', run) /\ (run' = run \/ WaitsForOne(run', Resumed))
    BY <1>4, <1>11, <1>12, <2>2, <2>3 DEF ClearResume
  <2>5. Same /\ Becomes(w, Goto(w, "mark"))
    BY <1>12 DEF ClearResume
  <2> QED BY <1>5, <2>1, <2>4, <2>5
<1>13. ASSUME MarkNodeRunning(w) PROVE OnceInv' /\ Does
  <2>1. Busy(W) /\ Pends(run, W.act) /\ W.pc \in Working
    BY <1>3, <1>13 DEF MarkNodeRunning, Working
  <2>2. Alike(W.state, run) /\ run.status = "pending" /\ Answered(W.state, Resumed)
    BY <1>2, <1>13, <2>1, Reading DEF MarkNodeRunning, Pends, Remembers
  <2>3. Alike(run', run) /\ (run' = run \/ WaitsForOne(run', Resumed))
    BY <1>1, <1>4, <1>11, <1>13, <2>2 DEF MarkNodeRunning
  <2>4. Same /\ Becomes(w, Goto(w, "exec"))
    BY <1>13 DEF MarkNodeRunning
  <2> QED BY <1>5, <2>1, <2>3, <2>4
<1>14. ASSUME ReportLoad(w) PROVE OnceInv' /\ Does
  <2> DEFINE rec == [W EXCEPT !.pc = "report", !.state = run]
  <2>1. rec.pc = "report" /\ rec.act = W.act /\ rec.got = W.got /\ rec.state = run
        /\ rec.attempt = W.attempt /\ rec.ending = W.ending
    BY <1>1 DEF WorkerRecord
  <2>2. Becomes(w, rec) /\ Same /\ UNCHANGED <<run, jobs>> /\ W.pc = "exec"
    BY <1>14 DEF ReportLoad
  <2> HIDE DEF rec
  <2>3. Busy(W) /\ Pends(run, W.act) /\ W.got = {}
    BY <1>2, <1>3, <2>2 DEF Fresh, Working
  <2>4. Fresh(rec, run) /\ Placed(rec, run, jobs) /\ ~Moving(rec)
    BY <1>2, <1>4, <2>1, <2>2, <2>3, Position DEF Fresh, Placed, Moving, Working
  <2>5. Remembers(rec, Resumed)
    BY <1>2, <2>1 DEF Known, OnceInv, WaitsForOne, Remembers
  <2> QED BY <1>4, <2>1, <2>2, <2>3, <2>4, <2>5, StaysFrame
<1>15. ASSUME ReportSave(w) PROVE OnceInv' /\ Does
  <2>1. Busy(W) /\ Pends(run, W.act) /\ Alike(W.state, run) /\ W.pc \in Working
    BY <1>2, <1>3, <1>15 DEF ReportSave, Fresh, Working
  <2>2. Answered(W.state, Resumed) /\ run.status = "pending"
    BY <1>2, <2>1 DEF Remembers, Pends
  <2>3. Alike(run', run) /\ WaitsForOne(run', Resumed)
    BY <1>1, <1>11, <1>15, <2>1, <2>2 DEF ReportSave
  <2>4. Same /\ Becomes(w, [Goto(w, "exec") EXCEPT !.reported = TRUE])
    BY <1>15 DEF ReportSave
  <2> QED BY <1>5, <2>1, <2>3, <2>4
<1>16. ASSUME ExecuteReturns(w) PROVE OnceInv' /\ Does
  <2>1. Same /\ run' = run /\ W.pc = "exec" /\ \E out : Becomes(w, [Goto(w, "result") EXCEPT !.out = out])
    BY <1>16 DEF ExecuteReturns
  <2> QED BY <1>3, <1>4, <1>5, <2>1 DEF Working
<1>17. ASSUME ExecuteThrows(w) PROVE OnceInv' /\ Does
  <2>1. W.pc \in Working
    BY <1>17 DEF ExecuteThrows, Working
  <2>2. Same /\ run' = run
    BY <1>17 DEF ExecuteThrows
  <2>3. \/ Becomes(w, [Goto(w, "exec") EXCEPT !.attempt = @ + 1])
        \/ Becomes(w, Goto(w, "error"))
    BY <1>17 DEF ExecuteThrows, RetryOr
  <2> QED BY <1>3, <1>4, <1>5, <2>1, <2>2, <2>3
<1>18. ASSUME ExecuteSuspends(w) PROVE OnceInv' /\ Does
  <2>1. /\ Same /\ run' = run /\ W.pc = "exec" /\ ApprovalNodes # {}
        /\ Becomes(w, Goto(w, "suspend"))
    BY <1>18 DEF ExecuteSuspends
  <2> QED BY <1>3, <1>4, <1>5, <2>1 DEF Working
<1>19. ASSUME W.pc \in {"result", "error"}, HasRead(w) PROVE IsPending(w)
  BY <1>3, <1>19, Reading DEF Working
<1>20. ~ResultIgnored(w) /\ ~ErrorIgnored(w)
  BY <1>19 DEF ResultIgnored, ErrorIgnored
<1>21. /\ {"completed", "failed", "halted"} \subseteq Terminal /\ <<>> \in Seq(Nodes)
       /\ Planned(w) # <<>> => Tail(Planned(w)) \in Seq(Nodes)
       /\ Count(w) \in Nat /\ Count(w) = W.state.count + 1
  BY <1>1, PlannedType DEF Terminal, Count
<1>22. ASSUME ResultHalts(w) PROVE OnceInv' /\ Does
  BY <1>1, <1>21, <1>22, EndRunOnce DEF ResultHalts, InResult
<1>23. ASSUME ResultCompletes(w) PROVE OnceInv' /\ Does
  BY <1>1, <1>21, <1>23, EndRunOnce DEF ResultCompletes, InResult
<1>24. ASSUME ResultOverBudget(w) PROVE OnceInv' /\ Does
  BY <1>1, <1>21, <1>24, EndRunOnce DEF ResultOverBudget, InResult
<1>25. ASSUME ResultRejected(w) PROVE OnceInv' /\ Does
  BY <1>1, <1>21, <1>25, EndRunOnce DEF ResultRejected, InResult
<1>26. ASSUME ErrorFails(w) PROVE OnceInv' /\ Does
  BY <1>1, <1>21, <1>26, EndRunOnce DEF ErrorFails, InError
<1>27. ASSUME ErrorRecovers(w) PROVE OnceInv' /\ Does
  <2> DEFINE ending == MergeTerminal(W.state, "failed", W.sched.queue, W.state.count)
             G == Goto(w, "result")
  <2>1. PICK out : Becomes(w, [G EXCEPT !.out = out, !.recovering = TRUE,
                                 !.ending = ending, !.keys = TerminalKeys(W.state)])
    BY <1>27 DEF ErrorRecovers
  <2>2. Same /\ run' = run /\ W.pc = "error" /\ W.state.status = "pending"
    BY <1>27 DEF ErrorRecovers, InError, IsPending
  <2>3. Answered(ending, Resumed)
    BY <1>1, <1>2, <2>2, MergeTerminalFields DEF Answered, Remembers
  <2>4. G \in WorkerRecord
    BY <1>1, <1>4, GotoType
  <2> HIDE DEF ending
  <2> DEFINE rec == [G EXCEPT !.out = out, !.recovering = TRUE,
                              !.ending = ending, !.keys = TerminalKeys(W.state)]
  <2>5. Goes(rec, w, "result")
    BY <1>1, <1>4, <2>3, GotoGoes
  <2> HIDE DEF G
  <2>6. rec.attempt \in Nat /\ Becomes(w, rec)
    BY <2>1, <2>4 DEF WorkerRecord
  <2> HIDE DEF rec
  <2>7. Busy(W) /\ Pends(run, W.act) /\ W.pc \in Working
    BY <1>3, <2>2 DEF Working
  <2>8. OnceInv' /\ Keeps
    BY <1>4, <2>2, <2>5, <2>6, <2>7, GoesOn
  <2> QED BY <2>8
<1>28. ASSUME Dispatch(w) PROVE OnceInv' /\ Does
  <2>1. Busy(W) /\ Moving(W)
    BY <1>28 DEF Dispatch, Busy, Moving
  <2>2. W.next \in Acts /\ jobs[W.next] = "none" /\ Pends(run, W.next)
    BY <1>2, <2>1 DEF Placed
  <2>3. W.act \in Acts /\ jobs[W.act] = "active" /\ W.act # W.next
    BY <2>1, <2>2, Position
  <2>4. PICK rec : Becomes(w, rec) /\ Goes(rec, w, "ack")
    BY <1>1, <1>28, ReturnGoes DEF Dispatch
  <2>5. UNCHANGED <<run, starter, resumer, acts, tasks, won>>
        /\ jobs' = [jobs EXCEPT ![W.next] = "waiting"]
    BY <1>28 DEF Dispatch
  <2>6. jobs'[W.act] = "active" /\ ~Pends(run, W.act)
    BY <2>2, <2>3, <2>5 DEF Pends
  <2>7. Fresh(rec, run) /\ Placed(rec, run, jobs') /\ ~Moving(rec) /\ Remembers(rec, Resumed)
    BY <2>3, <2>4, <2>6, AckPlaced
  <2>8. /\ starter = "done"
        /\ \A v \in Workers \ {w} : /\ ~Moving(worker[v])
                                    /\ Busy(worker[v]) => worker[v].act # W.next
        /\ \A r \in Resumers : resumer[r].pc # "dispatch"
    BY <2>1, <2>2, Alone
  <2>9. /\ W.next \in Acts /\ Becomes(w, rec) /\ (starter = "dispatch" => W.next # 1)
        /\ Busy(rec) => rec.act = W.next \/ (Busy(worker[w]) /\ rec.act = worker[w].act)
    BY <2>1, <2>2, <2>4, <2>8 DEF Goes
  <2>10. \A v \in Workers \ {w} : /\ Busy(worker[v]) => worker[v].act # W.next
                                  /\ Moving(worker[v]) => worker[v].next # W.next
    BY <2>8
  <2>11. \A r \in Resumers : resumer[r].pc = "dispatch" => resumer[r].next # W.next
    BY <2>8
  <2>12. OnceInv' /\ Keeps
    BY <2>2, <2>5, <2>7, <2>9, <2>10, <2>11, JobFrame
  <2> QED BY <2>12
<1>29. ASSUME Ack(w) PROVE OnceInv' /\ Does
  <2>1. Busy(W) /\ W.act \in Acts /\ jobs[W.act] = "active"
    BY <1>29, Position DEF Ack, Busy
  <2>2. PICK job : jobs' = [jobs EXCEPT ![W.act] = job] /\ job # "waiting"
    <3>1. jobs = [jobs EXCEPT ![W.act] = jobs[W.act]]
      BY <1>1 DEF TypeOK
    <3>2. jobs' = [jobs EXCEPT ![W.act] = "none"] \/ jobs' = [jobs EXCEPT ![W.act] = "active"]
      BY <1>29, <2>1, <3>1 DEF Ack
    <3> HIDE DEF W
    <3> QED BY <3>2
  <2>3. Becomes(w, IdleWorker) /\ UNCHANGED <<run, starter, resumer, acts, tasks, won>>
    BY <1>29 DEF Ack
  <2> QED BY <2>1, <2>2, <2>3, LeavesJob
<1>30. ASSUME Deliver(w) PROVE OnceInv' /\ Does
  BY <1>30, DeliverOnce
<1>31. ASSUME SuspendSave(w) PROVE OnceInv' /\ Does
  BY <1>31, SuspendsOnce
<1> QED
  BY <1>7, <1>8, <1>9, <1>10, <1>12, <1>13, <1>14, <1>15, <1>16, <1>17, <1>18, <1>20, <1>22,
     <1>23, <1>24, <1>25, <1>26, <1>27, <1>28, <1>29, <1>30, <1>31, EnqueuesOnce, TerminateOnce
  DEF WorkerStep

\* So does starting the run ...
LEMMA StartOnce ==
  ASSUME Known, Start
  PROVE  OnceInv' /\ Begins
<1> DEFINE desired == Enqueued(acts + 1, Entry, <<>>, 0, {}, NoResume)
<1>1. TypeOK /\ Alike(run, CreatedRun) /\ acts = 0 /\ acts' = 1 /\ 1 \in Acts
  BY LimitAssumption DEF Known, OnceInv, Starting, Start, MakeActivation, TypeOK, Acts
<1>2. UNCHANGED <<jobs, worker, resumer, tasks, won>> /\ starter' = "dispatch"
      /\ tasks = 0 /\ \A r \in Resumers : resumer[r].pc = "idle"
  BY DEF Start, Known, OnceInv, Starting
<1>3. desired \in RunRecord
  <2>1. NoResume \in Resumes /\ {} \in SUBSET Suspensions /\ acts + 1 \in 0..MaxActs
        /\ <<>> \in Seq(Nodes) /\ 0 \in Nat
    BY <1>1, LimitAssumption DEF NoResume, Resumes, Verdicts, Acts
  <2> QED BY <2>1, GraphAssumption, EnqueuedType
<1>4. /\ desired.status = "pending" /\ desired.pending = [act |-> acts + 1, node |-> Entry]
      /\ desired.queue = <<>> /\ desired.count = 0 /\ desired.susp = {}
  BY DEF Enqueued
<1>5. run' = Saved(desired, {})
  BY DEF Start
<1> HIDE DEF desired
<1>6. run'.status = "pending" /\ run'.pending.act = 1 /\ run'.queue = <<>> /\ run'.count = 0
  BY <1>1, <1>3, <1>4, <1>5, SavedAlike DEF Alike
<1>7. \A a \in Acts : jobs[a] = "none"
  BY <1>1, LimitAssumption DEF Known, ActivationsMatch, Acts
<1>8. \A w \in Workers : ~Busy(worker[w])
  BY <1>1, <1>7, Position
<1>9. \A w \in Workers : Fresh(worker[w], run') /\ Placed(worker[w], run', jobs)
  <2>1. \A w \in Workers : worker[w].pc = "idle" /\ worker[w].got = {} /\ ~worker[w].lock
    BY <1>8 DEF Known, OnceInv, Fresh, Placed, Busy
  <2> QED BY <2>1 DEF Fresh, Placed, Busy, Moving, Working
<1>10. Apart'
  BY <1>2 DEF Known, OnceInv, Apart
<1>11. Starting'
  BY <1>1, <1>2, <1>6, <1>7 DEF Starting, Pends
<1>12. Unspent(won', acts', run')
  <2>1. \A a \in Acts : a > 0 /\ won[a] = 0
    BY <1>1, LimitAssumption DEF Known, OnceInv, Unspent, Acts
  <2> QED BY <1>2, <2>1 DEF Unspent
<1>13. Resumed' = Resumed
  BY <1>2 DEF Resumed
<1>14. WaitsForOne(run', Resumed)
  <2>1. run.status # "suspended"
    BY <1>1 DEF Alike, CreatedRun
  <2> QED BY <1>3, <1>4, <1>5, <2>1, SavedAnswered DEF Answered
<1>15. \A r \in Resumers : Called(resumer[r], run', jobs, Resumed)
  BY <1>2 DEF Known, OnceInv, Called
<1>16. Queued(jobs', run')
  BY <1>2, <1>7 DEF Queued
<1>17. ApprovalNodes = {} => NoTasks'
  BY <1>2, <1>6 DEF Known, OnceInv, NoTasks
<1>18. (\A r \in Resumers : Called(resumer[r], run, jobs, Resumed))'
       /\ WaitsForOne(run, Resumed)' /\ (\A v \in Workers : Remembers(worker[v], Resumed))'
  BY <1>2, <1>13, <1>14, <1>15 DEF Known, OnceInv
<1>19. (\A w \in Workers : Fresh(worker[w], run) /\ Placed(worker[w], run, jobs))'
  BY <1>2, <1>9
<1>20. OnceInv'
  BY <1>6, <1>10, <1>11, <1>12, <1>16, <1>17, <1>18, <1>19 DEF OnceInv
<1>21. Begins
  BY <1>1, <1>6 DEF Begins, Awaits
<1> QED BY <1>20, <1>21

\* ... and dispatching its first job.
LEMMA StartDispatchOnce ==
  ASSUME Known, StartDispatch
  PROVE  OnceInv' /\ Keeps
<1>1. UNCHANGED <<run, worker, resumer, acts, tasks, won>> /\ starter' = "done"
      /\ jobs' = [jobs EXCEPT ![1] = "waiting"]
  BY DEF StartDispatch
<1>2. acts = 1 /\ jobs[1] = "none" /\ Pends(run, 1) /\ \A r \in Resumers : resumer[r].pc = "idle"
  BY DEF StartDispatch, Known, OnceInv, Starting
<1>3. \A w \in Workers : ~Busy(worker[w])
  BY Position DEF StartDispatch
<1>4. \A w \in Workers : Placed(worker[w], run, jobs')
  BY <1>3 DEF Known, OnceInv, Placed, Busy, Moving
<1>5. Starting' /\ Apart'
  BY <1>1 DEF Starting, Known, OnceInv, Apart
<1>6. Queued(jobs', run')
  <2>1. \A a \in Acts \ {1} : jobs'[a] = "none"
    <3>1. \A a \in Acts \ {1} : jobs'[a] = jobs[a] /\ (jobs[a] # "none" => a <= 1)
      BY <1>1, <1>2 DEF Known, TypeOK, ActivationsMatch
    <3> QED BY <3>1, LimitAssumption DEF Acts
  <2> QED BY <1>1, <1>2, <2>1 DEF Queued
<1>7. \A r \in Resumers : Called(resumer[r], run, jobs', Resumed)
  BY <1>2 DEF Known, OnceInv, Called
<1>8. Resumed' = Resumed
  BY <1>1 DEF Resumed
<1>9. ApprovalNodes = {} => NoTasks'
  BY <1>1 DEF Known, OnceInv, NoTasks
<1>10. (\A r \in Resumers : Called(resumer[r], run, jobs, Resumed))'
       /\ WaitsForOne(run, Resumed)' /\ (\A v \in Workers : Remembers(worker[v], Resumed))'
       /\ (\A w \in Workers : Fresh(worker[w], run) /\ Placed(worker[w], run, jobs))'
  BY <1>1, <1>4, <1>7, <1>8 DEF Known, OnceInv
<1>11. OnceInv'
  BY <1>1, <1>5, <1>6, <1>9, <1>10 DEF Known, OnceInv
<1> QED BY <1>1, <1>11 DEF Keeps, Alike

-----------------------------------------------------------------------------
(* The calls of resumeRun. *)

\* A step of a call that leaves the record alone.
LEMMA CallFrame ==
  ASSUME Known, NEW r \in Resumers, NEW rec, resumer' = [resumer EXCEPT ![r] = rec],
         rec.pc \in {"loaded", "done"}, rec.next = resumer[r].next,
         rec.next # 0 => rec.task = resumer[r].task,
         rec.pc = "loaded" => rec.next = 0 /\ rec.state = run,
         UNCHANGED <<run, worker, starter, acts, tasks, won>>,
         starter = "done", ApprovalNodes # {},
         \/ jobs' = jobs
         \/ resumer[r].pc = "dispatch" /\ jobs' = [jobs EXCEPT ![resumer[r].next] = "waiting"]
  PROVE  OnceInv' /\ Keeps
<1> DEFINE n == resumer[r].next
<1>1. \A q \in Resumers : resumer'[q] = IF q = r THEN rec ELSE resumer[q]
  BY DEF Known, TypeOK
<1>2. Resumed' = Resumed
  BY <1>1 DEF Resumed
<1>3. resumer[r].pc = "dispatch" => n \in Acts /\ jobs[n] = "none" /\ Pends(run, n)
  BY DEF Known, OnceInv, Called
<1> HIDE DEF n
<1>4. \A a \in Acts : \/ jobs'[a] = jobs[a]
                      \/ /\ a = n /\ jobs'[a] = "waiting" /\ jobs[a] = "none" /\ Pends(run, a)
                         /\ resumer[r].pc = "dispatch"
  BY <1>3 DEF Known, TypeOK, n
<1>5. \A w \in Workers : Fresh(worker[w], run) /\ Placed(worker[w], run, jobs')
  <2>1. ASSUME NEW w \in Workers PROVE Placed(worker[w], run, jobs')
    <3>1. Placed(worker[w], run, jobs)
      BY DEF Known, OnceInv
    <3>2. Busy(worker[w]) => jobs'[worker[w].act] = "active"
      BY <1>4, <3>1 DEF Placed
    <3>3. Moving(worker[w]) => jobs'[worker[w].next] = "none"
      BY <1>4, <3>1 DEF Placed, Known, OnceInv, Apart
    <3> QED BY <3>1, <3>2, <3>3 DEF Placed
  <2> QED BY <2>1 DEF Known, OnceInv
<1>6. \A q \in Resumers : Called(resumer'[q], run, jobs', Resumed)
  <2>1. Called(rec, run, jobs', Resumed)
    BY DEF Called
  <2>2. ASSUME NEW q \in Resumers \ {r} PROVE Called(resumer[q], run, jobs', Resumed)
    <3>1. Called(resumer[q], run, jobs, Resumed)
      BY DEF Known, OnceInv
    <3>2. resumer[q].pc = "dispatch" => jobs'[resumer[q].next] = "none"
      BY <1>4, <3>1 DEF Called, Known, OnceInv, Apart
    <3> QED BY <3>1, <3>2 DEF Called
  <2> QED BY <1>1, <2>1, <2>2
<1>7. Apart'
  BY <1>1 DEF Known, OnceInv, Apart
<1>8. Queued(jobs', run)
  BY <1>4 DEF Known, OnceInv, Queued
<1>9. (\A q \in Resumers : Called(resumer[q], run, jobs, Resumed))'
      /\ WaitsForOne(run, Resumed)' /\ (\A v \in Workers : Remembers(worker[v], Resumed))'
      /\ (\A w \in Workers : Fresh(worker[w], run) /\ Placed(worker[w], run, jobs))'
  BY <1>2, <1>5, <1>6 DEF Known, OnceInv
<1>10. Starting'
  BY DEF Starting
<1>11. OnceInv'
  BY <1>7, <1>8, <1>9, <1>10 DEF Known, OnceInv
<1> QED BY <1>11 DEF Keeps, Alike

\* Somebody calls resumeRun, which loads the run; it needs a task.
LEMMA CallOnce ==
  ASSUME Known, NEW r \in Resumers, NEW task \in Tasks, NEW verdict, ResumeCall(r, task, verdict)
  PROVE  OnceInv' /\ Keeps
<1> DEFINE rec == [IdleResumer EXCEPT !.pc = "loaded", !.task = task, !.verdict = verdict,
                                      !.state = run]
<1>1. rec.pc = "loaded" /\ rec.next = 0 /\ rec.state = run
  BY DEF IdleResumer
<1>2. resumer' = [resumer EXCEPT ![r] = rec]
  BY DEF ResumeCall
<1> HIDE DEF rec
<1>3. tasks # 0
  BY LimitAssumption DEF ResumeCall, Tasks
<1>4. starter = "done" /\ ApprovalNodes # {}
  BY <1>3 DEF Known, OnceInv, Starting, NoTasks, TypeOK
<1>5. resumer[r].next = 0
  BY DEF ResumeCall, Known, OnceInv, Called
<1>6. jobs' = jobs /\ UNCHANGED <<run, worker, starter, acts, tasks, won>>
  BY DEF ResumeCall
<1> QED BY <1>1, <1>2, <1>4, <1>5, <1>6, CallFrame

\* A call is at work only if there are tasks, and only when the run was started.
LEMMA Calling ==
  ASSUME Known, NEW r \in Resumers, resumer[r].pc \in {"loaded", "dispatch"}
  PROVE  starter = "done" /\ ApprovalNodes # {}
BY DEF Known, OnceInv, Starting, NoTasks

\* A call that dispatches, or that is refused, rejected or cannot dispatch.
LEMMA CallEnds ==
  ASSUME Known, NEW r \in Resumers,
         \/ ResumeRefused(r) \/ ResumeRejected(r) \/ ResumeDispatch(r)
         \/ /\ resumer[r].pc = "dispatch" /\ resumer' = [resumer EXCEPT ![r].pc = "done"]
            /\ UNCHANGED <<run, jobs, worker, starter, acts, tasks, won>>
  PROVE  OnceInv' /\ Keeps
<1>1. starter = "done" /\ ApprovalNodes # {}
  BY Calling DEF ResumeRefused, ResumeRejected, ResumeDispatch
<1>2. resumer[r] \in ResumerRecord
  BY DEF Known, TypeOK
<1>3. CASE ResumeRefused(r) \/ ResumeRejected(r)
  <2> DEFINE rec == [IdleResumer EXCEPT !.pc = "done"]
  <2>1. rec.pc = "done" /\ rec.next = 0
    BY DEF IdleResumer
  <2>2. resumer' = [resumer EXCEPT ![r] = rec] /\ jobs' = jobs
        /\ UNCHANGED <<run, worker, starter, acts, tasks, won>>
    BY <1>3 DEF ResumeRefused, ResumeRejected
  <2>3. resumer[r].next = 0
    BY <1>3 DEF ResumeRefused, ResumeRejected, Known, OnceInv, Called
  <2> HIDE DEF rec
  <2> QED BY <1>1, <2>1, <2>2, <2>3, CallFrame
<1>4. CASE \/ ResumeDispatch(r)
           \/ /\ resumer[r].pc = "dispatch" /\ resumer' = [resumer EXCEPT ![r].pc = "done"]
              /\ UNCHANGED <<run, jobs, worker, starter, acts, tasks, won>>
  <2> DEFINE rec == [resumer[r] EXCEPT !.pc = "done"]
  <2>1. rec.pc = "done" /\ rec.next = resumer[r].next /\ rec.task = resumer[r].task
    BY <1>2 DEF ResumerRecord
  <2>2. resumer' = [resumer EXCEPT ![r] = rec]
        /\ UNCHANGED <<run, worker, starter, acts, tasks, won>>
    BY <1>4 DEF ResumeDispatch
  <2>3. \/ jobs' = jobs
        \/ resumer[r].pc = "dispatch" /\ jobs' = [jobs EXCEPT ![resumer[r].next] = "waiting"]
    BY <1>4 DEF ResumeDispatch
  <2> HIDE DEF rec
  <2> QED BY <1>1, <2>1, <2>2, <2>3, CallFrame
<1> QED BY <1>3, <1>4

\* A call that is to resume the run for a task that was not resumed has read the run as it is.
LEMMA CallReads ==
  ASSUME Known, ResumedOnce', NEW r \in Resumers, ResumeSave(r)
  PROVE  /\ resumer[r].state = run /\ run.status = "suspended" /\ Entries(r) # {}
         /\ resumer[r].task \notin Resumed
         /\ resumer[r].pc = "loaded" /\ resumer[r].next = 0
<1> DEFINE R == resumer[r]
           rec == [IdleResumer EXCEPT !.pc = "dispatch", !.task = R.task, !.next = acts + 1]
<1>1. R.pc = "loaded" /\ R.state.status = "suspended" /\ Entries(r) # {}
      /\ resumer' = [resumer EXCEPT ![r] = rec]
  BY DEF ResumeSave
<1>2. R.next = 0 /\ (R.state = run \/ \A s \in R.state.susp : s.task \in Resumed)
  BY <1>1 DEF Known, OnceInv, Called
<1>3. rec.task = R.task /\ rec.next = acts + 1 /\ acts + 1 # 0
  BY DEF IdleResumer, Known, TypeOK
<1>4. \A q \in Resumers : resumer'[q] = IF q = r THEN rec ELSE resumer[q]
  BY <1>1 DEF Known, TypeOK
<1> HIDE DEF rec
<1>5. R.task \notin Resumed
  BY <1>2, <1>3, <1>4 DEF ResumedOnce, Resumed
<1>6. R.state = run
  BY <1>1, <1>2, <1>5 DEF Entries
<1> QED BY <1>1, <1>2, <1>5, <1>6

\* It saves the run as waiting for a new activation of the approval node.
LEMMA ResumesOnce ==
  ASSUME Known, ResumedOnce', NEW r \in Resumers, ResumeSave(r)
  PROVE  OnceInv' /\ Awakens
<1> DEFINE R == resumer[r]
           rec == [IdleResumer EXCEPT !.pc = "dispatch", !.task = R.task, !.next = acts + 1]
           resume == [act |-> acts + 1, verdict |-> R.verdict]
           remaining == run.susp \ Entries(r)
           keys == IF remaining = {} THEN {"resume"} ELSE {"resume", "susp"}
<1>1. TypeOK /\ R \in ResumerRecord /\ run \in RunRecord /\ acts \in Nat
      /\ worker \in [Workers -> WorkerRecord]
  BY DEF Known, TypeOK
<1>2. R.state = run /\ run.status = "suspended" /\ R.task \notin Resumed
      /\ R.pc = "loaded" /\ R.next = 0
  BY CallReads
<1>3. PICK entry \in Entries(r) :
        /\ MakeActivation(entry.node)
        /\ run' = Saved(Enqueued(acts + 1, entry.node, <<>>, run.count, remaining, resume), keys)
  BY <1>2 DEF ResumeSave
<1>4. entry \in run.susp /\ entry.task = R.task /\ entry.node \in Nodes
  BY <1>1, <1>2, <1>3 DEF Entries, RunRecord, Suspensions
<1>5. acts + 1 \in Acts /\ acts' = acts + 1 /\ acts + 1 \in 0..MaxActs
  BY <1>1, <1>3, LimitAssumption DEF MakeActivation, Acts
<1>6. remaining \in SUBSET Suspensions /\ resume \in Resumes /\ <<>> \in Seq(Nodes)
      /\ run.count \in Nat
  BY <1>1, <1>5 DEF Resumes, ResumerRecord, RunRecord
<1>7. UNCHANGED <<jobs, starter, worker, tasks, won>> /\ resumer' = [resumer EXCEPT ![r] = rec]
  BY DEF ResumeSave
<1> DEFINE desired == Enqueued(acts + 1, entry.node, <<>>, run.count, remaining, resume)
<1>8. desired \in RunRecord
  <2> HIDE DEF remaining, resume
  <2> QED BY <1>4, <1>5, <1>6, EnqueuedType
<1>9. /\ desired.status = "pending" /\ desired.pending = [act |-> acts + 1, node |-> entry.node]
      /\ desired.queue = <<>> /\ desired.count = run.count /\ desired.susp \subseteq run.susp
  BY DEF Enqueued
<1>10. run' = Saved(desired, keys)
  BY <1>3
<1>11. rec.pc = "dispatch" /\ rec.task = R.task /\ rec.next = acts + 1
  BY DEF IdleResumer
<1> HIDE DEF desired, keys, remaining, resume, rec
<1>12. /\ run'.status = "pending" /\ run'.pending = [act |-> acts + 1, node |-> entry.node]
       /\ run'.count = run.count
  BY <1>1, <1>8, <1>9, <1>10, SavedAlike DEF Alike
<1>13. run'.susp \subseteq run.susp
  BY <1>1, <1>8, <1>9, <1>10, SavedType
<1>14. \A q \in Resumers : resumer'[q] = IF q = r THEN rec ELSE resumer[q]
  BY <1>7 DEF Known, TypeOK
<1>15. Resumed' = Resumed \cup {R.task}
  BY <1>1, <1>2, <1>11, <1>14 DEF Resumed
<1>16. \A s \in run.susp : s.task \in Resumed'
  BY <1>2, <1>4, <1>15 DEF Known, OnceInv, WaitsForOne
<1>17. WaitsForOne(run', Resumed')
  BY <1>13, <1>16 DEF WaitsForOne, Answered
<1>18. starter = "done" /\ ApprovalNodes # {}
  BY <1>2, Calling
<1>19. \A a : ~Pends(run, a)
  BY <1>2 DEF Pends
<1>20. \A a \in Acts : Pends(run', a) => a > acts
  BY <1>1, <1>12 DEF Pends
<1>21. ASSUME NEW w \in Workers PROVE Fresh(worker[w], run') /\ Placed(worker[w], run', jobs)
  <2> DEFINE W == worker[w]
  <2>1. Fresh(W, run) /\ Placed(W, run, jobs)
    BY DEF Known, OnceInv
  <2>2. Busy(W) => ~Pends(run', W.act)
    <3>1. ASSUME Busy(W) PROVE W.act \in Acts /\ W.act <= acts
      BY <3>1, Position
    <3> QED BY <1>1, <1>20, <3>1, LimitAssumption DEF Acts
  <2>3. W.pc \notin Working /\ ~Moving(W) /\ (W.pc = "handle" => "crash" \in FaultKinds)
    BY <1>19, <2>1 DEF Placed
  <2>4. W.got # {} => Busy(W)
    BY <2>1 DEF Fresh, Busy
  <2>5. Fresh(W, run')
    BY <1>19, <2>1, <2>2, <2>3, <2>4 DEF Fresh, Working
  <2> QED BY <1>19, <2>1, <2>2, <2>3, <2>5 DEF Placed, Busy
<1>22. jobs[acts + 1] = "none"
  BY <1>1, <1>5 DEF Known, ActivationsMatch
<1>23. \A q \in Resumers : Called(resumer'[q], run', jobs, Resumed')
  <2>1. Called(rec, run', jobs, Resumed')
    BY <1>5, <1>11, <1>12, <1>22 DEF Called, Pends
  <2>2. ASSUME NEW q \in Resumers \ {r} PROVE Called(resumer[q], run', jobs, Resumed')
    BY <1>15, <1>16, <1>19 DEF Known, OnceInv, Called
  <2> QED BY <1>14, <2>1, <2>2
<1>24. Apart'
  <2>1. \A w \in Workers : ~Moving(worker[w])
    BY <1>19 DEF Known, OnceInv, Placed
  <2>2. \A q \in Resumers : resumer[q].pc # "dispatch"
    BY <1>19 DEF Known, OnceInv, Called
  <2> QED BY <1>7, <1>14, <2>1, <2>2 DEF Known, OnceInv, Apart
<1>25. Starting' /\ (ApprovalNodes = {} => NoTasks')
  BY <1>7, <1>18 DEF Starting
<1>26. Queued(jobs', run')
  BY <1>7, <1>19 DEF Known, OnceInv, Queued
<1>27. Unspent(won', acts', run')
  <2>1. \A a \in Acts : a > acts' \/ Pends(run', a) => a > acts
    BY <1>1, <1>5, <1>20, LimitAssumption DEF Acts
  <2> QED BY <1>7, <2>1 DEF Known, OnceInv, Unspent
<1>28. \A w \in Workers : Remembers(worker[w], Resumed')
  BY <1>15 DEF Known, OnceInv, Remembers, Answered
<1>29. (\A q \in Resumers : Called(resumer[q], run, jobs, Resumed))'
       /\ WaitsForOne(run, Resumed)' /\ (\A v \in Workers : Remembers(worker[v], Resumed))'
       /\ (\A w \in Workers : Fresh(worker[w], run) /\ Placed(worker[w], run, jobs))'
  BY <1>7, <1>17, <1>21, <1>23, <1>28
<1>30. run'.pending.act # 0
  BY <1>1, <1>12
<1>31. OnceInv'
  BY <1>12, <1>24, <1>25, <1>26, <1>27, <1>29, <1>30 DEF OnceInv
<1>32. Awakens
  BY <1>2, <1>5, <1>12 DEF Awakens, Awaits
<1> QED BY <1>31, <1>32

\* A processor that dies, and a dispatch that is refused.
LEMMA FaultOnce ==
  ASSUME Undisturbed, Known,
         (\E w \in Workers, died \in BOOLEAN : Stall(w, died)) \/ DispatchFails
  PROVE  OnceInv' /\ Keeps
<1>1. TypeOK /\ worker \in [Workers -> WorkerRecord] /\ jobs \in [Acts -> {"none", "waiting", "active"}]
  BY DEF Known, TypeOK
<1>2. ASSUME NEW w \in Workers, NEW died \in BOOLEAN, Stall(w, died) PROVE OnceInv' /\ Keeps
  <2>1. died /\ worker[w].lock /\ "crash" \in FaultKinds
    BY <1>2 DEF Stall, Fault, Undisturbed
  <2>2. Busy(worker[w])
    BY <2>1 DEF Known, OnceInv, Placed, Busy
  <2>3. PICK job : jobs' = [jobs EXCEPT ![worker[w].act] = job]
    BY <1>2 DEF Stall, JobStalls
  <2>4. Becomes(w, IdleWorker) /\ UNCHANGED <<run, starter, resumer, acts, tasks, won>>
    BY <1>2, <2>1 DEF Stall
  <2> QED BY <2>1, <2>2, <2>3, <2>4, LeavesJob
<1>3. CASE DispatchFails
  <2>1. UNCHANGED <<run, jobs, acts, tasks, won>>
    BY <1>3 DEF DispatchFails
  <2>2. ASSUME starter' = "done", UNCHANGED <<worker, resumer>> PROVE OnceInv' /\ Keeps
    <3>1. Starting' /\ Apart'
      BY <2>2 DEF Known, OnceInv, Starting, Apart
    <3>2. Resumed' = Resumed
      BY <2>2 DEF Resumed
    <3>3. (\A q \in Resumers : Called(resumer[q], run, jobs, Resumed))'
          /\ WaitsForOne(run, Resumed)' /\ (\A v \in Workers : Remembers(worker[v], Resumed))'
          /\ (\A w \in Workers : Fresh(worker[w], run) /\ Placed(worker[w], run, jobs))'
      BY <2>1, <2>2, <3>2 DEF Known, OnceInv
    <3>4. ApprovalNodes = {} => NoTasks'
      BY <2>1, <2>2 DEF Known, OnceInv, NoTasks
    <3>5. OnceInv'
      BY <2>1, <3>1, <3>3, <3>4 DEF Known, OnceInv
    <3> QED BY <2>1, <3>5 DEF Keeps, Alike
  <2>3. ASSUME NEW w \in Workers, worker[w].pc = "dispatch",
               Becomes(w, [worker[w] EXCEPT !.pc = "terminate"]), UNCHANGED <<starter, resumer>>
        PROVE  OnceInv' /\ Keeps
    <3> DEFINE rec == [worker[w] EXCEPT !.pc = "terminate"]
    <3>1. /\ rec.pc = "terminate" /\ rec.act = worker[w].act /\ rec.got = worker[w].got
          /\ rec.next = worker[w].next /\ rec.ending = worker[w].ending
          /\ rec.state = worker[w].state
      BY <1>1 DEF WorkerRecord
    <3>2. Becomes(w, rec)
      BY <2>3
    <3> HIDE DEF rec
    <3>3. Busy(worker[w]) /\ Moving(worker[w]) /\ worker[w].got = {}
      BY <2>3 DEF Busy, Moving, Known, OnceInv, Fresh
    <3>4. Fresh(rec, run)
      BY <3>1, <3>3 DEF Fresh
    <3>5. Placed(rec, run, jobs) /\ Remembers(rec, Resumed)
      BY <3>1, <3>3 DEF Known, OnceInv, Placed, Moving, Busy, Working, Remembers
    <3>6. Alike(run', run)
      BY <2>1 DEF Alike
    <3> QED BY <2>1, <2>3, <3>1, <3>2, <3>3, <3>4, <3>5, <3>6, StaysFrame
  <2>4. ASSUME NEW r \in Resumers, resumer[r].pc = "dispatch",
               resumer' = [resumer EXCEPT ![r].pc = "done"], UNCHANGED <<starter, worker>>
        PROVE  OnceInv' /\ Keeps
    BY <2>1, <2>4, CallEnds
  <2> QED BY <1>3, <2>2, <2>3, <2>4 DEF DispatchFails
<1> QED BY <1>2, <1>3

\* Before the run is started nobody works on it.
LEMMA InitOnce == Init => OnceInv
<1> SUFFICES ASSUME Init PROVE OnceInv
  OBVIOUS
<1>1. (\A w \in Workers : worker[w] = IdleWorker) /\ \A r \in Resumers : resumer[r] = IdleResumer
  BY DEF Init
<1>2. Fresh(IdleWorker, run) /\ Placed(IdleWorker, run, jobs) /\ ~Busy(IdleWorker)
      /\ ~Moving(IdleWorker) /\ Remembers(IdleWorker, Resumed)
  BY CreatedAnswered DEF IdleWorker, Fresh, Placed, Busy, Moving, Working, Remembers
<1>3. run.status = "running" /\ run.pending.act = 0 /\ run.susp = {} /\ Alike(run, CreatedRun)
  BY DEF Init, CreatedRun, NoPending, Alike
<1>4. /\ IdleResumer.pc = "idle" /\ IdleResumer.next = 0
      /\ Called(IdleResumer, run, jobs, Resumed)
  BY DEF IdleResumer, Called
<1>5. Unspent(won, acts, run) /\ Queued(jobs, run)
  BY DEF Init, Unspent, Queued
<1>6. WaitsForOne(run, Resumed)
  BY <1>3 DEF WaitsForOne, Answered
<1>7. Apart /\ Starting /\ NoTasks
  BY <1>1, <1>2, <1>3, <1>4 DEF Init, Apart, Starting, NoTasks
<1> QED BY <1>1, <1>2, <1>3, <1>4, <1>5, <1>6, <1>7 DEF OnceInv

\* Every step keeps the invariant, and does to the record what Effect says.
LEMMA StepOnce ==
  ASSUME Undisturbed, Known, ResumedOnce', [Next]_vars
  PROVE  OnceInv' /\ Effect
<1>1. CASE UNCHANGED vars
  <2>1. Keeps
    BY <1>1 DEF vars, Keeps, Alike
  <2>2. Resumed' = Resumed
    BY <1>1 DEF vars, Resumed
  <2>3. (\A q \in Resumers : Called(resumer[q], run, jobs, Resumed))'
        /\ WaitsForOne(run, Resumed)' /\ (\A v \in Workers : Remembers(worker[v], Resumed))'
        /\ (\A w \in Workers : Fresh(worker[w], run) /\ Placed(worker[w], run, jobs))'
    BY <1>1, <2>2 DEF vars, Known, OnceInv
  <2>4. OnceInv'
    BY <1>1, <2>3 DEF vars, Known, OnceInv, Apart, Starting, NoTasks
  <2> QED BY <2>1, <2>4 DEF Effect
<1>2. CASE \E w \in Workers : WorkerStep(w)
  BY <1>2, WorkerStepOnce DEF Effect
<1>3. ASSUME NEW r \in Resumers,
             \/ \E task \in Tasks, verdict \in Verdicts : ResumeCall(r, task, verdict)
             \/ ResumeStep(r)
      PROVE  OnceInv' /\ Effect
  BY <1>3, CallOnce, CallEnds, ResumesOnce DEF ResumeStep, Effect
<1> QED BY <1>1, <1>2, <1>3, StartOnce, StartDispatchOnce, FaultOnce DEF Next, Effect

LEMMA OnceCorrect ==
  ASSUME Undisturbed
  PROVE  Spec /\ []ResumedOnce => []Known /\ [][Effect]_vars
<1>1. Init => OnceInv
  BY InitOnce
<1>2. ASSUME TypeOK, ActivationsMatch, OnceInv, ResumedOnce', [Next]_vars PROVE OnceInv' /\ Effect
  BY <1>2, StepOnce DEF Known
<1>3. Known <=> TypeOK /\ ActivationsMatch /\ OnceInv
  BY DEF Known
<1> QED BY <1>1, <1>2, <1>3, TypeCorrect, ActivationsCorrect, PTL DEF Spec

\* In a workflow without approval nodes there are no tasks, so nobody resumes one twice.
LEMMA NobodyAnswers ==
  ASSUME ApprovalNodes = {}, "loseLock" \notin FaultKinds
  PROVE  Spec => []ResumedOnce
<1>1. Undisturbed
  BY DEF Undisturbed
<1>2. Init => OnceInv
  BY InitOnce
<1>3. OnceInv => ResumedOnce
  BY DEF OnceInv, NoTasks, ResumedOnce
<1>4. ASSUME Known, [Next]_vars PROVE ResumedOnce'
  <2>1. NoTasks
    BY <1>4 DEF Known, OnceInv
  <2>2. \A r \in Resumers : ~ResumeStep(r)
    BY <2>1 DEF NoTasks, ResumeStep, ResumeRefused, ResumeRejected, ResumeSave, ResumeDispatch
  <2>3. \A r \in Resumers, task \in Tasks, verdict \in Verdicts : ~ResumeCall(r, task, verdict)
    <3>1. \A task \in Tasks : ~(task <= 0)
      BY LimitAssumption DEF Tasks
    <3> QED BY <2>1, <3>1 DEF NoTasks, ResumeCall
  <2>4. resumer' = resumer
    <3>1. ASSUME NEW w \in Workers, WorkerStep(w) PROVE resumer' = resumer
      BY <3>1 DEF WorkerStep, Receive, Read, HandleIgnored, Handle, ClearResume, MarkNodeRunning,
             ReportLoad, ReportSave, ExecuteReturns, ExecuteThrows, ExecuteSuspends, Deliver,
             SuspendSave, ResultIgnored, ResultHalts, ResultCompletes, ResultOverBudget,
             ResultRejected, ResultEnqueues, Dispatch, SaveFailure, ErrorIgnored, ErrorRecovers,
             ErrorFails, Ack, EndRun
    <3>2. DispatchFails => resumer' = resumer
      BY <2>1 DEF DispatchFails, NoTasks
    <3>3. Start \/ StartDispatch \/ (\E w \in Workers, died \in BOOLEAN : Stall(w, died))
          => resumer' = resumer
      BY DEF Start, StartDispatch, Stall
    <3> QED BY <1>4, <2>2, <2>3, <3>1, <3>2, <3>3 DEF Next, vars
  <2> QED BY <2>1, <2>4 DEF NoTasks, ResumedOnce
<1>5. ASSUME TypeOK, ActivationsMatch, OnceInv, [Next]_vars PROVE ResumedOnce' /\ OnceInv'
  <2>1. Known
    BY <1>5 DEF Known
  <2>2. ResumedOnce'
    BY <1>4, <1>5, <2>1
  <2> QED BY <1>1, <1>5, <2>1, <2>2, StepOnce
<1> QED BY <1>2, <1>3, <1>5, TypeCorrect, ActivationsCorrect, PTL DEF Spec

\* Nor does anybody if the run is resumed by one call at most.
LEMMA OneCaller ==
  ASSUME \A q, r \in Resumers : q = r
  PROVE  Spec => []ResumedOnce
<1>1. ResumedOnce
  BY DEF ResumedOnce
<1> QED BY <1>1, PTL

-----------------------------------------------------------------------------
(* The theorems. *)

\* What is appended to a queue leaves its head and what waits behind it.
LEMMA QueueHead ==
  ASSUME NEW S, NEW q \in Seq(S), q # <<>>, NEW s \in Seq(S)
  PROVE  /\ Tail(q) \in Seq(S) /\ Head(q \o s) = Head(q)
         /\ Tail(q \o s) = Tail(q) \o s
<1>1. /\ Len(q) \in Nat /\ Len(s) \in Nat /\ Len(q) # 0 /\ q \o s \in Seq(S) /\ Tail(q) \in Seq(S)
      /\ Len(q \o s) = Len(q) + Len(s) /\ Len(Tail(q)) = Len(q) - 1
  OBVIOUS
<1>2. Head(q \o s) = Head(q)
  BY <1>1
<1>3. Len(Tail(q \o s)) = Len(Tail(q) \o s)
  BY <1>1
<1>4. \A i \in 1..Len(Tail(q) \o s) : Tail(q \o s)[i] = (Tail(q) \o s)[i]
  BY <1>1
<1>5. Tail(q \o s) \in Seq(S) /\ Tail(q) \o s \in Seq(S)
  BY <1>1
<1>6. Tail(q \o s) = Tail(q) \o s
  BY <1>3, <1>4, <1>5
<1> QED BY <1>1, <1>2, <1>6

\* No two handlers save a next step for one activation, though they only compare what they read
\* with their request: for every workflow, any number of processors and of callers of resumeRun,
\* both repositories, error handlers, reports and refused dispatches.
THEOREM ContinuedOnce ==
  ASSUME Undisturbed
  PROVE  Spec /\ []ResumedOnce => []OneContinuation
<1>1. Known => OneContinuation
  BY DEF Known, OnceInv, Unspent, OneContinuation
<1> QED BY <1>1, OnceCorrect, PTL

\* ... and no activation is made past the budget, though every save writes a counter that was
\* read some steps before, across suspensions and decisions too.
THEOREM BudgetKept ==
  ASSUME Undisturbed
  PROVE  Spec /\ []ResumedOnce => []BudgetRespected
<1>1. ASSUME Init PROVE BudgetRespected
  BY <1>1, LimitAssumption DEF Init, CreatedRun, BudgetRespected, WithinBudget
<1>2. ASSUME Known, Effect, BudgetRespected PROVE BudgetRespected'
  <2>1. run.count \in Nat /\ MaxNodeActivations \in Nat \ {0}
    BY <1>2, LimitAssumption DEF Known, TypeOK, RunRecord
  <2>2. CASE Keeps \/ Suspends \/ Awakens
    BY <1>2, <2>1, <2>2 DEF Keeps, Alike, Suspends, Awakens, Awaits, BudgetRespected, WithinBudget
  <2>3. CASE Begins \/ Moves
    BY <2>1, <2>3 DEF Begins, Moves, Awaits, BudgetRespected, WithinBudget
  <2>4. CASE Ends
    BY <1>2, <2>1, <2>4 DEF Ends, Terminal, BudgetRespected, WithinBudget
  <2> QED BY <1>2, <2>2, <2>3, <2>4 DEF Effect
<1>3. ASSUME UNCHANGED vars, BudgetRespected PROVE BudgetRespected'
  BY <1>3 DEF vars, BudgetRespected
<1>4. ASSUME Known, [Effect]_vars, BudgetRespected PROVE BudgetRespected'
  BY <1>2, <1>3, <1>4
<1> QED BY <1>1, <1>4, OnceCorrect, PTL DEF Spec

\* In a workflow without approval nodes no step drops a branch that waits in the queue of the
\* live run (with approvals a resume does: it saves an empty queue).
THEOREM BranchesKept ==
  ASSUME ApprovalNodes = {}, "loseLock" \notin FaultKinds
  PROVE  Spec => NoBranchDropped
<1> DEFINE Kept == run'.status \in {"pending", "suspended"} =>
                     \/ IsPrefix(run.queue, run'.queue)
                     \/ /\ run.queue # <<>> /\ run'.pending.node = Head(run.queue)
                        /\ IsPrefix(Tail(run.queue), run'.queue)
<1>1. ASSUME Known, Effect PROVE Kept
  <2>1. run.queue \in Seq(Nodes)
    BY <1>1 DEF Known, TypeOK, RunRecord
  <2>2. \A q, s \in Seq(Nodes) : IsPrefix(q, q \o s)
    BY DEF IsPrefix
  <2>7. \A q, s \in Seq(Nodes) : q # <<>> => /\ Tail(q) \in Seq(Nodes)
                                            /\ Head(q \o s) = Head(q)
                                            /\ Tail(q \o s) = Tail(q) \o s
    BY QueueHead
  <2>3. CASE Keeps
    <3>1. run'.queue = run.queue /\ IsPrefix(run.queue, run.queue)
      BY <2>1, <2>3 DEF Keeps, Alike, IsPrefix
    <3> QED BY <3>1
  <2>4. CASE Begins
    <3>1. run.queue = <<>> /\ run'.queue = <<>>
      BY <2>4 DEF Begins, Alike, CreatedRun
    <3> QED BY <3>1 DEF IsPrefix
  <2>5. CASE Moves
    <3>1. PICK s \in Seq(Nodes) : /\ run'.pending.node = Head(run.queue \o s)
                                  /\ run'.queue = Tail(run.queue \o s)
                                  /\ run.queue \o s # <<>>
      BY <2>5 DEF Moves
    <3>2. CASE run.queue = <<>>
      <4>1. run'.queue \in Seq(Nodes)
        BY <2>1, <3>1
      <4> QED BY <3>2, <4>1 DEF IsPrefix
    <3>3. CASE run.queue # <<>>
      <4>1. /\ Tail(run.queue) \in Seq(Nodes)
            /\ Head(run.queue \o s) = Head(run.queue)
            /\ Tail(run.queue \o s) = Tail(run.queue) \o s
        BY <2>1, <2>7, <3>1, <3>3
      <4>2. IsPrefix(Tail(run.queue), run'.queue)
        BY <2>2, <3>1, <4>1
      <4> QED BY <3>1, <3>3, <4>1, <4>2
    <3> QED BY <3>2, <3>3
  <2>6. CASE Ends
    BY <2>6 DEF Ends, Terminal
  <2>8. CASE Suspends
    <3>1. run'.queue = run.queue /\ IsPrefix(run.queue, run.queue)
      BY <2>1, <2>8 DEF Suspends, IsPrefix
    <3> QED BY <3>1
  <2>9. ~Awakens
    BY <1>1 DEF Known, OnceInv, NoTasks, Awakens
  <2> QED BY <1>1, <2>3, <2>4, <2>5, <2>6, <2>8, <2>9 DEF Effect
<1>2. ASSUME UNCHANGED vars PROVE UNCHANGED run
  BY <1>2 DEF vars
<1>3. ASSUME Known, [Effect]_vars PROVE [Kept]_run
  BY <1>1, <1>2, <1>3
<1>4. Undisturbed
  BY DEF Undisturbed
<1> QED BY <1>3, <1>4, OnceCorrect, NobodyAnswers, PTL DEF NoBranchDropped

\* The record goes through the steps of RunLifecycle: it waits for one activation at a time,
\* leaves it once, keeps it while a human is asked, stays within its budget and ends once.
THEOREM LifecycleImplemented ==
  ASSUME Undisturbed
  PROVE  Spec /\ []ResumedOnce => ImplementsLifecycle
<1>1. ASSUME Init PROVE Lifecycle!Init
  BY <1>1 DEF Init, CreatedRun, NoPending, Lifecycle!Init
<1>2. ASSUME Known, Effect PROVE [Lifecycle!Next]_(Lifecycle!vars)
  <2>1. CASE Keeps
    BY <2>1 DEF Keeps, Alike, Lifecycle!vars
  <2>2. CASE Begins
    BY <2>2 DEF Begins, Awaits, Alike, CreatedRun, Lifecycle!Next, Lifecycle!Begin, Lifecycle!Await
  <2>3. CASE Moves
    BY <2>3 DEF Moves, Awaits, Lifecycle!Next, Lifecycle!Proceed, Lifecycle!Await
  <2>4. CASE Ends
    BY <2>4 DEF Ends, Terminal, NoPending, Lifecycle!Next, Lifecycle!End, Lifecycle!Ends
  <2>5. CASE Suspends
    BY <2>5 DEF Suspends, Lifecycle!Next, Lifecycle!Suspend
  <2>6. CASE Awakens
    BY <2>6 DEF Awakens, Awaits, Lifecycle!Next, Lifecycle!Resume, Lifecycle!Await
  <2> QED BY <1>2, <2>1, <2>2, <2>3, <2>4, <2>5, <2>6 DEF Effect
<1>3. ASSUME UNCHANGED vars PROVE UNCHANGED Lifecycle!vars
  BY <1>3 DEF vars, Lifecycle!vars
<1>4. ASSUME Known, [Effect]_vars PROVE [Lifecycle!Next]_(Lifecycle!vars)
  BY <1>2, <1>3, <1>4
<1>5. Init => Lifecycle!Init
  BY <1>1
<1> QED BY <1>4, <1>5, OnceCorrect, PTL DEF Spec, ImplementsLifecycle, Lifecycle!Spec

-----------------------------------------------------------------------------
(* Without faults somebody always has the run. *)

\* What a step of a processor does to a job that is queued or processed, and to a dispatch.
LEMMA WorkerCarries ==
  ASSUME Known, NEW w \in Workers, WorkerStep(w), NEW a \in Acts, Pends(run, a)
  PROVE  /\ starter' = starter /\ resumer' = resumer
         /\ jobs[a] # "none" => jobs'[a] # "none"
         /\ worker[w].pc = "dispatch" /\ worker[w].next = a => jobs'[a] # "none"
         /\ \A v \in Workers \ {w} : worker'[v] = worker[v]
<1> DEFINE W == worker[w]
<1>1. worker \in [Workers -> WorkerRecord] /\ jobs \in [Acts -> {"none", "waiting", "active"}]
  BY DEF Known, TypeOK
<1>2. starter' = starter /\ resumer' = resumer
  BY DEF WorkerStep, Receive, Read, HandleIgnored, Handle, ClearResume, MarkNodeRunning,
         ReportLoad, ReportSave, ExecuteReturns, ExecuteThrows, ExecuteSuspends, Deliver,
         SuspendSave, ResultIgnored, ResultHalts, ResultCompletes, ResultOverBudget,
         ResultRejected, ResultEnqueues, Dispatch, SaveFailure, ErrorIgnored, ErrorRecovers,
         ErrorFails, Ack, EndRun
<1>3. \/ jobs' = jobs
      \/ \E b \in Acts : Receive(w, b)
      \/ Dispatch(w) \/ Ack(w)
  BY DEF WorkerStep, Read, HandleIgnored, Handle, ClearResume, MarkNodeRunning,
         ReportLoad, ReportSave, ExecuteReturns, ExecuteThrows, ExecuteSuspends, Deliver,
         SuspendSave, ResultIgnored, ResultHalts, ResultCompletes, ResultOverBudget,
         ResultRejected, ResultEnqueues, SaveFailure, ErrorIgnored, ErrorRecovers,
         ErrorFails, EndRun
<1>4. jobs[a] # "none" => jobs'[a] # "none"
  <2>1. ASSUME NEW b \in Acts, Receive(w, b), jobs[a] # "none" PROVE jobs'[a] # "none"
    BY <1>1, <2>1 DEF Receive
  <2>2. ASSUME Dispatch(w), jobs[a] # "none" PROVE jobs'[a] # "none"
    BY <1>1, <2>2 DEF Dispatch
  <2>3. ASSUME Ack(w), jobs[a] # "none" PROVE jobs'[a] # "none"
    <3>1. W.pc = "ack" /\ W.act # a
      BY <2>3 DEF Ack, Known, OnceInv, Placed
    <3> QED BY <1>1, <2>3, <3>1 DEF Ack
  <2> QED BY <1>3, <2>1, <2>2, <2>3
<1>5. W.pc = "dispatch" => Dispatch(w)
  BY DEF WorkerStep, Receive, Read, HandleIgnored, Handle, ClearResume, MarkNodeRunning,
         ReportLoad, ReportSave, ExecuteReturns, ExecuteThrows, ExecuteSuspends, Deliver,
         SuspendSave, ResultIgnored, ResultHalts, ResultCompletes, ResultOverBudget,
         ResultRejected, ResultEnqueues, SaveFailure, ErrorIgnored, ErrorRecovers,
         ErrorFails, Ack, InResult, InError
<1>6. W.pc = "dispatch" /\ W.next = a => jobs'[a] # "none"
  BY <1>1, <1>5 DEF Dispatch
<1>7. \E rec : Becomes(w, rec)
  BY DEF WorkerStep, Receive, Read, HandleIgnored, Handle, ClearResume, MarkNodeRunning,
         ReportLoad, ReportSave, ExecuteReturns, ExecuteThrows, ExecuteSuspends, Deliver,
         SuspendSave, ResultIgnored, ResultHalts, ResultCompletes, ResultOverBudget,
         ResultRejected, ResultEnqueues, Dispatch, SaveFailure, ErrorIgnored, ErrorRecovers,
         ErrorFails, Ack, EndRun, Return, RetryOr
<1>8. \A v \in Workers \ {w} : worker'[v] = worker[v]
  BY <1>1, <1>7 DEF Becomes
<1> QED BY <1>2, <1>4, <1>6, <1>8

\* Every step of a processor leaves the activation the run waits for with somebody: the same
\* activation, or the one the step made, which the handler has yet to dispatch.
LEMMA WorkerStepCarried ==
  ASSUME Undisturbed, Known, PendingHasCarrier, NEW w \in Workers, WorkerStep(w)
  PROVE  PendingHasCarrier'
<1>1. worker \in [Workers -> WorkerRecord] /\ run \in RunRecord /\ TypeOK
  BY DEF Known, TypeOK
<1>2. CASE Moves /\ ResultEnqueues(w)
  <2> DEFINE G == Goto(w, "dispatch")
             ending == MergeTerminal(worker[w].state, "failed", Tail(Planned(w)), Count(w))
             rec == [G EXCEPT !.next = acts + 1, !.ending = ending,
                              !.keys = TerminalKeys(worker[w].state)]
  <2>1. worker' = [worker EXCEPT ![w] = rec]
    BY <1>2 DEF ResultEnqueues, Becomes
  <2>2. G \in WorkerRecord /\ Goes(G, w, "dispatch")
    BY <1>1, GotoType, GotoGoes DEF WorkerPc
  <2> HIDE DEF G, ending
  <2>3. rec.pc = "dispatch" /\ rec.next = acts + 1
    BY <2>2 DEF Goes, WorkerRecord
  <2> HIDE DEF rec
  <2>4. worker'[w].pc = "dispatch" /\ worker'[w].next = acts + 1
    BY <1>1, <2>1, <2>3
  <2>5. run'.pending.act = acts + 1
    BY <1>2 DEF Moves, Awaits
  <2> QED BY <2>4, <2>5 DEF PendingHasCarrier
<1>3. CASE Ends
  BY <1>3 DEF Ends, Terminal, PendingHasCarrier
<1>4. CASE Keeps /\ run.status = "pending"
  <2> DEFINE a == run.pending.act
  <2>1. a \in Acts /\ Pends(run, a)
    BY <1>1, <1>4, LimitAssumption DEF Known, OnceInv, Pends, RunRecord, Pendings, Acts
  <2>2. run'.pending.act = a
    BY <1>4 DEF Keeps, Alike
  <2>3. \/ jobs[a] # "none"
        \/ starter = "dispatch" /\ a = 1
        \/ \E v \in Workers : worker[v].pc = "dispatch" /\ worker[v].next = a
        \/ \E r \in Resumers : resumer[r].pc = "dispatch" /\ resumer[r].next = a
    BY <1>4 DEF PendingHasCarrier
  <2> HIDE DEF a
  <2>4. \/ jobs'[a] # "none"
        \/ starter' = "dispatch" /\ a = 1
        \/ \E v \in Workers : worker'[v].pc = "dispatch" /\ worker'[v].next = a
        \/ \E r \in Resumers : resumer'[r].pc = "dispatch" /\ resumer'[r].next = a
    BY <2>1, <2>3, WorkerCarries
  <2> QED BY <2>2, <2>4 DEF PendingHasCarrier
<1>5. CASE Keeps /\ run.status # "pending"
  BY <1>5 DEF Keeps, Alike, PendingHasCarrier
<1>6. CASE Suspends
  BY <1>6 DEF Suspends, PendingHasCarrier
<1> QED BY <1>2, <1>3, <1>4, <1>5, <1>6, WorkerStepOnce

\* So does every step of a call of resumeRun.
LEMMA CallCarried ==
  ASSUME Known, PendingHasCarrier, ResumedOnce', NEW r \in Resumers,
         \/ \E task \in Tasks, verdict \in Verdicts : ResumeCall(r, task, verdict)
         \/ ResumeStep(r)
  PROVE  PendingHasCarrier'
<1>1. resumer \in [Resumers -> ResumerRecord] /\ jobs \in [Acts -> {"none", "waiting", "active"}]
  BY DEF Known, TypeOK
<1>2. CASE ResumeSave(r)
  <2> DEFINE rec == [IdleResumer EXCEPT !.pc = "dispatch", !.task = resumer[r].task, !.next = acts + 1]
  <2>1. resumer' = [resumer EXCEPT ![r] = rec]
    BY <1>2 DEF ResumeSave
  <2>2. rec.pc = "dispatch" /\ rec.next = acts + 1
    BY DEF IdleResumer
  <2> HIDE DEF rec
  <2>3. resumer'[r].pc = "dispatch" /\ resumer'[r].next = acts + 1
    BY <1>1, <2>1, <2>2
  <2>4. run'.pending.act = acts + 1
    BY <1>2, ResumesOnce DEF Awakens, Awaits
  <2> QED BY <2>3, <2>4 DEF PendingHasCarrier
<1>3. CASE ResumeDispatch(r)
  <2>1. /\ jobs' = [jobs EXCEPT ![resumer[r].next] = "waiting"] /\ resumer[r].next \in Acts
        /\ resumer' = [resumer EXCEPT ![r].pc = "done"] /\ UNCHANGED <<run, worker, starter>>
    BY <1>3 DEF ResumeDispatch, Known, OnceInv, Called
  <2>2. /\ jobs'[resumer[r].next] # "none" /\ \A a : jobs[a] # "none" => jobs'[a] # "none"
        /\ \A q \in Resumers \ {r} : resumer'[q] = resumer[q]
    BY <1>1, <2>1
  <2>3. ASSUME run.status = "pending", NEW a, a = run.pending.act
        PROVE  \/ jobs'[a] # "none"
               \/ starter' = "dispatch" /\ a = 1
               \/ \E v \in Workers : worker'[v].pc = "dispatch" /\ worker'[v].next = a
               \/ \E q \in Resumers : resumer'[q].pc = "dispatch" /\ resumer'[q].next = a
    BY <2>1, <2>2, <2>3 DEF PendingHasCarrier
  <2> QED BY <2>1, <2>3 DEF PendingHasCarrier
<1>4. CASE resumer[r].pc # "dispatch" /\ UNCHANGED <<run, jobs, worker, starter>>
           /\ \A q \in Resumers \ {r} : resumer'[q] = resumer[q]
  BY <1>4 DEF PendingHasCarrier
<1>5. ASSUME NEW rec, resumer' = [resumer EXCEPT ![r] = rec]
      PROVE  \A q \in Resumers \ {r} : resumer'[q] = resumer[q]
  BY <1>1, <1>5
<1> QED BY <1>2, <1>3, <1>4, <1>5 DEF ResumeStep, ResumeCall, ResumeRefused, ResumeRejected

\* Without faults a pending run is never left alone: its activation is queued or processed, or
\* the handler or the call of resumeRun that saved it is about to dispatch it.
THEOREM PendingCarried ==
  ASSUME Undisturbed, FaultKinds = {}
  PROVE  Spec /\ []ResumedOnce => []PendingHasCarrier
<1>1. Init => PendingHasCarrier
  BY DEF Init, CreatedRun, PendingHasCarrier
<1>2. ASSUME Known, PendingHasCarrier, ResumedOnce', [Next]_vars PROVE PendingHasCarrier'
  <2>1. CASE UNCHANGED vars
    BY <1>2, <2>1 DEF vars, PendingHasCarrier
  <2>2. CASE \E w \in Workers : WorkerStep(w)
    BY <1>2, <2>2, WorkerStepCarried
  <2>3. CASE Start
    <3>1. run'.pending.act = 1 /\ starter' = "dispatch"
      BY <1>2, <2>3, StartOnce DEF Begins, Awaits, Start, Known, OnceInv, Starting
    <3> QED BY <3>1 DEF PendingHasCarrier
  <2>4. CASE StartDispatch
    <3>1. jobs \in [Acts -> {"none", "waiting", "active"}]
      BY <1>2 DEF Known, TypeOK
    <3>2. jobs' = [jobs EXCEPT ![1] = "waiting"] /\ run' = run /\ acts = 1 /\ Pends(run, 1)
      BY <1>2, <2>4 DEF StartDispatch, Known, OnceInv, Starting
    <3>3. 1 \in Acts
      BY <1>2, <3>2, LimitAssumption DEF Known, TypeOK, Acts
    <3>4. jobs'[1] # "none"
      BY <3>1, <3>2, <3>3
    <3> QED BY <3>2, <3>4 DEF PendingHasCarrier, Pends
  <2>5. ~DispatchFails /\ \A w \in Workers, died \in BOOLEAN : ~Stall(w, died)
    BY DEF DispatchFails, Stall, Fault
  <2> QED BY <1>2, <2>1, <2>2, <2>3, <2>4, <2>5, CallCarried DEF Next
<1> QED BY <1>1, <1>2, OnceCorrect, PTL DEF Spec

-----------------------------------------------------------------------------
(* The decision on the record. *)

\* A record says nothing of a decision but for the activation that is to get it; once a handler
\* is past the splice its run, and what it has read of it, say nothing.
Decided(rec, r) ==
  /\ rec.pc \in Working \ {"clear"} =>
       /\ r.resume = NoResume
       /\ "state" \in rec.got \/ rec.pc \in {"report", "suspendSave"} => rec.state.resume = NoResume
  /\ rec.pc \in {"handle", "clear"} /\ "state" \in rec.got /\ Pends(r, rec.act)
       => rec.state.resume = r.resume
  /\ Moving(rec) => r.resume = NoResume /\ rec.ending.resume = NoResume

ResumeInv == /\ run.resume # NoResume => Pends(run, run.resume.act)
             /\ \A w \in Workers : Decided(worker[w], run)

\* What is stored of a decision is the writer's or, if it passes none, what was there.
LEMMA SavedResume ==
  ASSUME run \in RunRecord, NEW desired \in RunRecord, NEW keys
  PROVE  /\ Saved(desired, keys).resume \in {desired.resume, run.resume}
         /\ "resume" \in keys => Saved(desired, keys).resume = desired.resume
<1>1. Merge(run, desired, keys) \in RunRecord
  BY MergeType
<1>2. Merge(run, desired, keys).resume = IF "resume" \in keys THEN desired.resume ELSE run.resume
  BY DEF Merge, RunRecord
<1>3. \A r \in RunRecord : \A n : [r EXCEPT !.rev = n].resume = r.resume
  BY DEF RunRecord
<1> QED BY <1>1, <1>2, <1>3 DEF Saved

\* While a handler has the run, or its dispatch to make, the run is nobody else's, before and
\* after its step.
LEMMA OthersOut ==
  ASSUME Known, NEW w \in Workers,
         (Busy(worker[w]) /\ Pends(run, worker[w].act)) \/ Moving(worker[w]),
         Keeps \/ Moves \/ Ends \/ Suspends
  PROVE  \A v \in Workers \ {w} : Busy(worker[v]) => ~Pends(run', worker[v].act)
<1> SUFFICES ASSUME NEW v \in Workers \ {w}, Busy(worker[v]), Pends(run', worker[v].act)
             PROVE  FALSE
  OBVIOUS
<1>1. PICK a \in Acts : /\ Pends(run, a)
                        /\ \/ Busy(worker[w]) /\ a = worker[w].act
                           \/ Moving(worker[w]) /\ a = worker[w].next
  BY Position DEF Known, OnceInv, Placed
<1>2. worker[v].act # a
  BY <1>1, Alone
<1>3. CASE Keeps
  BY <1>1, <1>2, <1>3 DEF Keeps, Alike, Pends
<1>4. CASE Moves
  <2>1. worker[v].act \in Acts /\ worker[v].act <= acts
    BY Position
  <2> QED BY <1>4, <2>1, LimitAssumption DEF Moves, Awaits, Pends, Acts, Known, TypeOK
<1>5. CASE Ends \/ Suspends
  BY <1>5 DEF Ends, Suspends, Terminal, Pends
<1> QED BY <1>3, <1>4, <1>5

\* A step of a handler that leaves the record alone, or leaves no decision on it.
LEMMA ResumeFrame ==
  ASSUME Known, ResumeInv, NEW w \in Workers, NEW rec, Becomes(w, rec), Decided(rec, run'),
         \/ run' = run
         \/ /\ run'.resume = NoResume
            /\ \A v \in Workers \ {w} : Busy(worker[v]) => ~Pends(run', worker[v].act)
  PROVE  ResumeInv'
<1>1. \A v \in Workers : worker'[v] = IF v = w THEN rec ELSE worker[v]
  BY DEF Becomes, Known, TypeOK
<1>2. ASSUME NEW v \in Workers \ {w} PROVE Decided(worker[v], run')
  BY DEF ResumeInv, Decided, Busy
<1> QED BY <1>1, <1>2 DEF ResumeInv

\* A handler that goes on has read nothing yet.
LEMMA GoesDecided ==
  ASSUME NEW w, NEW rec, NEW pc, Goes(rec, w, pc), NEW r,
         pc \in {"clear", "ack"} \/ (pc \in Working /\ r.resume = NoResume)
  PROVE  Decided(rec, r)
BY DEF Goes, Decided, Moving, Working, CreatedRun

\* Every step of a processor keeps what the records say of decisions.
LEMMA WorkerStepDecided ==
  ASSUME Undisturbed, Known, ResumeInv, NEW w \in Workers, WorkerStep(w)
  PROVE  ResumeInv'
<1> DEFINE W == worker[w]
<1>1. /\ TypeOK /\ run \in RunRecord /\ worker \in [Workers -> WorkerRecord]
      /\ W \in WorkerRecord /\ W.state \in RunRecord /\ W.ending \in RunRecord
      /\ W.attempt \in Nat /\ acts \in Nat
  BY DEF Known, TypeOK, WorkerRecord
<1>2. Fresh(W, run) /\ Placed(W, run, jobs) /\ Decided(W, run)
  BY DEF Known, OnceInv, ResumeInv
<1>3. ASSUME W.pc \in Working PROVE Busy(W) /\ Pends(run, W.act) /\ W.act # 0
  BY <1>2, <1>3, LimitAssumption DEF Placed, Working, Busy, Acts
<1>4. {"mark", "clear", "exec", "error", "result", "suspend", "dispatch"} \subseteq WorkerPc
  BY DEF WorkerPc
<1>5. ASSUME \/ W.pc \in Working
             \/ Moving(W)
      PROVE  \A v \in Workers \ {w} : Busy(worker[v]) => ~Pends(run', worker[v].act)
  BY <1>3, <1>5, WorkerStepOnce, OthersOut
<1>6. ASSUME W.pc \in Working \/ run' = run, run'.resume = NoResume,
             NEW pc \in {"mark", "exec", "suspend", "result", "error"},
             \/ Becomes(w, Goto(w, pc))
             \/ \E ctx : Becomes(w, [Goto(w, pc) EXCEPT !.ctx = ctx])
             \/ \E out : Becomes(w, [Goto(w, pc) EXCEPT !.out = out])
             \/ Becomes(w, [Goto(w, pc) EXCEPT !.attempt = @ + 1])
             \/ Becomes(w, [Goto(w, pc) EXCEPT !.reported = TRUE])
      PROVE  ResumeInv'
  <2>1. PICK rec : Becomes(w, rec) /\ Goes(rec, w, pc)
    BY <1>4, <1>6, GotoGoes
  <2>2. Decided(rec, run')
    BY <1>6, <2>1, GoesDecided DEF Working
  <2> QED BY <1>5, <1>6, <2>1, <2>2, ResumeFrame
<1>7. ASSUME Return(w), run' = run \/ (run'.resume = NoResume /\ (W.pc \in Working \/ Moving(W)))
      PROVE  ResumeInv'
  <2>1. PICK rec : Becomes(w, rec) /\ Goes(rec, w, "ack")
    BY <1>1, <1>7, ReturnGoes
  <2>2. Decided(rec, run')
    BY <2>1, GoesDecided
  <2> QED BY <1>5, <1>7, <2>1, <2>2, ResumeFrame
<1>8. ASSUME W.pc \in Working \ {"clear"} PROVE run.resume = NoResume
  BY <1>2, <1>8 DEF Decided
<1>9. ASSUME W.pc \in Working \ {"clear"} \/ Moving(W), NEW desired \in RunRecord, NEW keys,
             desired.resume = NoResume, run' = Saved(desired, keys)
      PROVE  run'.resume = NoResume
  BY <1>1, <1>2, <1>9, SavedResume DEF Decided
<1>10. ASSUME "state" \in W.got, W.pc \in {"handle", "clear"}, Pends(run, W.act)
       PROVE  W.state.resume = run.resume /\ (W.state.resume.act # W.act => run.resume = NoResume)
  BY <1>2, <1>10 DEF Decided, ResumeInv, Pends
<1>11. ASSUME NEW a \in Acts, Receive(w, a) PROVE ResumeInv'
  <2> DEFINE rec == [IdleWorker EXCEPT !.pc = "handle", !.act = a, !.node = nodeOf[a],
                                       !.lock = TRUE, !.attempt = 1]
  <2>1. rec.pc = "handle" /\ rec.got = {}
    BY DEF IdleWorker
  <2>2. Becomes(w, rec) /\ run' = run
    BY <1>11 DEF Receive
  <2> HIDE DEF rec
  <2>3. Decided(rec, run')
    BY <2>1 DEF Decided, Moving, Working
  <2> QED BY <2>2, <2>3, ResumeFrame
<1>12. ASSUME NEW parts, Read(w, parts) PROVE ResumeInv'
  <2> DEFINE rec == [W EXCEPT !.got = @ \cup parts, !.state = IF "state" \in parts THEN run ELSE @,
                              !.sched = IF "sched" \in parts THEN Sched(run) ELSE @]
  <2>1. /\ rec.pc = W.pc /\ rec.act = W.act /\ rec.got = W.got \cup parts /\ rec.ending = W.ending
        /\ rec.state = IF "state" \in parts THEN run ELSE W.state
    BY <1>1 DEF WorkerRecord
  <2>2. Becomes(w, rec) /\ run' = run /\ W.pc # "report"
    BY <1>12 DEF Read
  <2> HIDE DEF rec
  <2>3. Decided(rec, run')
    BY <1>2, <2>1, <2>2 DEF Decided, Moving
  <2> QED BY <2>2, <2>3, ResumeFrame
<1>13. ASSUME HandleIgnored(w) PROVE ResumeInv'
  BY <1>7, <1>13 DEF HandleIgnored
<1>14. ASSUME Handle(w) PROVE ResumeInv'
  <2>1. Pends(run, W.act) /\ W.pc = "handle" /\ W.got = {"state", "sched"} /\ run' = run
    BY <1>14, Reading DEF Handle, HasRead, Reads
  <2>2. CASE W.state.resume.act = W.act
    <3> DEFINE ctx == W.state.resume.verdict
    <3>1. Becomes(w, [Goto(w, "clear") EXCEPT !.ctx = ctx])
      <4>1. ctx # "none"
        BY <1>1 DEF RunRecord, Resumes, Verdicts
      <4>2. Becomes(w, [Goto(w, IF ctx = "none" THEN "mark" ELSE "clear") EXCEPT !.ctx = ctx])
        BY <1>14, <2>2 DEF Handle
      <4> HIDE DEF ctx
      <4> QED BY <4>1, <4>2
    <3> HIDE DEF ctx
    <3>2. Goes([Goto(w, "clear") EXCEPT !.ctx = ctx], w, "clear")
      BY <1>4, GotoGoes
    <3>3. Decided([Goto(w, "clear") EXCEPT !.ctx = ctx], run')
      BY <3>2, GoesDecided
    <3> QED BY <2>1, <3>1, <3>3, ResumeFrame
  <2>3. CASE W.state.resume.act # W.act
    <3>1. Becomes(w, [Goto(w, "mark") EXCEPT !.ctx = "none"])
      BY <1>14, <2>3 DEF Handle
    <3> QED BY <1>6, <1>10, <2>1, <2>3, <3>1
  <2> QED BY <2>2, <2>3
<1>15. ASSUME ClearResume(w) PROVE ResumeInv'
  <2>1. Pends(run, W.act) /\ W.pc = "clear" /\ W.got = {"state"}
    BY <1>3, <1>15 DEF ClearResume, HasRead, Reads, Working
  <2>2. run'.resume = NoResume
    <3>1. [W.state EXCEPT !.resume = NoResume] \in RunRecord
          /\ [W.state EXCEPT !.resume = NoResume].resume = NoResume /\ "resume" \in HitlKeys
      BY <1>1, HitlUpdates DEF RunRecord, HitlKeys
    <3> QED BY <1>1, <1>10, <1>15, <2>1, <3>1, SavedResume DEF ClearResume
  <2>3. Becomes(w, Goto(w, "mark"))
    BY <1>15 DEF ClearResume
  <2> QED BY <1>6, <2>1, <2>2, <2>3 DEF Working
<1>16. ASSUME MarkNodeRunning(w) PROVE ResumeInv'
  <2>1. W.pc \in Working \ {"clear"} /\ W.state.resume = NoResume /\ Becomes(w, Goto(w, "exec"))
        /\ (run' = run \/ run' = Saved(W.state, LoadedKeys(W.state)))
    BY <1>2, <1>16 DEF MarkNodeRunning, HasRead, Reads, Working, Decided
  <2> QED BY <1>1, <1>6, <1>8, <1>9, <2>1
<1>17. ASSUME ReportLoad(w) PROVE ResumeInv'
  <2> DEFINE rec == [W EXCEPT !.pc = "report", !.state = run]
  <2>1. rec.pc = "report" /\ rec.state = run
    BY <1>1 DEF WorkerRecord
  <2>2. Becomes(w, rec) /\ run' = run /\ W.pc = "exec"
    BY <1>17 DEF ReportLoad
  <2> HIDE DEF rec
  <2>3. Decided(rec, run')
    BY <1>8, <2>1, <2>2 DEF Decided, Moving, Working
  <2> QED BY <2>2, <2>3, ResumeFrame
<1>18. ASSUME ReportSave(w) PROVE ResumeInv'
  <2>1. W.pc \in Working \ {"clear"} /\ W.state.resume = NoResume
        /\ Becomes(w, [Goto(w, "exec") EXCEPT !.reported = TRUE])
        /\ run' = Saved(W.state, LoadedKeys(W.state))
    BY <1>2, <1>18 DEF ReportSave, Working, Decided
  <2> QED BY <1>1, <1>6, <1>9, <2>1
<1>19. ASSUME ExecuteReturns(w) PROVE ResumeInv'
  <2>1. run' = run /\ W.pc \in Working \ {"clear"}
        /\ \E out : Becomes(w, [Goto(w, "result") EXCEPT !.out = out])
    BY <1>19 DEF ExecuteReturns, Working
  <2> QED BY <1>6, <1>8, <2>1
<1>20. ASSUME ExecuteThrows(w) PROVE ResumeInv'
  <2>1. run' = run /\ W.pc \in Working \ {"clear"}
    BY <1>20 DEF ExecuteThrows, Working
  <2>2. \/ Becomes(w, [Goto(w, "exec") EXCEPT !.attempt = @ + 1])
        \/ Becomes(w, Goto(w, "error"))
    BY <1>20 DEF ExecuteThrows, RetryOr
  <2> QED BY <1>6, <1>8, <2>1, <2>2
<1>21. ASSUME ExecuteSuspends(w) PROVE ResumeInv'
  <2>1. run' = run /\ W.pc \in Working \ {"clear"} /\ Becomes(w, Goto(w, "suspend"))
    BY <1>21 DEF ExecuteSuspends, Working
  <2> QED BY <1>6, <1>8, <2>1
<1>22. ASSUME Deliver(w) PROVE ResumeInv'
  <2> DEFINE rec == [W EXCEPT !.pc = "suspendSave", !.task = tasks + 1]
  <2>1. rec.pc = "suspendSave" /\ rec.state = W.state
    BY <1>1 DEF WorkerRecord
  <2>2. Becomes(w, rec) /\ run' = run /\ W.pc = "suspend" /\ W.got = {"state"}
    BY <1>22 DEF Deliver, HasRead, Reads
  <2> HIDE DEF rec
  <2>3. Decided(rec, run')
    BY <1>2, <2>1, <2>2 DEF Decided, Moving, Working
  <2> QED BY <2>2, <2>3, ResumeFrame
<1>23. ASSUME SuspendSave(w) PROVE ResumeInv'
  <2> DEFINE entry == [task |-> W.task, node |-> W.node, act |-> W.act]
             desired == [W.state EXCEPT !.status = "suspended", !.susp = @ \cup {entry}]
  <2>1. W.pc = "suspendSave" /\ run' = Saved(desired, LoadedKeys(W.state) \cup {"susp"})
    BY <1>23 DEF SuspendSave
  <2>2. W.state.resume = NoResume /\ W.pc \in Working \ {"clear"} /\ W.attempt >= 1
        /\ ApprovalNodes # {}
    BY <1>2, <2>1 DEF Decided, Placed, Working
  <2>3. desired \in RunRecord /\ desired.resume = W.state.resume
    <3>1. W.task \in 0..MaxTasks /\ W.node \in Nodes /\ W.act \in 0..MaxActs
      BY <1>1 DEF WorkerRecord
    <3>2. entry \in Suspensions
      BY <3>1 DEF Suspensions
    <3> HIDE DEF entry
    <3>3. desired \in RunRecord
      BY <1>1, <3>2, HitlUpdates
    <3>4. desired.resume = W.state.resume
      BY <1>1 DEF RunRecord
    <3> QED BY <3>3, <3>4
  <2>4. Return(w)
    BY <1>1, <1>23, <2>2 DEF SuspendSave, Undisturbed
  <2> HIDE DEF desired
  <2> QED BY <1>7, <1>9, <2>1, <2>2, <2>3, <2>4
<1>24. ASSUME W.pc \in {"result", "error"}, HasRead(w)
       PROVE  IsPending(w) /\ W.state.resume = NoResume /\ W.state.status = "pending"
              /\ W.pc \in Working \ {"clear"}
  <2>1. IsPending(w)
    BY <1>3, <1>24, Reading DEF Working
  <2> QED BY <1>2, <1>24, <2>1 DEF Decided, HasRead, Reads, Working, IsPending
<1>25. ~ResultIgnored(w) /\ ~ErrorIgnored(w)
  BY <1>24 DEF ResultIgnored, ErrorIgnored
<1>26. ASSUME NEW status \in Terminal, NEW queue \in Seq(Nodes), NEW count \in Nat,
              EndRun(w, W.state, status, queue, count), W.pc \in {"result", "error"}, HasRead(w)
       PROVE  ResumeInv'
  <2> DEFINE desired == MergeTerminal(W.state, status, queue, count)
  <2>1. desired \in RunRecord /\ desired.resume = W.state.resume
    BY <1>1, <1>26, MergeTerminalType, MergeTerminalFields
  <2>2. Return(w) /\ \E keys : run' = Saved(desired, keys)
    BY <1>26 DEF EndRun
  <2> HIDE DEF desired
  <2> QED BY <1>7, <1>9, <1>24, <1>26, <2>1, <2>2
<1>27. /\ {"completed", "failed", "halted"} \subseteq Terminal /\ <<>> \in Seq(Nodes)
       /\ Planned(w) # <<>> => Head(Planned(w)) \in Nodes /\ Tail(Planned(w)) \in Seq(Nodes)
       /\ Count(w) \in Nat /\ W.sched.queue \in Seq(Nodes) /\ W.state.count \in Nat
  <2>1. W.sched.queue \in Seq(Nodes) /\ W.state.count \in Nat
    BY <1>1 DEF RunRecord, WorkerRecord, SchedulingState
  <2>2. Planned(w) # <<>> => Head(Planned(w)) \in Nodes /\ Tail(Planned(w)) \in Seq(Nodes)
    BY <1>1, PlannedType
  <2> QED BY <2>1, <2>2 DEF Terminal, Count
<1>28. ASSUME ResultHalts(w) \/ ResultCompletes(w) \/ ResultOverBudget(w) \/ ResultRejected(w)
              \/ ErrorFails(w)
       PROVE  ResumeInv'
  BY <1>26, <1>27, <1>28 DEF ResultHalts, ResultCompletes, ResultOverBudget, ResultRejected,
                             ErrorFails, InResult, InError
<1>29. ASSUME ErrorRecovers(w) PROVE ResumeInv'
  <2> DEFINE ending == MergeTerminal(W.state, "failed", W.sched.queue, W.state.count)
  <2>1. PICK out : Becomes(w, [Goto(w, "result") EXCEPT !.out = out, !.recovering = TRUE,
                                 !.ending = ending, !.keys = TerminalKeys(W.state)])
    BY <1>29 DEF ErrorRecovers
  <2>2. run' = run /\ W.pc = "error" /\ HasRead(w)
    BY <1>29 DEF ErrorRecovers, InError
  <2>3. Answered(ending, Resumed)
    BY <1>1, <1>24, <2>2, MergeTerminalFields DEF Answered, Known, OnceInv, Remembers
  <2> HIDE DEF ending
  <2>4. Goes([Goto(w, "result") EXCEPT !.out = out, !.recovering = TRUE,
               !.ending = ending, !.keys = TerminalKeys(W.state)], w, "result")
    BY <1>4, <2>3, GotoGoes
  <2>5. Decided([Goto(w, "result") EXCEPT !.out = out, !.recovering = TRUE,
                  !.ending = ending, !.keys = TerminalKeys(W.state)], run')
    BY <1>8, <1>24, <2>2, <2>4, GoesDecided DEF Working
  <2> QED BY <2>1, <2>2, <2>5, ResumeFrame
<1>30. ASSUME ResultEnqueues(w) PROVE ResumeInv'
  <2> DEFINE queue == Tail(Planned(w))
             ending == MergeTerminal(W.state, "failed", queue, Count(w))
             desired == Enqueued(acts + 1, Head(Planned(w)), queue, Count(w), {}, NoResume)
             G == Goto(w, "dispatch")
             rec == [G EXCEPT !.next = acts + 1, !.ending = ending, !.keys = TerminalKeys(W.state)]
  <2>1. W.pc = "result" /\ HasRead(w) /\ Planned(w) # <<>> /\ acts + 1 \in 0..MaxActs
    BY <1>1, <1>30, LimitAssumption DEF ResultEnqueues, InResult, MakeActivation
  <2>2. Becomes(w, rec) /\ run' = Saved(desired, {})
    BY <1>30 DEF ResultEnqueues
  <2>3. desired \in RunRecord
    <3>1. NoResume \in Resumes /\ {} \in SUBSET Suspensions
      BY LimitAssumption DEF NoResume, Resumes, Verdicts
    <3> QED BY <1>27, <2>1, <3>1, EnqueuedType
  <2>4. desired.resume = NoResume
    BY DEF Enqueued
  <2>5. ending.resume = NoResume
    BY <1>1, <1>24, <2>1, MergeTerminalFields
  <2>6. G \in WorkerRecord
    BY <1>1, <1>4, GotoType
  <2> HIDE DEF queue, ending, desired, G
  <2>7. rec.pc = G.pc /\ rec.ending = ending
    BY <2>6 DEF WorkerRecord
  <2>8. G.pc = "dispatch"
    BY <1>4, GotoGoes DEF Goes, G
  <2> HIDE DEF rec
  <2>9. run'.resume = NoResume
    BY <1>9, <1>24, <2>1, <2>2, <2>3, <2>4
  <2>10. Decided(rec, run')
    BY <2>5, <2>7, <2>8, <2>9 DEF Decided, Working
  <2> QED BY <1>5, <1>24, <2>1, <2>2, <2>9, <2>10, ResumeFrame
<1>31. ASSUME SaveFailure(w) PROVE ResumeInv'
  <2>1. Moving(W) /\ Return(w) /\ run' = Saved(W.ending, W.keys)
    BY <1>2, <1>31 DEF SaveFailure, Placed, Moving
  <2>2. W.ending.resume = NoResume
    BY <1>2, <2>1 DEF Decided
  <2> QED BY <1>1, <1>7, <1>9, <2>1, <2>2
<1>32. ASSUME Dispatch(w) PROVE ResumeInv'
  BY <1>7, <1>32 DEF Dispatch
<1>33. ASSUME Ack(w) PROVE ResumeInv'
  <2>1. Decided(IdleWorker, run)
    BY DEF Decided, IdleWorker, Working, Moving
  <2> QED BY <1>33, <2>1, ResumeFrame DEF Ack
<1> QED
  BY <1>11, <1>12, <1>13, <1>14, <1>15, <1>16, <1>17, <1>18, <1>19, <1>20, <1>21, <1>22, <1>23,
     <1>25, <1>28, <1>29, <1>30, <1>31, <1>32, <1>33
  DEF WorkerStep

\* A call that resumes the run leaves the decision for the activation it makes.
LEMMA ResumeSaves ==
  ASSUME Known, ResumedOnce', NEW r \in Resumers, ResumeSave(r)
  PROVE  /\ run.status = "suspended" /\ worker' = worker /\ jobs' = jobs
         /\ Pends(run', acts + 1) /\ run'.resume.act = acts + 1 /\ acts' = acts + 1
         /\ resumer[r].next = 0 /\ acts + 1 \in Acts
         /\ \A q \in Resumers : resumer'[q].next = IF q = r THEN acts + 1 ELSE resumer[q].next
<1> DEFINE R == resumer[r]
           remaining == R.state.susp \ Entries(r)
           resume == [act |-> acts + 1, verdict |-> R.verdict]
           keys == IF remaining = {} THEN {"resume"} ELSE {"resume", "susp"}
           rec == [IdleResumer EXCEPT !.pc = "dispatch", !.task = R.task, !.next = acts + 1]
<1>1. run \in RunRecord /\ acts \in Nat /\ resumer \in [Resumers -> ResumerRecord]
  BY DEF Known, TypeOK
<1>2. PICK entry \in Entries(r) :
        /\ MakeActivation(entry.node)
        /\ run' = Saved(Enqueued(acts + 1, entry.node, <<>>, R.state.count, remaining, resume), keys)
  BY DEF ResumeSave
<1>3. /\ R.verdict \in Verdicts /\ R.state \in RunRecord /\ R.state.count \in Nat
      /\ R.state.susp \in SUBSET Suspensions
  BY <1>1 DEF ResumerRecord, RunRecord
<1>4. entry.node \in Nodes /\ acts + 1 \in 0..MaxActs /\ <<>> \in Seq(Nodes) /\ acts + 1 \in Acts
  BY <1>1, <1>2, <1>3, LimitAssumption DEF Entries, Suspensions, MakeActivation, Acts
<1>5. resume \in Resumes /\ remaining \in SUBSET Suspensions
  BY <1>3, <1>4 DEF Resumes
<1> HIDE DEF remaining, resume
<1>6. Enqueued(acts + 1, entry.node, <<>>, R.state.count, remaining, resume) \in RunRecord
  BY <1>3, <1>4, <1>5, EnqueuedType
<1>7. Enqueued(acts + 1, entry.node, <<>>, R.state.count, remaining, resume).resume = resume
      /\ "resume" \in keys
  BY DEF Enqueued
<1> HIDE DEF keys
<1>8. run'.resume = resume
  BY <1>1, <1>2, <1>6, <1>7, SavedResume
<1>9. resume.act = acts + 1
  BY DEF resume
<1>10. run.status = "suspended" /\ R.next = 0 /\ Awakens
  BY CallReads, ResumesOnce
<1>11. Pends(run', acts + 1) /\ acts' = acts + 1
  BY <1>10 DEF Awakens, Awaits, Pends
<1>12. worker' = worker /\ jobs' = jobs /\ resumer' = [resumer EXCEPT ![r] = rec]
  BY DEF ResumeSave
<1>13. rec.next = acts + 1
  BY DEF IdleResumer
<1> HIDE DEF rec
<1>14. \A q \in Resumers : resumer'[q].next = IF q = r THEN acts + 1 ELSE resumer[q].next
  BY <1>1, <1>12, <1>13
<1> QED BY <1>4, <1>8, <1>9, <1>10, <1>11, <1>12, <1>14

\* So does every other step.
LEMMA StepDecided ==
  ASSUME Undisturbed, Known, ResumedOnce', ResumeInv, [Next]_vars
  PROVE  ResumeInv'
<1>1. TypeOK /\ run \in RunRecord /\ worker \in [Workers -> WorkerRecord] /\ acts \in Nat
      /\ resumer \in [Resumers -> ResumerRecord]
  BY DEF Known, TypeOK
<1>2. ASSUME run' = run, worker' = worker PROVE ResumeInv'
  BY <1>2 DEF ResumeInv
<1>3. CASE \E w \in Workers : WorkerStep(w)
  BY <1>3, WorkerStepDecided
<1>4. CASE Start
  <2> DEFINE desired == Enqueued(acts + 1, Entry, <<>>, 0, {}, NoResume)
  <2>1. run' = Saved(desired, {}) /\ worker' = worker /\ starter = "start" /\ acts + 1 \in 0..MaxActs
    BY <1>1, <1>4, LimitAssumption DEF Start, MakeActivation
  <2>2. desired \in RunRecord
    <3>1. NoResume \in Resumes /\ {} \in SUBSET Suspensions /\ <<>> \in Seq(Nodes) /\ 0 \in Nat
      BY LimitAssumption DEF NoResume, Resumes, Verdicts
    <3> QED BY <2>1, <3>1, GraphAssumption, EnqueuedType
  <2>3. desired.resume = NoResume
    BY DEF Enqueued
  <2> HIDE DEF desired
  <2>4. run.resume = NoResume
    BY <2>1 DEF ResumeInv, Known, OnceInv, Starting, Alike, CreatedRun, Pends
  <2>5. run'.resume = NoResume
    BY <1>1, <2>1, <2>2, <2>3, <2>4, SavedResume
  <2>6. \A w \in Workers : Decided(worker[w], run')
    <3>1. \A w \in Workers : worker[w].pc = "idle"
      BY <2>1, Position DEF Busy
    <3> QED BY <3>1 DEF Decided, Working, Moving
  <2> QED BY <2>1, <2>5, <2>6 DEF ResumeInv
<1>5. ASSUME NEW r \in Resumers, ResumeSave(r) PROVE ResumeInv'
  <2>1. /\ run.status = "suspended" /\ Pends(run', acts + 1) /\ run'.resume.act = acts + 1
        /\ worker' = worker /\ \A a \in Acts : Pends(run', a) => a > acts
    BY <1>1, <1>5, ResumeSaves DEF Pends
  <2>2. ASSUME NEW w \in Workers PROVE Decided(worker[w], run')
    <3>1. ~Moving(worker[w]) /\ worker[w].pc \notin Working
      BY <2>1 DEF Known, OnceInv, Placed, Pends
    <3>2. ASSUME worker[w].pc = "handle" PROVE ~Pends(run', worker[w].act)
      <4>1. worker[w].act \in Acts /\ worker[w].act <= acts
        BY <3>2, Position DEF Busy
      <4> QED BY <1>1, <2>1, <4>1, LimitAssumption DEF Acts
    <3> QED BY <3>1, <3>2 DEF Decided, Working
  <2> QED BY <2>1, <2>2 DEF ResumeInv
<1>6. ASSUME NEW r \in Resumers, ResumeStep(r) PROVE ResumeInv'
  BY <1>2, <1>5, <1>6 DEF ResumeStep, ResumeRefused, ResumeRejected, ResumeDispatch
<1>7. ASSUME NEW w \in Workers, NEW died \in BOOLEAN, Stall(w, died) PROVE ResumeInv'
  <2>1. died
    BY <1>7 DEF Stall, Fault, Undisturbed
  <2>2. Decided(IdleWorker, run)
    BY DEF Decided, IdleWorker, Working, Moving
  <2> QED BY <1>7, <2>1, <2>2, ResumeFrame DEF Stall
<1>8. ASSUME NEW w \in Workers, worker[w].pc = "dispatch",
             Becomes(w, [worker[w] EXCEPT !.pc = "terminate"]), run' = run
      PROVE  ResumeInv'
  <2> DEFINE rec == [worker[w] EXCEPT !.pc = "terminate"]
  <2>1. rec.pc = "terminate" /\ rec.ending = worker[w].ending
    BY <1>1 DEF WorkerRecord
  <2>2. Becomes(w, rec)
    BY <1>8
  <2> HIDE DEF rec
  <2>3. Decided(rec, run)
    BY <1>8, <2>1 DEF ResumeInv, Decided, Moving, Working
  <2> QED BY <1>8, <2>2, <2>3, ResumeFrame
<1>9. CASE DispatchFails
  BY <1>2, <1>8, <1>9 DEF DispatchFails
<1> QED BY <1>2, <1>3, <1>4, <1>6, <1>7, <1>9 DEF Next, vars, StartDispatch, ResumeCall

LEMMA InitDecided == Init => ResumeInv
<1>1. Decided(IdleWorker, run)
  BY DEF Decided, IdleWorker, Working, Moving
<1> QED BY <1>1 DEF Init, ResumeInv, CreatedRun

LEMMA ResumeCorrect ==
  ASSUME Undisturbed
  PROVE  Spec /\ []ResumedOnce => []ResumeInv
<1>1. ASSUME Known, ResumedOnce', ResumeInv, [Next]_vars PROVE ResumeInv'
  BY <1>1, StepDecided
<1> QED BY <1>1, InitDecided, OnceCorrect, PTL DEF Spec

-----------------------------------------------------------------------------
(* The entries of the record, in memory.  The last writer wins there, so   *)
(* the entries of a record are those its writer had; the Prisma merge      *)
(* keeps an answered entry when the writer passes none.                    *)

\* A record has an entry while it says "suspended", and only one.
Sole(rec) == IF rec.status = "suspended" THEN \E s : rec.susp = {s} ELSE rec.susp = {}

SoleWorker(rec) == Sole(rec.state) /\ Sole(rec.ending)
SoleInv == Sole(run) /\ \A w \in Workers : SoleWorker(worker[w])

\* The first record has none, nor has the copy of a processor that holds nothing.
LEMMA IdleSole ==
  /\ Sole(CreatedRun) /\ SoleWorker(IdleWorker)
  /\ \A act, lock : SoleWorker([IdleWorker EXCEPT !.pc = "ack", !.act = act, !.lock = lock])
  /\ \A act, node : SoleWorker([IdleWorker EXCEPT !.pc = "handle", !.act = act, !.node = node,
                                                  !.lock = TRUE, !.attempt = 1])
BY DEF Sole, CreatedRun, SoleWorker, IdleWorker

\* What is saved is what the writer had.
LEMMA SavedSole ==
  ASSUME Store = "memory", NEW desired \in RunRecord, Sole(desired), NEW keys
  PROVE  Sole(Saved(desired, keys))
<1>1. \A n : [desired EXCEPT !.rev = n].status = desired.status
             /\ [desired EXCEPT !.rev = n].susp = desired.susp
  BY DEF RunRecord
<1> QED BY <1>1 DEF Saved, Sole

\* A handler that goes on keeps the ending it has prepared.
LEMMA GotoSole ==
  ASSUME TypeOK, NEW w \in Workers, SoleWorker(worker[w]), NEW pc \in WorkerPc
  PROVE  /\ SoleWorker(Goto(w, pc))
         /\ \A ctx : SoleWorker([Goto(w, pc) EXCEPT !.ctx = ctx])
         /\ \A out : SoleWorker([Goto(w, pc) EXCEPT !.out = out])
         /\ SoleWorker([Goto(w, pc) EXCEPT !.attempt = @ + 1])
         /\ SoleWorker([Goto(w, pc) EXCEPT !.attempt = @ + 1, !.task = 0])
         /\ SoleWorker([Goto(w, pc) EXCEPT !.reported = TRUE])
         /\ \A next, keys, ending : Sole(ending) =>
              SoleWorker([Goto(w, pc) EXCEPT !.next = next, !.ending = ending, !.keys = keys])
         /\ \A out, keys, ending : Sole(ending) =>
              SoleWorker([Goto(w, pc) EXCEPT !.out = out, !.recovering = TRUE, !.ending = ending,
                                             !.keys = keys])
<1> DEFINE G == Goto(w, pc)
<1>1. G.state = CreatedRun /\ G.ending = worker[w].ending
  BY DEF TypeOK, WorkerRecord, Goto
<1>2. G \in WorkerRecord
  BY GotoType DEF TypeOK
<1>3. Sole(G.state) /\ Sole(G.ending)
  BY <1>1, IdleSole DEF SoleWorker
<1> HIDE DEF G
<1> QED BY <1>2, <1>3 DEF SoleWorker, WorkerRecord, G

\* A step of a processor that leaves such records of its own and of the run.
LEMMA SoleFrame ==
  ASSUME TypeOK, SoleInv, NEW w \in Workers, NEW rec, SoleWorker(rec), Becomes(w, rec), Sole(run')
  PROVE  SoleInv'
<1>1. \A v \in Workers : SoleWorker(worker'[v])
  BY DEF TypeOK, SoleInv, Becomes
<1> QED BY <1>1 DEF SoleInv, SoleWorker, Sole

\* A handler that ends the run has read it as waiting, without an entry.
LEMMA MergeTerminalSole ==
  ASSUME NEW state \in RunRecord, Sole(state), state.status = "pending",
         NEW status \in Terminal, NEW queue, NEW count
  PROVE  Sole(MergeTerminal(state, status, queue, count))
<1>1. state.susp = {}
  BY DEF Sole
<1>2. status # "suspended"
  BY DEF Terminal
<1> QED BY <1>1, <1>2, MergeTerminalFields DEF Sole

LEMMA EndRunSole ==
  ASSUME Store = "memory", TypeOK, SoleInv, NEW w \in Workers, IsPending(w),
         NEW status \in Terminal, NEW queue \in Seq(Nodes), NEW count \in Nat,
         EndRun(w, worker[w].state, status, queue, count)
  PROVE  SoleInv'
<1> DEFINE desired == MergeTerminal(worker[w].state, status, queue, count)
<1>1. worker[w].state \in RunRecord /\ worker[w].state.status = "pending"
  BY DEF TypeOK, WorkerRecord, IsPending
<1>2. desired \in RunRecord /\ Sole(desired)
  BY <1>1, MergeTerminalType, MergeTerminalSole DEF SoleInv, SoleWorker
<1> HIDE DEF desired
<1>3. Sole(run')
  BY <1>2, SavedSole DEF EndRun, desired
<1>4. PICK act, lock : Becomes(w, [IdleWorker EXCEPT !.pc = "ack", !.act = act, !.lock = lock])
  BY DEF EndRun, Return
<1> QED BY <1>3, <1>4, IdleSole, SoleFrame

\* Every step of a processor keeps it: an approval node's handler is the only one to add an
\* entry, to a record that waits for it, which has none.
LEMMA WorkerStepSole ==
  ASSUME Undisturbed, Store = "memory", Known, SoleInv, NEW w \in Workers, WorkerStep(w)
  PROVE  SoleInv'
<1> DEFINE W == worker[w]
<1>1. /\ TypeOK /\ worker \in [Workers -> WorkerRecord] /\ run \in RunRecord
      /\ W \in WorkerRecord /\ W.state \in RunRecord /\ W.ending \in RunRecord
      /\ W.sched.queue \in Seq(Nodes) /\ W.state.count \in Nat /\ acts \in Nat
  <2>1. TypeOK /\ worker \in [Workers -> WorkerRecord] /\ run \in RunRecord /\ acts \in Nat
    BY DEF Known, TypeOK
  <2>2. /\ W \in WorkerRecord /\ W.state \in RunRecord /\ W.ending \in RunRecord
        /\ W.sched \in SchedulingState
    BY <2>1 DEF WorkerRecord
  <2> QED BY <2>1, <2>2 DEF SchedulingState, RunRecord
<1>2. SoleWorker(W) /\ Sole(W.state) /\ Sole(W.ending) /\ Sole(run)
  BY DEF SoleInv, SoleWorker
<1>3. ASSUME NEW rec, SoleWorker(rec), Becomes(w, rec), Sole(run') PROVE SoleInv'
  BY <1>1, <1>3, SoleFrame
<1>4. ASSUME Return(w), Sole(run') PROVE SoleInv'
  BY <1>3, <1>4, IdleSole DEF Return
<1>5. {"mark", "clear", "exec", "error", "result", "suspend", "failSave", "dispatch"} \subseteq WorkerPc
  BY DEF WorkerPc
<1>6. ASSUME NEW pc \in {"mark", "exec", "error", "result", "suspend", "failSave"}, Sole(run'),
             \/ Becomes(w, Goto(w, pc))
             \/ \E ctx : Becomes(w, [Goto(w, pc) EXCEPT !.ctx = ctx])
             \/ \E out : Becomes(w, [Goto(w, pc) EXCEPT !.out = out])
             \/ Becomes(w, [Goto(w, pc) EXCEPT !.attempt = @ + 1])
             \/ Becomes(w, [Goto(w, pc) EXCEPT !.attempt = @ + 1, !.task = 0])
             \/ Becomes(w, [Goto(w, pc) EXCEPT !.reported = TRUE])
      PROVE  SoleInv'
  <2>1. \E rec : SoleWorker(rec) /\ Becomes(w, rec)
    BY <1>1, <1>2, <1>5, <1>6, GotoSole
  <2> QED BY <1>3, <1>6, <2>1
<1>7. ASSUME run' = run PROVE Sole(run')
  BY <1>2, <1>7
<1>8. ASSUME NEW desired \in RunRecord, Sole(desired), NEW keys, run' = Saved(desired, keys)
      PROVE  Sole(run')
  BY <1>8, SavedSole
<1>10. ASSUME NEW a \in Acts, Receive(w, a) PROVE SoleInv'
  BY <1>3, <1>7, <1>10, IdleSole DEF Receive
<1>11. ASSUME NEW parts \in SUBSET {"state", "sched"}, Read(w, parts) PROVE SoleInv'
  <2> DEFINE rec == [W EXCEPT !.got = @ \cup parts, !.state = IF "state" \in parts THEN run ELSE @,
                              !.sched = IF "sched" \in parts THEN Sched(run) ELSE @]
  <2>1. SoleWorker(rec)
    BY <1>1, <1>2 DEF SoleWorker, WorkerRecord
  <2>2. Becomes(w, rec) /\ run' = run
    BY <1>11 DEF Read
  <2> HIDE DEF rec
  <2> QED BY <1>3, <1>7, <2>1, <2>2
<1>12. ASSUME HandleIgnored(w) PROVE SoleInv'
  BY <1>4, <1>7, <1>12 DEF HandleIgnored
<1>13. ASSUME Handle(w) PROVE SoleInv'
  <2>1. PICK pc \in {"mark", "clear"} : \E ctx : Becomes(w, [Goto(w, pc) EXCEPT !.ctx = ctx])
    BY <1>13 DEF Handle
  <2>2. \E rec : SoleWorker(rec) /\ Becomes(w, rec)
    BY <1>1, <1>2, <1>5, <2>1, GotoSole
  <2> QED BY <1>3, <1>7, <1>13, <2>2 DEF Handle
<1>14. ASSUME ClearResume(w) PROVE SoleInv'
  <2>1. [W.state EXCEPT !.resume = NoResume] \in RunRecord
    BY <1>1, HitlUpdates
  <2>2. Sole([W.state EXCEPT !.resume = NoResume])
    BY <1>1, <1>2 DEF Sole, RunRecord
  <2>3. Sole(run') /\ Becomes(w, Goto(w, "mark"))
    BY <1>7, <1>8, <1>14, <2>1, <2>2 DEF ClearResume
  <2> QED BY <1>6, <2>3
<1>15. ASSUME MarkNodeRunning(w) PROVE SoleInv'
  <2>1. Sole(run') /\ Becomes(w, Goto(w, "exec"))
    BY <1>1, <1>2, <1>7, <1>8, <1>15 DEF MarkNodeRunning
  <2> QED BY <1>6, <2>1
<1>16. ASSUME ReportLoad(w) PROVE SoleInv'
  <2>1. SoleWorker([W EXCEPT !.pc = "report", !.state = run])
    BY <1>1, <1>2 DEF SoleWorker, WorkerRecord
  <2> QED BY <1>3, <1>7, <1>16, <2>1 DEF ReportLoad
<1>17. ASSUME ReportSave(w) PROVE SoleInv'
  <2>1. Sole(run') /\ Becomes(w, [Goto(w, "exec") EXCEPT !.reported = TRUE])
    BY <1>1, <1>2, <1>8, <1>17 DEF ReportSave
  <2> QED BY <1>6, <2>1
<1>18. ASSUME ExecuteReturns(w) PROVE SoleInv'
  BY <1>6, <1>7, <1>18 DEF ExecuteReturns
<1>19. ASSUME ExecuteThrows(w) PROVE SoleInv'
  BY <1>6, <1>7, <1>19 DEF ExecuteThrows, RetryOr
<1>20. ASSUME ExecuteSuspends(w) PROVE SoleInv'
  BY <1>6, <1>7, <1>20 DEF ExecuteSuspends
<1>21. ASSUME Deliver(w) PROVE SoleInv'
  <2>1. SoleWorker([W EXCEPT !.pc = "suspendSave", !.task = tasks + 1])
    BY <1>1, <1>2 DEF SoleWorker, WorkerRecord
  <2> QED BY <1>3, <1>7, <1>21, <2>1 DEF Deliver
<1>22. ASSUME SuspendSave(w) PROVE SoleInv'
  <2> DEFINE entry == [task |-> W.task, node |-> W.node, act |-> W.act]
             desired == [W.state EXCEPT !.status = "suspended", !.susp = @ \cup {entry}]
  <2>1. W.pc = "suspendSave" /\ run' = Saved(desired, LoadedKeys(W.state) \cup {"susp"})
    BY <1>22 DEF SuspendSave
  <2>2. W.state.status = "pending"
    BY <2>1 DEF Known, OnceInv, Fresh, Placed, Working, Alike, Pends
  <2>3. W.state.susp = {}
    BY <1>2, <2>2 DEF Sole
  <2>4. desired \in RunRecord
    <3>1. entry \in Suspensions
      BY <1>1 DEF Suspensions, WorkerRecord
    <3> QED BY <1>1, <3>1, HitlUpdates
  <2>5. desired.status = "suspended" /\ desired.susp = {entry}
    BY <1>1, <2>3 DEF RunRecord
  <2> HIDE DEF desired, entry
  <2>6. Sole(run')
    BY <1>8, <2>1, <2>4, <2>5 DEF Sole
  <2>7. \/ Return(w)
        \/ Becomes(w, [Goto(w, "exec") EXCEPT !.attempt = @ + 1, !.task = 0])
    BY <1>22 DEF SuspendSave
  <2> QED BY <1>4, <1>6, <2>6, <2>7
<1>23. ASSUME ResultIgnored(w) PROVE SoleInv'
  BY <1>4, <1>6, <1>7, <1>23 DEF ResultIgnored
<1>24. {"completed", "failed", "halted"} \subseteq Terminal /\ <<>> \in Seq(Nodes) /\ Count(w) \in Nat
       /\ (Planned(w) # <<>> => Head(Planned(w)) \in Nodes /\ Tail(Planned(w)) \in Seq(Nodes))
  <2>1. Planned(w) # <<>> => Head(Planned(w)) \in Nodes /\ Tail(Planned(w)) \in Seq(Nodes)
    BY <1>1, PlannedType
  <2> QED BY <1>1, <2>1 DEF Terminal, Count
<1>25. ASSUME ResultHalts(w) \/ ResultCompletes(w) \/ ResultOverBudget(w) \/ ResultRejected(w)
              \/ ErrorFails(w)
       PROVE  SoleInv'
  BY <1>1, <1>24, <1>25, EndRunSole DEF ResultHalts, ResultCompletes, ResultOverBudget, ResultRejected,
                                  ErrorFails, InResult, InError
<1>26. ASSUME ResultEnqueues(w) PROVE SoleInv'
  <2> DEFINE queue == Tail(Planned(w))
             ending == MergeTerminal(W.state, "failed", queue, Count(w))
             desired == Enqueued(acts + 1, Head(Planned(w)), queue, Count(w), {}, NoResume)
  <2>1. Planned(w) # <<>> /\ acts + 1 \in 0..MaxActs /\ W.state.status = "pending"
    BY <1>1, <1>26, LimitAssumption DEF ResultEnqueues, InResult, IsPending, MakeActivation
  <2>2. run' = Saved(desired, {})
        /\ \E next, keys : Becomes(w, [Goto(w, "dispatch") EXCEPT
                                     !.next = next, !.ending = ending, !.keys = keys])
    BY <1>26 DEF ResultEnqueues
  <2>3. desired \in RunRecord
    <3>1. NoResume \in Resumes /\ {} \in SUBSET Suspensions
      BY LimitAssumption DEF NoResume, Resumes, Verdicts
    <3> QED BY <1>24, <2>1, <3>1, EnqueuedType
  <2>4. Sole(desired)
    BY DEF Enqueued, Sole
  <2>5. Sole(ending)
    BY <1>1, <1>2, <1>24, <2>1, MergeTerminalSole
  <2> HIDE DEF desired, ending, queue
  <2>6. \E rec : SoleWorker(rec) /\ Becomes(w, rec)
    BY <1>1, <1>2, <1>5, <2>2, <2>5, GotoSole
  <2> QED BY <1>3, <1>8, <2>2, <2>3, <2>4, <2>6
<1>27. ASSUME Dispatch(w) PROVE SoleInv'
  BY <1>4, <1>7, <1>27 DEF Dispatch
<1>28. ASSUME SaveFailure(w) PROVE SoleInv'
  BY <1>1, <1>2, <1>4, <1>8, <1>28 DEF SaveFailure
<1>29. ASSUME ErrorIgnored(w) PROVE SoleInv'
  BY <1>4, <1>7, <1>29 DEF ErrorIgnored
<1>30. ASSUME ErrorRecovers(w) PROVE SoleInv'
  <2> DEFINE ending == MergeTerminal(W.state, "failed", W.sched.queue, W.state.count)
  <2>1. \E out, keys : Becomes(w, [Goto(w, "result") EXCEPT !.out = out, !.recovering = TRUE,
                                                   !.ending = ending, !.keys = keys])
    BY <1>30 DEF ErrorRecovers
  <2>2. W.state.status = "pending" /\ run' = run
    BY <1>30 DEF ErrorRecovers, InError, IsPending
  <2>3. Sole(ending)
    BY <1>1, <1>2, <1>24, <2>2, MergeTerminalSole
  <2> HIDE DEF ending
  <2>4. \E rec : SoleWorker(rec) /\ Becomes(w, rec)
    BY <1>1, <1>2, <1>5, <2>1, <2>3, GotoSole
  <2> QED BY <1>3, <1>7, <2>2, <2>4
<1>31. ASSUME Ack(w) PROVE SoleInv'
  BY <1>3, <1>7, <1>31, IdleSole DEF Ack
<1> QED
  BY <1>10, <1>11, <1>12, <1>13, <1>14, <1>15, <1>16, <1>17, <1>18, <1>19, <1>20, <1>21, <1>22,
     <1>23, <1>25, <1>26, <1>27, <1>28, <1>29, <1>30, <1>31 DEF WorkerStep

\* So does every other step: a call that resumes the run takes the one entry away.
LEMMA StepSole ==
  ASSUME Undisturbed, Store = "memory", Known, ResumedOnce', SoleInv, [Next]_vars
  PROVE  SoleInv'
<1>1. TypeOK /\ run \in RunRecord /\ worker \in [Workers -> WorkerRecord] /\ acts \in Nat
      /\ resumer \in [Resumers -> ResumerRecord] /\ NoResume \in Resumes /\ <<>> \in Seq(Nodes)
      /\ {} \in SUBSET Suspensions
  BY LimitAssumption DEF Known, TypeOK, NoResume, Resumes, Verdicts
<1>2. ASSUME Sole(run'), worker' = worker PROVE SoleInv'
  BY <1>2 DEF SoleInv, SoleWorker, Sole
<1>3. ASSUME run' = run, worker' = worker PROVE SoleInv'
  BY <1>2, <1>3 DEF SoleInv
<1>4. CASE \E w \in Workers : WorkerStep(w)
  BY <1>4, WorkerStepSole
<1>5. CASE Start
  <2> DEFINE desired == Enqueued(acts + 1, Entry, <<>>, 0, {}, NoResume)
  <2>1. run' = Saved(desired, {}) /\ worker' = worker /\ acts + 1 \in 0..MaxActs
    BY <1>1, <1>5, LimitAssumption DEF Start, MakeActivation
  <2>2. desired \in RunRecord /\ Sole(desired)
    <3>1. Sole(desired)
      BY DEF Enqueued, Sole
    <3> QED BY <1>1, <2>1, <3>1, GraphAssumption, EnqueuedType
  <2> HIDE DEF desired
  <2> QED BY <1>2, <2>1, <2>2, SavedSole
<1>6. ASSUME NEW r \in Resumers, ResumeSave(r) PROVE SoleInv'
  <2> DEFINE R == resumer[r]
             remaining == R.state.susp \ Entries(r)
             resume == [act |-> acts + 1, verdict |-> R.verdict]
             keys == IF remaining = {} THEN {"resume"} ELSE {"resume", "susp"}
  <2>1. PICK entry \in Entries(r) :
          /\ MakeActivation(entry.node)
          /\ run' = Saved(Enqueued(acts + 1, entry.node, <<>>, R.state.count, remaining, resume), keys)
    BY <1>6 DEF ResumeSave
  <2>2. R.state = run /\ run.status = "suspended" /\ Entries(r) # {}
    BY <1>6, CallReads
  <2>3. remaining = {}
    <3>1. PICK s : R.state.susp = {s}
      BY <2>2 DEF SoleInv, Sole
    <3> QED BY <2>2, <3>1 DEF Entries
  <2>4. R.verdict \in Verdicts /\ R.state.count \in Nat /\ entry.node \in Nodes
        /\ acts + 1 \in 0..MaxActs
    BY <1>1, <2>1, LimitAssumption DEF ResumerRecord, RunRecord, Entries, Suspensions, MakeActivation
  <2>5. resume \in Resumes
    BY <2>4 DEF Resumes
  <2> HIDE DEF resume, remaining
  <2> DEFINE desired == Enqueued(acts + 1, entry.node, <<>>, R.state.count, remaining, resume)
  <2>6. desired \in RunRecord
    BY <1>1, <2>3, <2>4, <2>5, EnqueuedType
  <2>7. Sole(desired)
    BY <2>3 DEF Enqueued, Sole
  <2>8. run' = Saved(desired, keys) /\ worker' = worker
    BY <1>6, <2>1 DEF ResumeSave
  <2> HIDE DEF desired, keys
  <2> QED BY <1>2, <2>6, <2>7, <2>8, SavedSole
<1>7. ASSUME NEW r \in Resumers, ResumeStep(r) PROVE SoleInv'
  BY <1>3, <1>6, <1>7 DEF ResumeStep, ResumeRefused, ResumeRejected, ResumeDispatch
<1>8. ASSUME NEW w \in Workers, NEW rec, SoleWorker(rec), Becomes(w, rec), run' = run PROVE SoleInv'
  BY <1>1, <1>8, SoleFrame DEF SoleInv
<1>9. ASSUME NEW w \in Workers, NEW died \in BOOLEAN, Stall(w, died) PROVE SoleInv'
  <2>1. died
    BY <1>9 DEF Stall, Fault, Undisturbed
  <2> QED BY <1>8, <1>9, <2>1, IdleSole DEF Stall
<1>10. CASE DispatchFails
  <2>1. ASSUME NEW w \in Workers PROVE SoleWorker([worker[w] EXCEPT !.pc = "terminate"])
    BY <1>1 DEF SoleInv, SoleWorker, WorkerRecord
  <2> QED BY <1>3, <1>8, <1>10, <2>1 DEF DispatchFails
<1> QED BY <1>3, <1>4, <1>5, <1>7, <1>9, <1>10 DEF Next, vars, StartDispatch, ResumeCall

\* In memory the record and its approvals agree: it has an entry exactly while the run is
\* suspended, that of one task, and the decision on it is for the activation the run waits for.
THEOREM ApprovalsConsistent ==
  ASSUME Undisturbed, Store = "memory"
  PROVE  Spec /\ []ResumedOnce => []ApprovalsAgree
<1>1. Init => SoleInv
  BY IdleSole DEF Init, SoleInv
<1>2. ASSUME Known, ResumedOnce', SoleInv, [Next]_vars PROVE SoleInv'
  BY <1>2, StepSole
<1>3. ASSUME SoleInv, ResumeInv PROVE ApprovalsAgree
  BY <1>3 DEF SoleInv, Sole, ResumeInv, Pends, ApprovalsAgree, SuspensionIffSuspended,
              OneEntryPerItem, ResumeIsOfPending
<1> QED BY <1>1, <1>2, <1>3, OnceCorrect, ResumeCorrect, PTL DEF Spec

-----------------------------------------------------------------------------
(* The decision reaches its node. *)

\* The activations that calls of resumeRun have made for a decision.
Decisions == {resumer[r].next : r \in Resumers} \ {0}

\* A handler of such an activation finds the decision on the record, and hands it to the node
\* once it is past the splice, so the node does not ask.
Heard(rec, r) ==
  /\ rec.pc = "handle" => r.resume.act = rec.act
  /\ rec.pc \in Working => rec.ctx # "none" /\ rec.pc \notin {"suspend", "suspendSave"}

HeardInv ==
  \A a \in Decisions :
    /\ a \in Acts /\ a <= acts
    /\ Pends(run, a) /\ jobs[a] # "active" => run.resume.act = a
    /\ \A w \in Workers : Busy(worker[w]) /\ worker[w].act = a => Heard(worker[w], run)

\* A handler that goes on keeps the decision it has.
HasContext(rec, ctx) == rec.ctx = ctx

LEMMA GotoContext ==
  ASSUME Known, NEW w \in Workers, NEW pc \in WorkerPc
  PROVE  /\ HasContext(Goto(w, pc), worker[w].ctx)
         /\ \A out : HasContext([Goto(w, pc) EXCEPT !.out = out], worker[w].ctx)
         /\ HasContext([Goto(w, pc) EXCEPT !.attempt = @ + 1], worker[w].ctx)
         /\ HasContext([Goto(w, pc) EXCEPT !.reported = TRUE], worker[w].ctx)
         /\ \A out, ending, keys :
              HasContext([Goto(w, pc) EXCEPT !.out = out, !.recovering = TRUE, !.ending = ending,
                                             !.keys = keys], worker[w].ctx)
         /\ \A ctx : HasContext([Goto(w, pc) EXCEPT !.ctx = ctx], ctx)
<1> DEFINE G == Goto(w, pc)
<1>1. G \in WorkerRecord /\ G.ctx = worker[w].ctx
  BY GotoType DEF Known, TypeOK, WorkerRecord, Goto
<1> HIDE DEF G
<1> QED BY <1>1 DEF HasContext, WorkerRecord, G

\* A step of a handler: it saves only while the run is its own.
LEMMA HeardFrame ==
  ASSUME "crash" \notin FaultKinds, Known, HeardInv, NEW w \in Workers, NEW rec, Becomes(w, rec),
         resumer' = resumer, acts' \in Nat, acts <= acts',
         Busy(rec) /\ rec.act \in Decisions => Heard(rec, run'),
         \A a \in Acts : Pends(run, a) /\ jobs'[a] # "active" => jobs[a] # "active",
         \/ run' = run
         \/ worker[w].pc \in Working /\ (Keeps \/ Moves \/ Ends \/ Suspends)
         \/ Moving(worker[w]) /\ Ends
  PROVE  HeardInv'
<1>1. \A v \in Workers : worker'[v] = IF v = w THEN rec ELSE worker[v]
  BY DEF Becomes, Known, TypeOK
<1>2. Decisions' = Decisions
  BY DEF Decisions
<1>3. acts \in Nat
  BY DEF Known, TypeOK
<1>4. ASSUME run' # run PROVE \A v \in Workers \ {w} : worker[v].pc # "handle"
  <2>1. PICK b \in Acts : /\ Pends(run, b)
                          /\ \/ Busy(worker[w]) /\ b = worker[w].act
                             \/ Moving(worker[w]) /\ b = worker[w].next
    BY <1>4 DEF Known, OnceInv, Placed, Busy, Working
  <2>2. ASSUME NEW v \in Workers \ {w}, worker[v].pc = "handle" PROVE FALSE
    <3>1. Busy(worker[v]) /\ Pends(run, worker[v].act)
      BY <2>2 DEF Known, OnceInv, Placed, Busy
    <3>2. worker[v].act # b
      BY <2>1, <3>1, Alone
    <3> QED BY <2>1, <3>1, <3>2 DEF Pends
  <2> QED BY <2>2
<1>5. ASSUME NEW a \in Decisions
      PROVE  /\ a \in Acts /\ a <= acts'
             /\ Pends(run', a) /\ jobs'[a] # "active" => run'.resume.act = a
             /\ \A v \in Workers : Busy(worker'[v]) /\ worker'[v].act = a => Heard(worker'[v], run')
  <2>1. a \in Acts /\ a <= acts
        /\ (Pends(run, a) /\ jobs[a] # "active" => run.resume.act = a)
    BY DEF HeardInv
  <2>2. a <= acts'
    BY <1>3, <2>1, LimitAssumption DEF Acts
  <2>3. ASSUME NEW v \in Workers \ {w}, Busy(worker[v]), worker[v].act = a
        PROVE  Heard(worker[v], run')
    <3>1. Heard(worker[v], run)
      BY <2>3 DEF HeardInv
    <3> QED BY <1>4, <3>1 DEF Heard
  <2>4. ASSUME Pends(run', a), jobs'[a] # "active" PROVE run'.resume.act = a
    <3>1. CASE run' = run
      BY <2>1, <2>4, <3>1
    <3>2. CASE Ends \/ Suspends
      BY <2>4, <3>2 DEF Ends, Suspends, Terminal, Pends
    <3>3. CASE Moves
      BY <1>3, <2>1, <2>4, <3>3, LimitAssumption DEF Moves, Awaits, Pends, Acts
    <3>4. CASE worker[w].pc \in Working /\ Keeps
      <4>1. Pends(run, a) /\ Pends(run, worker[w].act) /\ Busy(worker[w])
        BY <2>4, <3>4 DEF Keeps, Alike, Pends, Known, OnceInv, Placed, Busy, Working
      <4>2. jobs[a] = "active"
        BY <4>1, Position DEF Pends
      <4> QED BY <2>1, <2>4, <4>1, <4>2
    <3> QED BY <3>1, <3>2, <3>3, <3>4
  <2> QED BY <1>1, <2>1, <2>2, <2>3, <2>4
<1> QED BY <1>2, <1>5 DEF HeardInv

\* Every step of a processor keeps it.
LEMMA WorkerStepHeard ==
  ASSUME Undisturbed, "crash" \notin FaultKinds, Known, ResumeInv, HeardInv,
         NEW w \in Workers, WorkerStep(w)
  PROVE  HeardInv'
<1> DEFINE W == worker[w]
<1>1. /\ TypeOK /\ run \in RunRecord /\ worker \in [Workers -> WorkerRecord] /\ W \in WorkerRecord
      /\ acts \in Nat /\ jobs \in [Acts -> {"none", "waiting", "active"}] /\ W.state \in RunRecord
  BY DEF Known, TypeOK, WorkerRecord
<1>2. Keeps \/ Ends \/ Suspends \/ Moves
  BY WorkerStepOnce
<1>3. acts' \in Nat /\ acts <= acts'
  BY <1>1, <1>2 DEF Keeps, Ends, Suspends, Moves, Awaits
<1>4. {"mark", "clear", "exec", "error", "result", "suspend", "dispatch"} \subseteq WorkerPc
  BY DEF WorkerPc
<1>5. Busy(W) /\ W.act \in Decisions => Heard(W, run)
  BY DEF HeardInv
<1> DEFINE Own == \/ run' = run
                  \/ W.pc \in Working
                  \/ Moving(W) /\ Ends
<1>6. ASSUME NEW rec, Becomes(w, rec), Own, jobs' = jobs, resumer' = resumer,
             Busy(rec) /\ rec.act \in Decisions => Heard(rec, run')
      PROVE  HeardInv'
  BY <1>2, <1>3, <1>6, HeardFrame
<1>7. ASSUME Return(w), Own, jobs' = jobs, resumer' = resumer PROVE HeardInv'
  <2>1. PICK rec : Becomes(w, rec) /\ Goes(rec, w, "ack")
    BY <1>1, <1>7, ReturnGoes
  <2>2. Heard(rec, run')
    BY <2>1 DEF Goes, Heard, Working
  <2> QED BY <1>6, <1>7, <2>1, <2>2
<1>8. ASSUME W.pc \in Working, jobs' = jobs, resumer' = resumer,
             NEW pc \in {"mark", "exec", "result", "error"},
             \/ Becomes(w, Goto(w, pc))
             \/ \E out : Becomes(w, [Goto(w, pc) EXCEPT !.out = out])
             \/ Becomes(w, [Goto(w, pc) EXCEPT !.attempt = @ + 1])
             \/ Becomes(w, [Goto(w, pc) EXCEPT !.reported = TRUE])
      PROVE  HeardInv'
  <2>1. PICK rec : Becomes(w, rec) /\ Goes(rec, w, pc) /\ HasContext(rec, W.ctx)
    BY <1>4, <1>8, GotoGoes, GotoContext
  <2>2. rec.act \in Decisions => Heard(rec, run')
    BY <1>5, <1>8, <2>1 DEF Goes, HasContext, Heard, Working, Busy
  <2> QED BY <1>6, <1>8, <2>1, <2>2
<1>9. ASSUME NEW a \in Acts, Receive(w, a) PROVE HeardInv'
  <2> DEFINE rec == [IdleWorker EXCEPT !.pc = "handle", !.act = a, !.node = nodeOf[a],
                                       !.lock = TRUE, !.attempt = 1]
  <2>1. rec.pc = "handle" /\ rec.act = a
    BY DEF IdleWorker
  <2>2. Becomes(w, rec) /\ run' = run /\ resumer' = resumer /\ jobs[a] = "waiting"
        /\ jobs' = [jobs EXCEPT ![a] = "active"]
    BY <1>9 DEF Receive
  <2> HIDE DEF rec
  <2>3. Pends(run, a)
    BY <2>2 DEF Known, OnceInv, Queued
  <2>4. rec.act \in Decisions => Heard(rec, run')
    BY <2>1, <2>2, <2>3 DEF HeardInv, Heard, Working
  <2>5. \A b \in Acts : jobs'[b] # "active" => jobs[b] # "active"
    BY <1>1, <2>2
  <2> QED BY <1>3, <2>2, <2>4, <2>5, HeardFrame
<1>10. ASSUME NEW parts, Read(w, parts) PROVE HeardInv'
  <2> DEFINE rec == [W EXCEPT !.got = @ \cup parts, !.state = IF "state" \in parts THEN run ELSE @,
                              !.sched = IF "sched" \in parts THEN Sched(run) ELSE @]
  <2>1. rec.pc = W.pc /\ rec.act = W.act /\ rec.ctx = W.ctx
    BY <1>1 DEF WorkerRecord
  <2>2. Becomes(w, rec) /\ run' = run /\ jobs' = jobs /\ resumer' = resumer
    BY <1>10 DEF Read
  <2> HIDE DEF rec
  <2>3. Busy(rec) /\ rec.act \in Decisions => Heard(rec, run')
    BY <1>5, <2>1, <2>2 DEF Heard, Busy
  <2> QED BY <1>6, <2>2, <2>3
<1>11. ASSUME HandleIgnored(w) PROVE HeardInv'
  BY <1>7, <1>11 DEF HandleIgnored
<1>12. ASSUME Handle(w) PROVE HeardInv'
  <2> DEFINE ctx == IF W.state.resume.act = W.act THEN W.state.resume.verdict ELSE "none"
  <2>1. Pends(run, W.act) /\ W.pc = "handle" /\ W.got = {"state", "sched"}
        /\ run' = run /\ jobs' = jobs /\ resumer' = resumer
    BY <1>12, Reading DEF Handle, HasRead, Reads
  <2>2. W.state.resume = run.resume
    BY <2>1 DEF ResumeInv, Decided
  <2>3. W.act \in Decisions => ctx # "none"
    <3>1. W.state.resume.verdict # "none"
      BY <1>1 DEF RunRecord, Resumes, Verdicts
    <3> QED BY <1>5, <2>1, <2>2, <3>1 DEF Heard, Busy
  <2>4. PICK pc \in {"mark", "clear"} : Becomes(w, [Goto(w, pc) EXCEPT !.ctx = ctx])
    BY <1>12 DEF Handle
  <2> HIDE DEF ctx
  <2> DEFINE rec == [Goto(w, pc) EXCEPT !.ctx = ctx]
  <2>5. Goes(rec, w, pc) /\ HasContext(rec, ctx)
    BY <1>4, GotoGoes, GotoContext
  <2> HIDE DEF rec
  <2>6. rec.act \in Decisions => Heard(rec, run')
    BY <2>3, <2>5 DEF Goes, HasContext, Heard, Working
  <2> QED BY <1>6, <2>1, <2>4, <2>6 DEF rec
<1>13. ASSUME ClearResume(w) PROVE HeardInv'
  BY <1>8, <1>13 DEF ClearResume, Working
<1>14. ASSUME MarkNodeRunning(w) PROVE HeardInv'
  BY <1>8, <1>14 DEF MarkNodeRunning, Working
<1>15. ASSUME ReportLoad(w) PROVE HeardInv'
  <2> DEFINE rec == [W EXCEPT !.pc = "report", !.state = run]
  <2>1. rec.pc = "report" /\ rec.ctx = W.ctx /\ rec.act = W.act
    BY <1>1 DEF WorkerRecord
  <2>2. Becomes(w, rec) /\ run' = run /\ W.pc = "exec" /\ jobs' = jobs /\ resumer' = resumer
    BY <1>15 DEF ReportLoad
  <2> HIDE DEF rec
  <2>3. rec.act \in Decisions => Heard(rec, run')
    BY <1>5, <2>1, <2>2 DEF Heard, Working, Busy
  <2> QED BY <1>6, <2>2, <2>3
<1>16. ASSUME ReportSave(w) PROVE HeardInv'
  BY <1>8, <1>16 DEF ReportSave, Working
<1>17. ASSUME ExecuteReturns(w) PROVE HeardInv'
  <2>1. W.pc \in Working /\ jobs' = jobs /\ resumer' = resumer
        /\ \E out : Becomes(w, [Goto(w, "result") EXCEPT !.out = out])
    BY <1>17 DEF ExecuteReturns, Working
  <2> QED BY <1>8, <2>1
<1>18. ASSUME ExecuteThrows(w) PROVE HeardInv'
  BY <1>8, <1>18 DEF ExecuteThrows, RetryOr, Working
<1>19. ASSUME ExecuteSuspends(w) PROVE HeardInv'
  <2>1. W.pc = "exec" /\ W.ctx = "none" /\ Becomes(w, Goto(w, "suspend")) /\ run' = run
        /\ jobs' = jobs /\ resumer' = resumer
    BY <1>19 DEF ExecuteSuspends
  <2>2. W.act \notin Decisions
    BY <1>5, <2>1 DEF Heard, Working, Busy
  <2>3. Goto(w, "suspend").act = W.act
    BY <1>4, GotoGoes DEF Goes
  <2> QED BY <1>6, <2>1, <2>2, <2>3
<1>20. ASSUME Deliver(w) PROVE HeardInv'
  <2> DEFINE rec == [W EXCEPT !.pc = "suspendSave", !.task = tasks + 1]
  <2>1. rec.act = W.act
    BY <1>1 DEF WorkerRecord
  <2>2. Becomes(w, rec) /\ run' = run /\ W.pc = "suspend" /\ jobs' = jobs /\ resumer' = resumer
    BY <1>20 DEF Deliver
  <2> HIDE DEF rec
  <2>3. W.act \notin Decisions
    BY <1>5, <2>2 DEF Heard, Working, Busy
  <2> QED BY <1>6, <2>1, <2>2, <2>3
<1>21. ASSUME SuspendSave(w) PROVE HeardInv'
  <2>1. W.pc = "suspendSave" /\ W.attempt >= 1 /\ ApprovalNodes # {} /\ W.attempt \in Nat
    BY <1>1, <1>21 DEF SuspendSave, Known, OnceInv, Placed, Working, WorkerRecord
  <2>2. Return(w)
    BY <1>21, <2>1 DEF SuspendSave, Undisturbed
  <2> QED BY <1>7, <1>21, <2>1, <2>2 DEF SuspendSave, Working
<1>22. ASSUME W.pc \in {"result", "error"}, Return(w), jobs' = jobs, resumer' = resumer
       PROVE  HeardInv'
  BY <1>7, <1>22 DEF Working
<1>23. ASSUME ResultIgnored(w) PROVE HeardInv'
  <2>1. W.pc \in Working /\ HasRead(w) /\ ~IsPending(w)
    BY <1>23 DEF ResultIgnored, Working
  <2>2. Pends(run, W.act)
    BY <2>1 DEF Known, OnceInv, Placed
  <2> QED BY <1>23, <2>1, <2>2, Reading DEF ResultIgnored
<1>24. ASSUME \/ ResultHalts(w) \/ ResultCompletes(w) \/ ResultOverBudget(w)
              \/ ResultRejected(w) \/ ErrorFails(w) \/ ErrorIgnored(w)
       PROVE  HeardInv'
  BY <1>22, <1>24 DEF ResultHalts, ResultCompletes, ResultOverBudget, ResultRejected,
                      ErrorFails, ErrorIgnored, InResult, InError, EndRun
<1>25. ASSUME ErrorRecovers(w) PROVE HeardInv'
  <2> DEFINE ending == MergeTerminal(W.state, "failed", W.sched.queue, W.state.count)
  <2>1. PICK out : Becomes(w, [Goto(w, "result") EXCEPT !.out = out, !.recovering = TRUE,
                                 !.ending = ending, !.keys = TerminalKeys(W.state)])
    BY <1>25 DEF ErrorRecovers
  <2>2. run' = run /\ W.pc = "error" /\ jobs' = jobs /\ resumer' = resumer
    BY <1>25 DEF ErrorRecovers, InError
  <2> HIDE DEF ending
  <2> DEFINE G == Goto(w, "result")
             rec == [G EXCEPT !.out = out, !.recovering = TRUE,
                              !.ending = ending, !.keys = TerminalKeys(W.state)]
  <2>3. HasContext(rec, W.ctx)
    BY <1>4, GotoContext
  <2>4. G \in WorkerRecord /\ Goes(G, w, "result")
    BY <1>1, <1>4, GotoType, GotoGoes
  <2>5. Becomes(w, rec)
    BY <2>1
  <2> HIDE DEF G
  <2>6. rec.pc = "result" /\ rec.act = W.act
    BY <2>4 DEF WorkerRecord, Goes
  <2> HIDE DEF rec
  <2>7. rec.act \in Decisions => Heard(rec, run')
    BY <1>5, <2>2, <2>3, <2>6 DEF HasContext, Heard, Working, Busy
  <2> QED BY <1>6, <2>2, <2>5, <2>7
<1>26. ASSUME ResultEnqueues(w) PROVE HeardInv'
  <2> DEFINE G == Goto(w, "dispatch")
             ending == MergeTerminal(W.state, "failed", Tail(Planned(w)), Count(w))
             rec == [G EXCEPT !.next = acts + 1, !.ending = ending, !.keys = TerminalKeys(W.state)]
  <2>1. Becomes(w, rec) /\ W.pc = "result" /\ jobs' = jobs /\ resumer' = resumer
    BY <1>26 DEF ResultEnqueues, InResult
  <2>2. G \in WorkerRecord /\ G.pc = "dispatch"
    BY <1>1, <1>4, GotoType, GotoGoes DEF Goes
  <2> HIDE DEF G, ending
  <2>3. rec.pc = "dispatch"
    BY <2>2 DEF WorkerRecord
  <2> HIDE DEF rec
  <2>4. Heard(rec, run')
    BY <2>3 DEF Heard, Working
  <2> QED BY <1>6, <2>1, <2>4 DEF Working
<1>27. ASSUME SaveFailure(w) PROVE HeardInv'
  <2>1. Moving(W) /\ Return(w) /\ jobs' = jobs /\ resumer' = resumer
    BY <1>27 DEF SaveFailure, Known, OnceInv, Placed, Moving
  <2>2. Ends
    BY <1>27, TerminateOnce
  <2> QED BY <1>7, <2>1, <2>2
<1>28. ASSUME NEW rec, Becomes(w, rec), rec.pc \notin Working \cup {"handle"},
              run' = run, resumer' = resumer,
              \A a \in Acts : Pends(run, a) /\ jobs'[a] # "active" => jobs[a] # "active"
       PROVE  HeardInv'
  BY <1>3, <1>28, HeardFrame DEF Heard
<1>29. ASSUME Dispatch(w) PROVE HeardInv'
  <2>1. PICK rec : Becomes(w, rec) /\ Goes(rec, w, "ack")
    BY <1>1, <1>29, ReturnGoes DEF Dispatch
  <2>2. jobs' = [jobs EXCEPT ![W.next] = "waiting"] /\ jobs[W.next] = "none"
        /\ run' = run /\ resumer' = resumer
    BY <1>29 DEF Dispatch, Known, OnceInv, Placed, Moving
  <2>3. \A a \in Acts : jobs'[a] # "active" => jobs[a] # "active"
    BY <1>1, <2>2
  <2> QED BY <1>28, <2>1, <2>2, <2>3 DEF Goes, Working
<1>30. ASSUME Ack(w) PROVE HeardInv'
  <2>1. W.pc = "ack" /\ run' = run /\ resumer' = resumer /\ Becomes(w, IdleWorker)
        /\ (jobs' = jobs \/ jobs' = [jobs EXCEPT ![W.act] = "none"])
    BY <1>30 DEF Ack
  <2>2. ~Pends(run, W.act)
    BY <2>1 DEF Known, OnceInv, Placed
  <2>3. \A a \in Acts : Pends(run, a) /\ jobs'[a] # "active" => jobs[a] # "active"
    BY <1>1, <2>1, <2>2
  <2>4. IdleWorker.pc \notin Working \cup {"handle"}
    BY DEF IdleWorker, Working
  <2> QED BY <1>28, <2>1, <2>3, <2>4
<1> QED
  BY <1>9, <1>10, <1>11, <1>12, <1>13, <1>14, <1>15, <1>16, <1>17, <1>18, <1>19, <1>20, <1>21,
     <1>23, <1>24, <1>25, <1>26, <1>27, <1>29, <1>30 DEF WorkerStep

\* So does every other step.
LEMMA StepHeard ==
  ASSUME Undisturbed, "crash" \notin FaultKinds, Known, ResumedOnce', ResumeInv, HeardInv, [Next]_vars
  PROVE  HeardInv'
<1>1. TypeOK /\ acts \in Nat /\ resumer \in [Resumers -> ResumerRecord]
      /\ worker \in [Workers -> WorkerRecord] /\ jobs \in [Acts -> {"none", "waiting", "active"}]
  BY DEF Known, TypeOK
<1>2. ASSUME NEW r \in Resumers, NEW rec, resumer' = [resumer EXCEPT ![r] = rec],
             rec.next \in {0, resumer[r].next}, UNCHANGED <<run, worker, acts>>,
             \A a \in Acts : jobs'[a] # "active" => jobs[a] # "active"
      PROVE  HeardInv'
  <2>1. Decisions' \subseteq Decisions
    BY <1>1, <1>2 DEF Decisions
  <2> QED BY <1>2, <2>1 DEF HeardInv
<1>3. CASE \E w \in Workers : WorkerStep(w)
  BY <1>3, WorkerStepHeard
<1>4. CASE Start \/ StartDispatch
  <2>1. \A r \in Resumers : resumer'[r].next = 0
    BY <1>4 DEF Start, StartDispatch, Known, OnceInv, Starting, Called
  <2> QED BY <2>1 DEF HeardInv, Decisions
<1>5. ASSUME NEW r \in Resumers, NEW task \in Tasks, NEW verdict \in Verdicts,
             ResumeCall(r, task, verdict)
      PROVE  HeardInv'
  <2> DEFINE rec == [IdleResumer EXCEPT !.pc = "loaded", !.task = task, !.verdict = verdict,
                                        !.state = run]
  <2>1. rec.next = 0
    BY DEF IdleResumer
  <2>2. resumer' = [resumer EXCEPT ![r] = rec] /\ UNCHANGED <<run, worker, acts, jobs>>
    BY <1>5 DEF ResumeCall
  <2> HIDE DEF rec
  <2> QED BY <1>2, <2>1, <2>2
<1>6. ASSUME NEW r \in Resumers, ResumeRefused(r) \/ ResumeRejected(r) PROVE HeardInv'
  <2>1. [IdleResumer EXCEPT !.pc = "done"].next = 0
    BY DEF IdleResumer
  <2> QED BY <1>2, <1>6, <2>1 DEF ResumeRefused, ResumeRejected
<1>7. ASSUME NEW r \in Resumers PROVE [resumer[r] EXCEPT !.pc = "done"].next = resumer[r].next
  BY <1>1 DEF ResumerRecord
<1>8. ASSUME NEW r \in Resumers, ResumeDispatch(r) PROVE HeardInv'
  <2>1. \A a \in Acts : jobs'[a] # "active" => jobs[a] # "active"
    <3>1. jobs[resumer[r].next] = "none" /\ jobs' = [jobs EXCEPT ![resumer[r].next] = "waiting"]
      BY <1>8 DEF ResumeDispatch, Known, OnceInv, Called
    <3> QED BY <1>1, <3>1
  <2> QED BY <1>2, <1>7, <1>8, <2>1 DEF ResumeDispatch
<1>9. ASSUME NEW r \in Resumers, ResumeSave(r) PROVE HeardInv'
  <2>1. /\ run.status = "suspended" /\ worker' = worker /\ jobs' = jobs
        /\ Pends(run', acts + 1) /\ run'.resume.act = acts + 1 /\ acts' = acts + 1
        /\ acts + 1 \in Acts
    BY <1>9, ResumeSaves
  <2>2. Decisions' = Decisions \cup {acts + 1}
    <3>1. \A q \in Resumers : resumer'[q].next = IF q = r THEN acts + 1 ELSE resumer[q].next
      BY <1>9, ResumeSaves
    <3>2. resumer[r].next = 0 /\ acts + 1 # 0
      BY <1>1, <1>9, ResumeSaves
    <3> QED BY <3>1, <3>2 DEF Decisions
  <2>3. \A w \in Workers : worker[w].pc \notin Working \cup {"handle"}
    BY <2>1 DEF Known, OnceInv, Placed, Pends
  <2>4. \A w \in Workers : Heard(worker[w], run')
    BY <2>3 DEF Heard
  <2>5. \A a \in Decisions : a \in Acts /\ a <= acts
    BY DEF HeardInv
  <2>6. \A a \in Decisions : a <= acts + 1 /\ ~Pends(run', a)
    BY <1>1, <2>1, <2>5, LimitAssumption DEF Acts, Pends
  <2>7. acts + 1 <= acts'
    BY <1>1, <2>1
  <2> QED BY <2>1, <2>2, <2>4, <2>5, <2>6, <2>7 DEF HeardInv
<1>10. ~\E w \in Workers, died \in BOOLEAN : Stall(w, died)
  BY DEF Stall, Fault, Undisturbed
<1>11. ASSUME NEW w \in Workers, Becomes(w, [worker[w] EXCEPT !.pc = "terminate"]),
              UNCHANGED <<run, jobs, resumer, acts>>
       PROVE  HeardInv'
  <2> DEFINE rec == [worker[w] EXCEPT !.pc = "terminate"]
  <2>1. rec.pc = "terminate"
    BY <1>1 DEF WorkerRecord
  <2> HIDE DEF rec
  <2>2. Heard(rec, run')
    BY <2>1 DEF Heard, Working
  <2> QED BY <1>1, <1>11, <2>2, HeardFrame DEF rec
<1>12. CASE DispatchFails
  <2>1. ASSUME UNCHANGED <<run, worker, jobs, resumer, acts>> PROVE HeardInv'
    BY <2>1 DEF HeardInv, Decisions
  <2> QED BY <1>2, <1>7, <1>11, <1>12, <2>1 DEF DispatchFails
<1>13. CASE UNCHANGED vars
  BY <1>13 DEF vars, HeardInv, Decisions
<1> QED BY <1>3, <1>4, <1>5, <1>6, <1>8, <1>9, <1>10, <1>12, <1>13 DEF Next, ResumeStep

\* While no processor dies, an activation that was made to deliver a decision gets it: the human
\* is not asked a second time.
THEOREM NotAskedAgain ==
  ASSUME Undisturbed, "crash" \notin FaultKinds
  PROVE  Spec /\ []ResumedOnce => []DecisionNotAskedAgain
<1>1. Init => HeardInv
  BY DEF Init, HeardInv, Decisions, IdleResumer
<1>2. ASSUME Known, ResumedOnce', ResumeInv, HeardInv, [Next]_vars PROVE HeardInv'
  BY <1>2, StepHeard
<1>3. ASSUME Known, HeardInv PROVE DecisionNotAskedAgain
  <2>1. ASSUME NEW w \in Workers, worker[w].pc \in {"suspend", "suspendSave"},
               NEW r \in Resumers, resumer[r].next = worker[w].act
        PROVE  FALSE
    <3>1. Busy(worker[w]) /\ worker[w].pc \in Working
      BY <2>1 DEF Busy, Working
    <3>2. worker[w].act \in Decisions
      BY <1>3, <2>1, <3>1, Position, LimitAssumption DEF Decisions, Acts
    <3> QED BY <1>3, <2>1, <3>1, <3>2 DEF HeardInv, Heard
  <2> QED BY <2>1 DEF DecisionNotAskedAgain
<1> QED BY <1>1, <1>2, <1>3, OnceCorrect, ResumeCorrect, PTL DEF Spec
=============================================================================
