------------------------------ MODULE InlineRuns ------------------------------
(***************************************************************************)
(* Runs that execute in the process that started them, and those who wait  *)
(* for their end: InlineDrivingScheduler, the continuation it drives and   *)
(* EngineWaiters.  One run takes its activations one by one, each in a     *)
(* drain of its own that setImmediate begins; every await of a drain ends  *)
(* a step, so the drains of several runs, the waiters and whoever started  *)
(* the runs interleave.                                                    *)
(*                                                                         *)
(* Abstracted: the workflow of a run is a line of at most MaxNodes nodes   *)
(* that may end early or throw; of what a node returns only a failed       *)
(* assertion matters, of which the last node of a run may return one.      *)
(* Events that carry one go to the bus variable, which the subscriber of   *)
(* TestSuite empties.                                                      *)
(***************************************************************************)
EXTENDS Naturals, Sequences, FiniteSets

CONSTANTS
  Runs,         \* the runs
  MaxNodes,     \* bound: the activations of a run
  Drains,       \* drains of one run that could be going on together
  Store,        \* "memory" or "prisma"
  FaultKinds,   \* the faults that happen, of AllFaults
  MaxFaults     \* bound: number of faults

\* markNodeRunning, the error handler, runWorkflow or generateItems throws; the suite aborts.
AllFaults == {"mark", "handler", "case", "generate", "abort"}

ASSUME InlineAssumption ==
  /\ MaxNodes \in Nat \ {0} /\ MaxFaults \in Nat
  /\ Store \in {"memory", "prisma"} /\ FaultKinds \subseteq AllFaults

VARIABLES
  record,       \* record[r]: the persisted status and pending activation
  queue,        \* queue[r]: queuesByRunId
  scheduled,    \* scheduledRuns
  draining,     \* drainingRuns
  immediates,   \* immediates[r]: setImmediate callbacks outstanding for r
  drain,        \* drain[r][d]: an invocation of drainRun
  waiter,       \* waiter[r]: a call of waitForCompletion
  answer,       \* answer[r]: the status that call returned
  bus,          \* events published and not yet handled
  faults,       \* number of faults
  lost,         \* history: the runs whose waiter nobody will answer
  late,         \* history: the runs whose end was read before their failed assertion was
                \* published
  bad           \* history: the runs of which a node returned a failed assertion

engineVars == <<record, queue, scheduled, draining, immediates, drain, waiter, answer, bus,
                faults, lost, late, bad>>

Ended   == {"completed", "failed"}
Acts    == 1..MaxNodes
DrainPc == {"idle", "exec", "publish", "resolve", "finally"}
IdleDrain == [pc |-> "idle", act |-> 0, out |-> "end", bad |-> FALSE]
Event(kind, r, status) == [kind |-> kind, run |-> r, status |-> status]
Events == [kind : {"started", "failedAssertion", "completed"}, run : Runs,
           status : Ended \cup {"running"}]

EngineInit ==
  /\ record = [r \in Runs |-> [status |-> "none", act |-> 0]]
  /\ queue = [r \in Runs |-> <<>>]
  /\ scheduled = {} /\ draining = {}
  /\ immediates = [r \in Runs |-> 0]
  /\ drain = [r \in Runs |-> [d \in Drains |-> IdleDrain]]
  /\ waiter = [r \in Runs |-> "none"]
  /\ answer = [r \in Runs |-> "none"]
  /\ bus = <<>> /\ faults = 0 /\ lost = {} /\ late = {} /\ bad = {}

Fault(kind) == kind \in FaultKinds /\ faults < MaxFaults /\ faults' = faults + 1
Publish(event) == bus' = Append(bus, event)

-----------------------------------------------------------------------------
(* InlineDrivingScheduler. *)

\* Variant: what was queued meanwhile is not scheduled.
NothingLeft(r) == FALSE

\* drainingRuns.has, asked by scheduleDrain and by drainRun.
Busy(r) == r \in draining
\* The queue is not empty when the drain ends.
MoreQueued(r) == queue[r] # <<>>

\* scheduleDrain, unless a drain is going on or scheduled.
ScheduleDrain(r) ==
  IF Busy(r) \/ r \in scheduled THEN UNCHANGED <<scheduled, immediates>>
  ELSE /\ scheduled' = scheduled \cup {r}
       /\ immediates' = [immediates EXCEPT ![r] = @ + 1]

\* The dispatch of a prepared activation.
Dispatch(r, act) ==
  /\ queue' = [queue EXCEPT ![r] = Append(@, act)]
  /\ ScheduleDrain(r)

\* Engine.runWorkflow: save the run as pending on its first node and dispatch it ...
StartRun(r) ==
  /\ record[r].status = "none"
  /\ record' = [record EXCEPT ![r] = [status |-> "pending", act |-> 1]]
  /\ Dispatch(r, 1)
  /\ UNCHANGED <<draining, drain, waiter, answer, bus, faults, lost, late, bad>>

\* ... or end it at once: there is nothing to run, or the first node cannot be prepared.
StartEnds(r) ==
  /\ record[r].status = "none"
  /\ \E status \in Ended :
       /\ record' = [record EXCEPT ![r].status = status]
       /\ answer' = [answer EXCEPT ![r] = status]
       /\ waiter' = [waiter EXCEPT ![r] = "answered"]
  /\ UNCHANGED <<queue, scheduled, draining, immediates, drain, bus, faults, lost, late, bad>>

DrainAt(r, d, pc) == drain' = [drain EXCEPT ![r][d].pc = pc]
DrainEnds(r, d) == drain' = [drain EXCEPT ![r][d] = [IdleDrain EXCEPT !.pc = "finally"]]

\* The immediate: drainRun takes one activation, or finds a drain or nothing to do.
Fire(r, d) ==
  /\ immediates[r] > 0 /\ drain[r][d].pc = "idle" /\ \A e \in 1..(d - 1) : drain[r][e].pc # "idle"
  /\ immediates' = [immediates EXCEPT ![r] = @ - 1]
  /\ scheduled' = scheduled \ {r}
  /\ IF Busy(r) \/ queue[r] = <<>>
     THEN UNCHANGED <<queue, draining, drain>>
     ELSE /\ draining' = draining \cup {r}
          /\ queue' = [queue EXCEPT ![r] = Tail(@)]
          /\ drain' = [drain EXCEPT ![r][d] = [IdleDrain EXCEPT !.pc = "exec",
                                                               !.act = Head(queue[r])]]
  /\ UNCHANGED <<record, waiter, answer, bus, faults, lost, late, bad>>

\* markNodeRunning throws: the drain rejects, and the activation it took is gone.
MarkThrows(r, d) ==
  /\ drain[r][d].pc = "exec" /\ Fault("mark")
  /\ DrainEnds(r, d)
  /\ lost' = lost \cup {r}
  /\ UNCHANGED <<record, queue, scheduled, draining, immediates, waiter, answer, bus, late, bad>>

\* The node is marked as running and runs: another node follows, or the run ends, or the node
\* throws.  Its continuation saves the run; one whose activation is not pending is ignored.
\* What a node does shows nowhere before the save, so both are one step.
ExecuteAndSave(r, d) ==
  LET act == drain[r][d].act
      Pending(a) == [status |-> "pending", act |-> a]
      Outcome(out) == CASE out = "next"  -> Pending(act + 1)
                        [] out = "end"   -> [status |-> "completed", act |-> 0]
                        [] out = "throw" -> [status |-> "failed", act |-> 0]
  IN  /\ drain[r][d].pc = "exec"
      /\ \E out \in {"next", "end", "throw"}, isBad \in BOOLEAN :
           /\ out = "next" => act < MaxNodes
           /\ isBad => out = "end"
           /\ bad' = IF isBad THEN bad \cup {r} ELSE bad
           /\ IF record[r] = Pending(act)
              THEN /\ record' = [record EXCEPT ![r] = Outcome(out)]
                   /\ drain' = [drain EXCEPT ![r][d] = [@ EXCEPT !.pc = "publish", !.out = out,
                                                                 !.bad = isBad]]
              ELSE DrainEnds(r, d) /\ UNCHANGED record
      /\ UNCHANGED <<queue, scheduled, draining, immediates, waiter, answer, bus, faults, lost,
                     late>>

\* ... then nodeCompleted is published, and the next activation is dispatched, with this
\* drain still going on.
PublishContinuation(r, d) ==
  LET mine == drain[r][d]
  IN  /\ mine.pc = "publish"
      /\ IF mine.bad THEN Publish(Event("failedAssertion", r, "running")) ELSE UNCHANGED bus
      /\ IF mine.out = "next" THEN Dispatch(r, mine.act + 1)
         ELSE UNCHANGED <<queue, scheduled, immediates>>
      /\ IF mine.out = "next" THEN DrainEnds(r, d) ELSE DrainAt(r, d, "resolve")
      /\ UNCHANGED <<record, draining, waiter, answer, faults, lost, late, bad>>

\* The workflow's error handler throws: nothing after it happens.
HandlerThrows(r, d) ==
  /\ drain[r][d].pc = "resolve" /\ drain[r][d].out = "throw" /\ Fault("handler")
  /\ DrainEnds(r, d)
  /\ lost' = lost \cup {r}
  /\ UNCHANGED <<record, queue, scheduled, draining, immediates, waiter, answer, bus, late, bad>>

\* The drain's finally: the run is free again, and is scheduled if something was queued
\* meanwhile.
Release(r, d) ==
  /\ drain' = [drain EXCEPT ![r][d] = IdleDrain]
  /\ draining' = draining \ {r}
  /\ IF MoreQueued(r) /\ r \notin scheduled
     THEN /\ scheduled' = scheduled \cup {r}
          /\ immediates' = [immediates EXCEPT ![r] = @ + 1]
     ELSE UNCHANGED <<scheduled, immediates>>

Finally(r, d) ==
  /\ drain[r][d].pc = "finally"
  /\ Release(r, d)
  /\ UNCHANGED <<record, queue, waiter, answer, bus, faults, lost, late, bad>>

\* Variant: the waiters of a failed run are not among those that are resolved.
RegisteredIfCompleted(r) == waiter[r] = "registered" /\ record[r].status = "completed"

Registered(r) == waiter[r] = "registered"

\* The error handler of a failed run returns; resolveRunCompletion: those who are registered
\* get the result.
Resolve(r, d) ==
  /\ drain[r][d].pc = "resolve"
  /\ IF Registered(r)
     THEN /\ waiter' = [waiter EXCEPT ![r] = "answered"]
          /\ answer' = [answer EXCEPT ![r] = record[r].status]
     ELSE UNCHANGED <<waiter, answer>>
  /\ Release(r, d)
  /\ UNCHANGED <<record, queue, bus, faults, lost, late, bad>>

-----------------------------------------------------------------------------
(* waitForCompletion: read the record, then register if it has not ended. *)

\* A drain of r that has saved the end and has yet to publish it, or to resolve its waiters.
Unpublished(r) == \E d \in Drains : drain[r][d].pc = "publish" /\ drain[r][d].bad
Unresolved(r) == \E d \in Drains : drain[r][d].pc \in {"publish", "resolve"}
WillResolve(r) == record[r].status = "pending" \/ Unresolved(r)

\* With the Prisma repository the status is read by the first of several queries; the
\* in-memory one answers, and the waiter registers, before another drain can move.
WaitLoad(r) ==
  /\ waiter[r] = "none" /\ record[r].status # "none"
  /\ IF record[r].status \in Ended
     THEN /\ waiter' = [waiter EXCEPT ![r] = "answered"]
          /\ answer' = [answer EXCEPT ![r] = record[r].status]
          /\ late' = IF Unpublished(r) THEN late \cup {r} ELSE late
     ELSE /\ waiter' = [waiter EXCEPT ![r] = IF Store = "memory" THEN "registered" ELSE "loaded"]
          /\ UNCHANGED <<answer, late>>
  /\ UNCHANGED <<record, queue, scheduled, draining, immediates, drain, bus, faults, lost, bad>>

WaitRegister(r) ==
  /\ waiter[r] = "loaded"
  /\ waiter' = [waiter EXCEPT ![r] = "registered"]
  /\ lost' = IF WillResolve(r) THEN lost ELSE lost \cup {r}
  /\ UNCHANGED <<record, queue, scheduled, draining, immediates, drain, answer, bus, faults,
                 late, bad>>

-----------------------------------------------------------------------------
DrainStep(r) ==
  \E d \in Drains :
    \/ Fire(r, d) \/ ExecuteAndSave(r, d) \/ PublishContinuation(r, d)
    \/ Resolve(r, d) \/ Finally(r, d)

DrainFault(r) == \E d \in Drains : MarkThrows(r, d) \/ HandlerThrows(r, d)

-----------------------------------------------------------------------------
(* Properties. *)

\* Two activations of one run are never driven at the same time, and a pending run has its
\* activation queued with a drain to come, or being driven; only a markNodeRunning that throws
\* loses it.  The two guards and the rescheduling in finally are what an activation dispatched
\* during its own run's drain depends on.
Driving(r) == {d \in Drains : drain[r][d].pc # "idle"}
EachRunIsDrainedOnce ==
  \A r \in Runs :
    /\ Cardinality(Driving(r)) <= 1
    /\ record[r].status = "pending" /\ r \notin lost =>
         \/ record[r].act \in {queue[r][i] : i \in DOMAIN queue[r]}
              /\ (immediates[r] > 0 \/ Driving(r) # {})
         \/ \E d \in Driving(r) : \/ drain[r][d].act = record[r].act
                                  \/ drain[r][d].pc = "publish"

\* Whoever waits for a run gets its final status, unless one of the listed accidents came
\* in between: the run's end was saved and resolved between the read and the registration,
\* its error handler threw, or its activation was lost.
EveryWaiterAnswered ==
  \A r \in Runs :
    /\ waiter[r] = "registered" /\ r \notin lost => WillResolve(r)
    /\ waiter[r] = "answered" => answer[r] = record[r].status
=============================================================================
