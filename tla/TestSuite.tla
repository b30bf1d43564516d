------------------------------- MODULE TestSuite -------------------------------
(***************************************************************************)
(* One test suite: TestRunnerService, TestSuiteOrchestrator.runSuite with  *)
(* its bounded concurrency, and TestSuiteRunTracker, which follows the     *)
(* run events and counts the cases.  Composed with InlineRuns: a case is a *)
(* run the orchestrator starts and waits for, the events its nodes publish *)
(* carry the assertions.                                                   *)
(*                                                                         *)
(* Abstracted: labels, coverage and assertion rows; the tracker's adoption *)
(* (startTestSuiteRun adopts before it starts the orchestrator).           *)
(***************************************************************************)
EXTENDS InlineRuns

CONSTANTS
  Concurrencies,  \* the concurrencies a suite is started with
  Bus             \* "memory" or "redis"

ASSUME SuiteAssumption ==
  /\ IsFiniteSet(Runs) /\ Runs = 1..Cardinality(Runs)
  /\ Concurrencies \subseteq Nat \ {0} /\ Bus \in {"memory", "redis"}

VARIABLES
  concurrency,  \* cases that may be in flight
  gen,       \* the for-await loop and what follows it
  genError,  \* generateItems threw
  nextCase,  \* number of cases launched
  inFlight,  \* slots taken
  aborted,   \* the abort signal
  case,      \* case[i]: runOneCase
  known,     \* tracker: testRunCaseIndex
  early,     \* tracker: pendingByRunId, the runs with a failed assertion not known yet
  failing,   \* tracker: failedAssertionsByRunId
  status,    \* status[i]: testCaseStatus of run i
  suite      \* the TestSuiteRun row

suiteVars == <<concurrency, gen, genError, nextCase, inFlight, aborted, case, known, early, failing,
               status, suite>>
allVars == <<engineVars, suiteVars>>

GenPc  == {"pull", "acquire", "parked", "join", "finalize", "done"}
CasePc == {"none", "starting", "announce", "waiting", "settled", "threw"}
CaseStatus  == {"none", "running", "succeeded", "failed"}
SuiteStatus == {"running", "succeeded", "partial", "failed", "errored", "cancelled"}
RunningSuite == [status |-> "running", passed |-> 0, failed |-> 0]

SuiteInit ==
  /\ EngineInit
  /\ concurrency \in Concurrencies
  /\ gen = "pull" /\ genError = FALSE /\ nextCase = 0 /\ inFlight = 0 /\ aborted = FALSE
  /\ case = [i \in Runs |-> "none"]
  /\ known = {} /\ early = {} /\ failing = {}
  /\ status = [i \in Runs |-> "none"]
  /\ suite = RunningSuite

EngineButFaults == UNCHANGED <<record, queue, scheduled, draining, immediates, drain, waiter,
                               answer, bus, lost, late, bad>>
EngineButBus == UNCHANGED <<record, queue, scheduled, draining, immediates, drain, waiter,
                            answer, faults, lost, late, bad>>
TrackerUnchanged == UNCHANGED <<concurrency, known, early, failing, status>>

-----------------------------------------------------------------------------
(* The generator loop and its slots. *)

\* Variant: one slot too many.
FullOneLate == inFlight > concurrency

Full == inFlight >= concurrency

\* A slot is taken and the case begins.
Launch ==
  /\ gen' = "pull"
  /\ nextCase' = nextCase + 1
  /\ inFlight' = inFlight + 1
  /\ case' = [case EXCEPT ![nextCase + 1] = "starting"]
Stop == gen' = "join" /\ UNCHANGED <<nextCase, inFlight, case>>
Park == gen' = "parked" /\ UNCHANGED <<nextCase, inFlight, case>>

\* generateItems yields the next item; the loop stops if the suite was aborted, and waits
\* for the shared promise while there is no slot.
PullItem ==
  /\ gen = "pull" /\ nextCase < Cardinality(Runs)
  /\ IF aborted THEN Stop ELSE IF Full THEN Park ELSE Launch
  /\ UNCHANGED <<engineVars, genError, aborted, suite>>
  /\ TrackerUnchanged

\* A slot was released: the parked loop looks again, and gives up if the suite was aborted
\* meanwhile.
AcquireSlot ==
  /\ gen = "acquire"
  /\ IF aborted THEN Stop ELSE IF Full THEN Park ELSE Launch
  /\ UNCHANGED <<engineVars, genError, aborted, suite>>
  /\ TrackerUnchanged

\* It returns, or throws.
PullEnds ==
  /\ gen = "pull"
  /\ gen' = "join"
  /\ UNCHANGED <<engineVars, genError, nextCase, inFlight, aborted, case, suite>>
  /\ TrackerUnchanged
PullThrows ==
  /\ gen = "pull" /\ Fault("generate")
  /\ gen' = "join" /\ genError' = TRUE
  /\ EngineButFaults
  /\ UNCHANGED <<nextCase, inFlight, aborted, case, suite>>
  /\ TrackerUnchanged

\* Variant: the promise is resolved only by the case that empties the suite.
ReleaseSlotLast ==
  /\ inFlight' = inFlight - 1
  /\ gen' = IF gen = "parked" /\ inFlight = 0 THEN "acquire" ELSE gen

\* release: the slot is free and a parked loop looks again.
ReleaseSlot ==
  /\ inFlight' = inFlight - 1
  /\ gen' = IF gen = "parked" THEN "acquire" ELSE gen

\* The signal of startTestSuiteRun's caller.
Abort ==
  /\ ~aborted /\ gen \in {"pull", "acquire", "parked"} /\ Fault("abort")
  /\ aborted' = TRUE
  /\ EngineButFaults
  /\ UNCHANGED <<gen, genError, nextCase, inFlight, case, suite>>
  /\ TrackerUnchanged

-----------------------------------------------------------------------------
(* runOneCase. *)

CaseAt(i, pc) == case' = [case EXCEPT ![i] = pc]
OnlyCase == UNCHANGED <<gen, genError, nextCase, inFlight, aborted, suite>> /\ TrackerUnchanged

\* engine.runWorkflow.
CaseStarts(i) ==
  /\ case[i] = "starting"
  /\ StartRun(i) \/ StartEnds(i)
  /\ CaseAt(i, "announce") /\ OnlyCase

\* It throws: the slot is released, the case's promise rejects.
CaseThrows(i) ==
  /\ case[i] = "starting" /\ Fault("case")
  /\ CaseAt(i, "threw") /\ ReleaseSlot
  /\ EngineButFaults /\ UNCHANGED <<genError, nextCase, aborted, suite>>
  /\ TrackerUnchanged

\* testCaseStarted is published after runWorkflow returned: the run may be far ahead.
CaseAnnounces(i) ==
  /\ case[i] = "announce"
  /\ Publish(Event("started", i, "running"))
  /\ CaseAt(i, "waiting") /\ OnlyCase
  /\ EngineButBus

CaseWaits(i) ==
  /\ case[i] = "waiting"
  /\ WaitLoad(i) \/ WaitRegister(i)
  /\ UNCHANGED suiteVars

\* testCaseCompleted is published with the run's status, the outcome is kept and the slot
\* released.
CaseSettles(i) ==
  /\ case[i] = "waiting" /\ waiter[i] = "answered"
  /\ Publish(Event("completed", i, answer[i]))
  /\ CaseAt(i, "settled") /\ ReleaseSlot
  /\ EngineButBus /\ UNCHANGED <<genError, nextCase, aborted, suite>>
  /\ TrackerUnchanged

-----------------------------------------------------------------------------
(* TestSuiteRunTracker: the events in the order they were published. *)

\* failedAssertionsByRunId after drainPendingForRun of a case that has just started.
DrainsEarly(i) == IF i \in early THEN failing \cup {i} ELSE failing \ {i}

\* persistCaseCompleted: a failed assertion overrides a success.
FinalStatus(i, runStatus) ==
  IF runStatus = "completed" /\ i \notin failing THEN "succeeded" ELSE "failed"

TrackStarted(i) ==
  /\ known' = known \cup {i} /\ early' = early \ {i}
  /\ failing' = DrainsEarly(i)
  /\ status' = [status EXCEPT ![i] = "running"]

TrackFailedAssertion(i) ==
  /\ IF i \in known THEN failing' = failing \cup {i} /\ UNCHANGED early
     ELSE early' = early \cup {i} /\ UNCHANGED failing
  /\ UNCHANGED <<known, status>>

TrackCompleted(i, runStatus) ==
  /\ status' = [status EXCEPT ![i] = FinalStatus(i, runStatus)]
  /\ known' = known \ {i} /\ early' = early \ {i}
  /\ UNCHANGED failing

\* processEvent for the next event of the chain, while the subscription is open.
Track ==
  LET e == Head(bus)
  IN  /\ bus # <<>> /\ gen # "done"
      /\ bus' = Tail(bus)
      /\ \/ e.kind = "started" /\ TrackStarted(e.run)
         \/ e.kind = "failedAssertion" /\ TrackFailedAssertion(e.run)
         \/ e.kind = "completed" /\ TrackCompleted(e.run, e.status)
      /\ EngineButBus
      /\ UNCHANGED <<concurrency, gen, genError, nextCase, inFlight, aborted, case, suite>>

-----------------------------------------------------------------------------
(* The end of the suite. *)

Launched == 1..nextCase
Settled  == {i \in Launched : case[i] = "settled"}
Passed   == {i \in Settled : answer[i] = "completed"}

\* deriveSuiteStatus, of the orchestrator and of the tracker.
StatusOf(total, passed, failed) ==
  IF total = 0 \/ failed = 0 THEN "succeeded" ELSE IF passed = 0 THEN "failed" ELSE "partial"
SuiteOutcome ==
  CASE genError /\ Settled = {} -> "errored"
    [] aborted /\ ~(genError /\ Settled = {}) -> "cancelled"
    [] genError /\ ~aborted /\ Settled # {} -> "errored"
    [] OTHER -> StatusOf(Cardinality(Settled), Cardinality(Passed), Cardinality(Settled \ Passed))

\* Promise.all rejects as soon as one case threw, whatever the others do; the service stamps
\* the row and closes the subscription.
JoinThrows ==
  /\ gen = "join" /\ \E i \in Launched : case[i] = "threw"
  /\ suite' = [RunningSuite EXCEPT !.status = "errored"]
  /\ gen' = "done"
  /\ UNCHANGED <<engineVars, genError, nextCase, inFlight, aborted, case>> /\ TrackerUnchanged

\* All cases settled; a generator error is thrown again and stamped the same way.
Join ==
  /\ gen = "join" /\ Settled = Launched
  /\ IF SuiteOutcome = "errored"
     THEN gen' = "done" /\ suite' = [RunningSuite EXCEPT !.status = "errored"]
     ELSE gen' = "finalize" /\ UNCHANGED suite
  /\ UNCHANGED <<engineVars, genError, nextCase, inFlight, aborted, case>> /\ TrackerUnchanged

\* Variant: finalize does not wait for the events before it.
FinalizeAtOnce == TRUE

\* await processingTail: the events published in this process have all been handled.
EventsHandled == Bus = "redis" \/ bus = <<>>

\* finalize: recount from the case rows, keep "cancelled", write the suite row.
Finalize ==
  LET passed == Cardinality({i \in Launched : status[i] = "succeeded"})
      failed == Cardinality({i \in Launched : status[i] = "failed"})
  IN  /\ gen = "finalize" /\ EventsHandled
      /\ suite' = [passed |-> passed, failed |-> failed,
                   status |-> IF SuiteOutcome = "cancelled" THEN "cancelled"
                              ELSE StatusOf(Cardinality(Settled), passed, failed)]
      /\ gen' = "done"
      /\ UNCHANGED <<engineVars, genError, nextCase, inFlight, aborted, case>>
      /\ TrackerUnchanged

-----------------------------------------------------------------------------
(* The specification. *)

LoopStep == \/ PullItem \/ PullEnds \/ PullThrows \/ AcquireSlot
            \/ JoinThrows \/ Join \/ Finalize
CaseStep(i) == CaseStarts(i) \/ CaseAnnounces(i) \/ CaseWaits(i) \/ CaseSettles(i)

SuiteNext ==
  \/ LoopStep \/ Abort \/ Track
  \/ \E i \in Runs : \/ CaseStep(i) \/ CaseThrows(i)
                     \/ (DrainStep(i) \/ DrainFault(i)) /\ UNCHANGED suiteVars

SuiteSpec == SuiteInit /\ [][SuiteNext]_allVars

\* One event loop takes every step that is ready; nodes and generateItems come to an end.
FairSuiteSpec ==
  /\ SuiteSpec
  /\ WF_allVars(LoopStep) /\ WF_allVars(Track)
  /\ \A i \in Runs : WF_allVars(CaseStep(i)) /\ WF_allVars(DrainStep(i) /\ UNCHANGED suiteVars)

-----------------------------------------------------------------------------
(* Properties. *)

\* The variables have their types.
SuiteTypeOK ==
  /\ record \in [Runs -> [status : Ended \cup {"none", "pending"}, act : 0..MaxNodes]]
  /\ queue \in [Runs -> Seq(Acts)] /\ immediates \in [Runs -> Nat]
  /\ scheduled \subseteq Runs /\ draining \subseteq Runs
  /\ drain \in [Runs -> [Drains -> [pc : DrainPc, act : 0..MaxNodes,
                                    out : {"next", "end", "throw"}, bad : BOOLEAN]]]
  /\ waiter \in [Runs -> {"none", "loaded", "registered", "answered"}]
  /\ answer \in [Runs -> Ended \cup {"none"}]
  /\ bus \in Seq(Events) /\ faults \in 0..MaxFaults
  /\ lost \subseteq Runs /\ late \subseteq Runs /\ bad \subseteq Runs
  /\ concurrency \in Concurrencies /\ gen \in GenPc /\ genError \in BOOLEAN /\ aborted \in BOOLEAN
  /\ nextCase \in 0..Cardinality(Runs) /\ inFlight \in 0..concurrency
  /\ case \in [Runs -> CasePc]
  /\ known \subseteq Runs /\ failing \subseteq Runs /\ early \subseteq Runs
  /\ status \in [Runs -> CaseStatus]
  /\ suite \in [status : SuiteStatus, passed : Nat, failed : Nat]

\* The counters of a suite that ends without an error are what its cases deserve: a case
\* passes if its run completed and none of its nodes returned a failed assertion.  The
\* exception is a run whose end was read before its last event was published.
Deserve(i) == answer[i] = "completed" /\ i \notin bad
CountsMatchVerdicts ==
  suite.status \in {"succeeded", "partial", "failed", "cancelled"} /\ late = {} =>
    /\ suite.passed = Cardinality({i \in Launched : Deserve(i)})
    /\ suite.failed = Cardinality({i \in Launched : ~Deserve(i)})

\* Every suite ends, whatever the order in which slots are released, cases settle and the
\* suite is aborted, unless a case waits for a run whose waiter was lost.
SuiteEnds == (suite.status = "running") ~> (suite.status # "running" \/ lost # {})
=============================================================================
