---------------------------- MODULE TestSuiteProof ----------------------------
(***************************************************************************)
(* The runs of a test suite, for any number of cases, nodes, slots and     *)
(* drains and for every fault: a run is driven by one drain at a time,     *)
(* whoever waits for it is answered, and the suite's counters are what its *)
(* cases deserve.                                                          *)
(***************************************************************************)
EXTENDS TestSuite, FiniteSetTheorems, SequenceTheorems, TLAPS

-----------------------------------------------------------------------------
(* The inductive invariant. *)

Pending(a) == [status |-> "pending", act |-> a]
At(n, kind, i) == n \in 1..Len(bus) /\ bus[n].kind = kind /\ bus[n].run = i
InBus(kind, i) == \E n \in 1..Len(bus) : bus[n].kind = kind /\ bus[n].run = i

\* A run has one drain at most, and is scheduled only while it has none; what is queued is its
\* pending activation.
OneDrain(r) ==
  /\ \A d, e \in Drains : drain[r][d].pc # "idle" /\ drain[r][e].pc # "idle" => d = e
  /\ r \in draining <=> \E d \in Drains : drain[r][d].pc # "idle"
  /\ immediates[r] = IF r \in scheduled THEN 1 ELSE 0
  /\ r \in scheduled => r \notin draining /\ queue[r] # <<>>
  /\ r \notin scheduled /\ r \notin draining => queue[r] = <<>>
  /\ queue[r] # <<>> => Len(queue[r]) = 1 /\ record[r] = Pending(Head(queue[r]))

\* Where a drain stands, its run stands.
DrainMatches(r) ==
  \A d \in Drains :
    LET mine == drain[r][d]
    IN  /\ mine.pc \in {"exec", "publish", "resolve"} => queue[r] = <<>>
        /\ mine.pc = "exec" => record[r] = Pending(mine.act)
        /\ mine.pc = "publish" => /\ mine.out = "next" => /\ record[r] = Pending(mine.act + 1)
                                                          /\ mine.act < MaxNodes
                                  /\ mine.out # "next" => record[r].status \in Ended
                                  /\ mine.bad => mine.out = "end" /\ r \in bad
        /\ mine.pc = "resolve" => record[r].status \in Ended

\* The activation that is pending is queued, driven or about to be dispatched, or was lost.
Carried(r) ==
  record[r].status = "pending" =>
    \/ r \in lost \/ queue[r] # <<>>
    \/ \E d \in Drains : \/ drain[r][d].pc = "exec"
                         \/ drain[r][d].pc = "publish" /\ drain[r][d].out = "next"

\* Who waits has a drain to answer it; who was answered has the end that is saved.
WaitInv(r) ==
  /\ record[r].status = "none" => waiter[r] = "none" /\ r \notin draining /\ queue[r] = <<>>
  /\ waiter[r] = "registered" /\ r \notin lost => WillResolve(r)
  /\ waiter[r] = "answered" => /\ answer[r] = record[r].status /\ record[r].status \in Ended
                               /\ r \in late \/ ~Unpublished(r)
RunInv(r) == OneDrain(r) /\ DrainMatches(r) /\ Carried(r) /\ WaitInv(r)

\* A case and its run.
InProgress == {i \in Runs : case[i] \in {"starting", "announce", "waiting"}}
CaseInv ==
  /\ \A i \in Runs : /\ case[i] = "none" <=> i > nextCase
                     /\ record[i].status = "none" <=> case[i] \in {"none", "starting", "threw"}
                     /\ case[i] = "settled" => waiter[i] = "answered"
  /\ inFlight = Cardinality(InProgress)
  /\ gen \in {"parked", "acquire"} => nextCase < Cardinality(Runs)

\* What the tracker will have counted when it has handled the events that are under way.
Handled(i) == case[i] = "settled" /\ ~InBus("completed", i)
Verdict(i) == IF Deserve(i) THEN "succeeded" ELSE "failed"
Present(i) ==
  /\ case[i] \notin {"waiting", "settled"} => ~InBus("started", i) /\ i \notin known
  /\ case[i] # "settled" => ~InBus("completed", i)
  /\ InBus("failedAssertion", i) => i \in bad /\ ~Handled(i)
Ordered(i) ==
  /\ \A m, n \in 1..Len(bus) : At(m, "started", i) /\ At(n, "started", i) => m = n
  /\ \A m, n \in 1..Len(bus) : At(m, "completed", i) /\ bus[n].run = i =>
       n <= m /\ bus[m].status = answer[i]
TallyInv(i) ==
  /\ case[i] \in {"waiting", "settled"} =>
       (i \in known <=> ~InBus("started", i) /\ ~Handled(i))
  /\ Handled(i) => ~InBus("started", i)
  /\ i \in failing \cup early => i \in bad
  /\ i \in bad /\ ~Unpublished(i) /\ ~InBus("failedAssertion", i) /\ ~Handled(i) =>
       i \in IF i \in known THEN failing ELSE early
  /\ Handled(i) => status[i] = Verdict(i)
Tracked(i) == Present(i) /\ Ordered(i) /\ TallyInv(i)
TrackInv == late = {} => \A i \in Runs : Tracked(i)

\* The end of the suite.
Counted == {"succeeded", "partial", "failed", "cancelled"}
EndInv ==
  /\ suite.status \in Counted => gen = "done"
  /\ gen = "finalize" \/ suite.status \in Counted => Settled = Launched
  /\ Bus = "memory" => CountsMatchVerdicts

Inv == /\ SuiteTypeOK /\ \A r \in Runs : RunInv(r)
       /\ CaseInv /\ TrackInv /\ EndInv

-----------------------------------------------------------------------------
(* Types of the engine. *)

DrainRecord == [pc : DrainPc, act : 0..MaxNodes, out : {"next", "end", "throw"}, bad : BOOLEAN]
EngineType ==
  /\ record \in [Runs -> [status : Ended \cup {"none", "pending"}, act : 0..MaxNodes]]
  /\ queue \in [Runs -> Seq(Acts)] /\ immediates \in [Runs -> Nat]
  /\ scheduled \subseteq Runs /\ draining \subseteq Runs
  /\ drain \in [Runs -> [Drains -> DrainRecord]]
  /\ waiter \in [Runs -> {"none", "loaded", "registered", "answered"}]
  /\ answer \in [Runs -> Ended \cup {"none"}]
  /\ bus \in Seq(Events) /\ faults \in 0..MaxFaults
  /\ lost \subseteq Runs /\ late \subseteq Runs /\ bad \subseteq Runs

\* The other runs do not move.
Same(q) ==
  /\ record'[q] = record[q] /\ queue'[q] = queue[q] /\ immediates'[q] = immediates[q]
  /\ drain'[q] = drain[q] /\ waiter'[q] = waiter[q] /\ answer'[q] = answer[q]
  /\ (q \in scheduled' <=> q \in scheduled) /\ (q \in draining' <=> q \in draining)
  /\ (q \in lost' <=> q \in lost) /\ (q \in late' <=> q \in late) /\ (q \in bad' <=> q \in bad)
OnlyRun(r) == \A q \in Runs \ {r} : Same(q)

LEMMA Numbers ==
  /\ MaxNodes \in Nat /\ 1 \in Acts /\ 0 \in 0..MaxNodes /\ Acts \subseteq 0..MaxNodes
  /\ MaxFaults \in Nat
BY InlineAssumption DEF Acts

\* What is idle, what is about to end and what begins are drains.
LEMMA DrainRecords ==
  /\ IdleDrain \in DrainRecord /\ IdleDrain.pc = "idle" /\ IdleDrain.bad = FALSE
  /\ [IdleDrain EXCEPT !.pc = "finally"] \in DrainRecord
  /\ [IdleDrain EXCEPT !.pc = "finally"].pc = "finally"
  /\ \A a \in Acts : LET begun == [IdleDrain EXCEPT !.pc = "exec", !.act = a]
                     IN  begun \in DrainRecord /\ begun.pc = "exec" /\ begun.act = a
<1>1. IdleDrain \in DrainRecord /\ IdleDrain.pc = "idle" /\ IdleDrain.bad = FALSE
  BY Numbers DEF IdleDrain, DrainRecord, DrainPc
<1>2. /\ [IdleDrain EXCEPT !.pc = "finally"] \in DrainRecord
      /\ [IdleDrain EXCEPT !.pc = "finally"].pc = "finally"
  BY Numbers DEF IdleDrain, DrainRecord, DrainPc
<1>3. ASSUME NEW a \in Acts
      PROVE  /\ [IdleDrain EXCEPT !.pc = "exec", !.act = a] \in DrainRecord
             /\ [IdleDrain EXCEPT !.pc = "exec", !.act = a].pc = "exec"
             /\ [IdleDrain EXCEPT !.pc = "exec", !.act = a].act = a
  BY Numbers DEF IdleDrain, DrainRecord, DrainPc
<1> QED BY <1>1, <1>2, <1>3

\* One drain moves.
MovesDrain(r, d, v) == drain' = [drain EXCEPT ![r] = [drain[r] EXCEPT ![d] = v]]
LEMMA DrainSet ==
  ASSUME EngineType, NEW r \in Runs, NEW d \in Drains, NEW v \in DrainRecord, MovesDrain(r, d, v)
  PROVE  /\ drain' \in [Runs -> [Drains -> DrainRecord]]
         /\ drain'[r][d] = v
         /\ \A e \in Drains : e # d => drain'[r][e] = drain[r][e]
         /\ \A q \in Runs \ {r} : drain'[q] = drain[q]
<1>1. drain \in [Runs -> [Drains -> DrainRecord]]
  BY DEF EngineType
<1>2. [drain[r] EXCEPT ![d] = v] \in [Drains -> DrainRecord]
  BY <1>1
<1>3. drain' = [drain EXCEPT ![r] = [drain[r] EXCEPT ![d] = v]]
  BY DEF MovesDrain
<1> QED BY <1>1, <1>2, <1>3

\* A run is scheduled, unless it is or has a drain.
LEMMA ScheduleFacts ==
  ASSUME EngineType, NEW r \in Runs, ScheduleDrain(r),
         immediates[r] = IF r \in scheduled THEN 1 ELSE 0
  PROVE  /\ scheduled' \subseteq Runs /\ immediates' \in [Runs -> Nat]
         /\ \A q \in Runs \ {r} : immediates'[q] = immediates[q] /\ (q \in scheduled' <=> q \in scheduled)
         /\ immediates'[r] = IF r \in scheduled' THEN 1 ELSE 0
         /\ r \in scheduled' <=> r \in scheduled \/ r \notin draining
<1>1. immediates \in [Runs -> Nat] /\ scheduled \subseteq Runs
  BY DEF EngineType
<1>2. CASE r \in draining \/ r \in scheduled
  BY <1>1, <1>2 DEF ScheduleDrain, Busy
<1>3. CASE ~(r \in draining \/ r \in scheduled)
  <2>1. scheduled' = scheduled \cup {r} /\ immediates' = [immediates EXCEPT ![r] = immediates[r] + 1]
    BY <1>3 DEF ScheduleDrain, Busy
  <2>2. immediates'[r] = 1 /\ \A q \in Runs \ {r} : immediates'[q] = immediates[q]
    BY <1>1, <1>3, <2>1
  <2>3. immediates' \in [Runs -> Nat]
    BY <1>1, <2>1
  <2> QED BY <1>1, <1>3, <2>1, <2>2, <2>3
<1> QED BY <1>2, <1>3

\* The queue of a run takes an activation.
LEMMA QueueFacts ==
  ASSUME EngineType, NEW r \in Runs, NEW a \in Acts, queue[r] = <<>>,
         queue' = [queue EXCEPT ![r] = Append(queue[r], a)]
  PROVE  /\ queue' \in [Runs -> Seq(Acts)] /\ \A q \in Runs \ {r} : queue'[q] = queue[q]
         /\ queue'[r] # <<>> /\ Len(queue'[r]) = 1 /\ Head(queue'[r]) = a
<1>1. queue \in [Runs -> Seq(Acts)]
  BY DEF EngineType
<1>2. /\ Append(queue[r], a) = <<a>> /\ <<a>> \in Seq(Acts) /\ <<a>> # <<>>
      /\ Len(<<a>>) = 1 /\ Head(<<a>>) = a
  OBVIOUS
<1> QED BY <1>1, <1>2

-----------------------------------------------------------------------------
(* One lemma per step of a run. *)

\* A run that does not move keeps its invariant.
LEMMA SameKeeps ==
  ASSUME NEW q \in Runs, RunInv(q), Same(q)
  PROVE  RunInv(q)'
<1>1. OneDrain(q)'
  BY DEF RunInv, OneDrain, Same
<1>2. DrainMatches(q)'
  BY DEF RunInv, DrainMatches, Same
<1>3. Carried(q)'
  BY DEF RunInv, Carried, Same
<1>4. WaitInv(q)'
  BY DEF RunInv, WaitInv, WillResolve, Unresolved, Unpublished, Same
<1> QED BY <1>1, <1>2, <1>3, <1>4 DEF RunInv

\* The run is saved on its first node and dispatched.
LEMMA StartRunKeeps ==
  ASSUME EngineType, NEW r \in Runs, RunInv(r), StartRun(r)
  PROVE  EngineType' /\ RunInv(r)' /\ OnlyRun(r)
<1>1. /\ record[r].status = "none"
      /\ record' = [record EXCEPT ![r] = [status |-> "pending", act |-> 1]]
      /\ queue' = [queue EXCEPT ![r] = Append(queue[r], 1)] /\ ScheduleDrain(r)
      /\ UNCHANGED <<draining, drain, waiter, answer, bus, faults, lost, late, bad>>
  BY DEF StartRun, Dispatch
<1>2. /\ waiter[r] = "none" /\ r \notin draining /\ queue[r] = <<>> /\ r \notin scheduled
      /\ immediates[r] = IF r \in scheduled THEN 1 ELSE 0
      /\ \A d \in Drains : drain[r][d].pc = "idle"
  BY <1>1 DEF RunInv, WaitInv, OneDrain
<1>3. /\ queue' \in [Runs -> Seq(Acts)] /\ \A q \in Runs \ {r} : queue'[q] = queue[q]
      /\ queue'[r] # <<>> /\ Len(queue'[r]) = 1 /\ Head(queue'[r]) = 1
  BY <1>1, <1>2, QueueFacts, Numbers
<1>4. /\ scheduled' \subseteq Runs /\ immediates' \in [Runs -> Nat]
      /\ \A q \in Runs \ {r} : immediates'[q] = immediates[q] /\ (q \in scheduled' <=> q \in scheduled)
      /\ immediates'[r] = IF r \in scheduled' THEN 1 ELSE 0
      /\ r \in scheduled'
  BY <1>1, <1>2, ScheduleFacts
<1>5. /\ [status |-> "pending", act |-> 1] \in [status : Ended \cup {"none", "pending"}, act : 0..MaxNodes]
      /\ record \in [Runs -> [status : Ended \cup {"none", "pending"}, act : 0..MaxNodes]]
  BY Numbers DEF EngineType
<1>6. /\ record' \in [Runs -> [status : Ended \cup {"none", "pending"}, act : 0..MaxNodes]]
      /\ record'[r] = Pending(1) /\ \A q \in Runs \ {r} : record'[q] = record[q]
  BY <1>1, <1>5 DEF Pending
<1>7. EngineType'
  BY <1>1, <1>3, <1>4, <1>6 DEF EngineType
<1>8. OnlyRun(r)
  BY <1>1, <1>3, <1>4, <1>6 DEF OnlyRun, Same
<1>9. OneDrain(r)'
  BY <1>1, <1>2, <1>3, <1>4, <1>6 DEF OneDrain
<1>10. DrainMatches(r)'
  BY <1>1, <1>2 DEF DrainMatches
<1>11. Carried(r)' /\ WaitInv(r)'
  BY <1>1, <1>2, <1>3, <1>6 DEF Carried, WaitInv, Pending
<1> QED BY <1>7, <1>8, <1>9, <1>10, <1>11 DEF RunInv

\* The run ends as it starts.
LEMMA StartEndsKeeps ==
  ASSUME EngineType, NEW r \in Runs, RunInv(r), StartEnds(r)
  PROVE  EngineType' /\ RunInv(r)' /\ OnlyRun(r)
<1>1. PICK end \in Ended :
        /\ record' = [record EXCEPT ![r] = [record[r] EXCEPT !.status = end]]
        /\ answer' = [answer EXCEPT ![r] = end]
        /\ waiter' = [waiter EXCEPT ![r] = "answered"]
  BY DEF StartEnds
<1>2. /\ record[r].status = "none"
      /\ UNCHANGED <<queue, scheduled, draining, immediates, drain, bus, faults, lost, late, bad>>
  BY DEF StartEnds
<1>3. /\ r \notin draining /\ queue[r] = <<>> /\ r \notin scheduled
      /\ \A d \in Drains : drain[r][d].pc = "idle"
  BY <1>2 DEF RunInv, WaitInv, OneDrain
<1>4. /\ record \in [Runs -> [status : Ended \cup {"none", "pending"}, act : 0..MaxNodes]]
      /\ answer \in [Runs -> Ended \cup {"none"}]
      /\ waiter \in [Runs -> {"none", "loaded", "registered", "answered"}]
  BY DEF EngineType
<1>5. /\ [record[r] EXCEPT !.status = end] \in [status : Ended \cup {"none", "pending"}, act : 0..MaxNodes]
      /\ [record[r] EXCEPT !.status = end].status = end
  BY <1>4
<1>6. /\ record' \in [Runs -> [status : Ended \cup {"none", "pending"}, act : 0..MaxNodes]]
      /\ record'[r].status = end /\ \A q \in Runs \ {r} : record'[q] = record[q]
  BY <1>1, <1>4, <1>5
<1>7. /\ answer' \in [Runs -> Ended \cup {"none"}] /\ answer'[r] = end
      /\ waiter' \in [Runs -> {"none", "loaded", "registered", "answered"}] /\ waiter'[r] = "answered"
      /\ \A q \in Runs \ {r} : answer'[q] = answer[q] /\ waiter'[q] = waiter[q]
  BY <1>1, <1>4
<1>8. EngineType' /\ OnlyRun(r)
  BY <1>2, <1>6, <1>7 DEF EngineType, OnlyRun, Same
<1>9. OneDrain(r)'
  BY <1>2, <1>3 DEF OneDrain, RunInv
<1>10. DrainMatches(r)'
  BY <1>2, <1>3 DEF DrainMatches
<1>11. Carried(r)' /\ WaitInv(r)'
  BY <1>2, <1>3, <1>6, <1>7 DEF Carried, WaitInv, Unpublished, Ended
<1> QED BY <1>8, <1>9, <1>10, <1>11 DEF RunInv

\* Who waits reads the record, and registers.
LEMMA WaitKeeps ==
  ASSUME EngineType, NEW r \in Runs, RunInv(r), WaitLoad(r) \/ WaitRegister(r)
  PROVE  EngineType' /\ RunInv(r)' /\ OnlyRun(r)
<1>1. /\ answer \in [Runs -> Ended \cup {"none"}]
      /\ waiter \in [Runs -> {"none", "loaded", "registered", "answered"}]
      /\ record \in [Runs -> [status : Ended \cup {"none", "pending"}, act : 0..MaxNodes]]
      /\ lost \subseteq Runs /\ late \subseteq Runs
  BY DEF EngineType
<1>2. UNCHANGED <<record, queue, scheduled, draining, immediates, drain, bus, faults, bad>>
  BY DEF WaitLoad, WaitRegister
<1>3. /\ waiter' \in [Runs -> {"none", "loaded", "registered", "answered"}]
      /\ answer' \in [Runs -> Ended \cup {"none"}] /\ lost' \subseteq Runs /\ late' \subseteq Runs
      /\ \A q \in Runs \ {r} : waiter'[q] = waiter[q] /\ answer'[q] = answer[q]
      /\ \A q \in Runs \ {r} : (q \in lost' <=> q \in lost) /\ (q \in late' <=> q \in late)
      /\ lost \subseteq lost' /\ late \subseteq late'
  BY <1>1 DEF WaitLoad, WaitRegister
<1>4. EngineType' /\ OnlyRun(r)
  BY <1>2, <1>3 DEF EngineType, OnlyRun, Same
<1>5. OneDrain(r)' /\ DrainMatches(r)' /\ Carried(r)'
  BY <1>2, <1>3 DEF RunInv, OneDrain, DrainMatches, Carried
<1>6. record[r].status # "none" /\ record[r].status \in Ended \cup {"none", "pending"}
  BY <1>1 DEF WaitLoad, WaitRegister, RunInv, WaitInv
<1>7. /\ WillResolve(r)' = WillResolve(r) /\ Unpublished(r)' = Unpublished(r)
  BY <1>2 DEF WillResolve, Unresolved, Unpublished
<1>8. WaitInv(r)'
  <2>1. CASE WaitRegister(r)
    <3>1. waiter'[r] = "registered" /\ (r \notin lost' => WillResolve(r))
      BY <1>1, <2>1 DEF WaitRegister
    <3> QED BY <1>2, <1>6, <1>7, <3>1 DEF WaitInv
  <2>2. CASE WaitLoad(r) /\ record[r].status \in Ended
    <3>1. waiter'[r] = "answered" /\ answer'[r] = record[r].status /\ (r \in late' \/ ~Unpublished(r))
      BY <1>1, <2>2 DEF WaitLoad
    <3> QED BY <1>2, <1>6, <1>7, <2>2, <3>1 DEF WaitInv
  <2>3. CASE WaitLoad(r) /\ record[r].status \notin Ended
    <3>1. waiter'[r] \in {"registered", "loaded"} /\ record[r].status = "pending"
      BY <1>1, <1>6, <2>3 DEF WaitLoad
    <3>2. WillResolve(r)
      BY <3>1 DEF WillResolve
    <3> QED BY <1>2, <1>6, <1>7, <3>1, <3>2 DEF WaitInv
  <2> QED BY <2>1, <2>2, <2>3
<1> QED BY <1>4, <1>5, <1>8 DEF RunInv

\* The only drain of a run that drains.
LEMMA OnlyDrain ==
  ASSUME NEW r \in Runs, RunInv(r), NEW d \in Drains, drain[r][d].pc # "idle"
  PROVE  /\ r \in draining /\ r \notin scheduled /\ immediates[r] = 0
         /\ \A e \in Drains : e # d => drain[r][e].pc = "idle"
         /\ record[r].status # "none"
BY DEF RunInv, OneDrain, WaitInv

\* The immediate takes the activation that was queued.
LEMMA FireKeeps ==
  ASSUME EngineType, NEW r \in Runs, NEW d \in Drains, RunInv(r), Fire(r, d)
  PROVE  EngineType' /\ RunInv(r)' /\ OnlyRun(r)
<1> DEFINE a == Head(queue[r])
           begun == [IdleDrain EXCEPT !.pc = "exec", !.act = a]
<1>1. /\ immediates \in [Runs -> Nat] /\ queue \in [Runs -> Seq(Acts)]
      /\ drain \in [Runs -> [Drains -> DrainRecord]]
      /\ scheduled \subseteq Runs /\ draining \subseteq Runs
  BY DEF EngineType
<1>2. /\ immediates[r] > 0 /\ immediates' = [immediates EXCEPT ![r] = immediates[r] - 1]
      /\ scheduled' = scheduled \ {r}
      /\ UNCHANGED <<record, waiter, answer, bus, faults, lost, late, bad>>
  BY DEF Fire
<1>3. /\ r \in scheduled /\ r \notin draining /\ queue[r] # <<>> /\ immediates[r] = 1
      /\ Len(queue[r]) = 1 /\ record[r] = Pending(a)
      /\ \A e \in Drains : drain[r][e].pc = "idle"
  BY <1>2 DEF RunInv, OneDrain
<1>4. a \in Acts /\ Tail(queue[r]) = <<>>
  <2>1. a \in Acts /\ Tail(queue[r]) \in Seq(Acts) /\ Len(Tail(queue[r])) = Len(queue[r]) - 1
    BY <1>1, <1>3, HeadTailProperties
  <2>2. Len(Tail(queue[r])) = 0
    BY <1>3, <2>1
  <2> QED BY <2>1, <2>2, EmptySeq
<1>5. begun \in DrainRecord /\ begun.pc = "exec" /\ begun.act = a
  BY <1>4, DrainRecords
<1>6. /\ draining' = draining \cup {r} /\ queue' = [queue EXCEPT ![r] = <<>>]
      /\ drain' = [drain EXCEPT ![r] = [drain[r] EXCEPT ![d] = begun]]
  BY <1>3, <1>4 DEF Fire, Busy
<1> HIDE DEF begun
<1>7. /\ drain' \in [Runs -> [Drains -> DrainRecord]] /\ drain'[r][d] = begun
      /\ \A e \in Drains : e # d => drain'[r][e] = drain[r][e]
      /\ \A q \in Runs \ {r} : drain'[q] = drain[q]
  <2>1. begun \in DrainRecord
    BY <1>5
  <2>2. MovesDrain(r, d, begun)
    BY <1>6 DEF MovesDrain
  <2> QED BY <2>1, <2>2, DrainSet
<1>8. /\ queue' \in [Runs -> Seq(Acts)] /\ queue'[r] = <<>>
      /\ immediates' \in [Runs -> Nat] /\ immediates'[r] = 0
      /\ \A q \in Runs \ {r} : queue'[q] = queue[q] /\ immediates'[q] = immediates[q]
  BY <1>1, <1>2, <1>3, <1>6
<1>9. EngineType'
  BY <1>1, <1>2, <1>6, <1>7, <1>8 DEF EngineType
<1>10. OnlyRun(r)
  BY <1>2, <1>6, <1>7, <1>8 DEF OnlyRun, Same
<1>11. OneDrain(r)'
  BY <1>2, <1>3, <1>5, <1>6, <1>7, <1>8 DEF OneDrain
<1>12. DrainMatches(r)'
  BY <1>2, <1>3, <1>5, <1>7, <1>8 DEF DrainMatches
<1>13. Carried(r)'
  BY <1>5, <1>7 DEF Carried
<1>14. record[r].status = "pending"
  BY <1>3 DEF Pending
<1>15. WaitInv(r)'
  BY <1>2, <1>14 DEF WaitInv, RunInv, WillResolve, Ended
<1> QED BY <1>9, <1>10, <1>11, <1>12, <1>13, <1>15 DEF RunInv

\* A drain that rejects, or an error handler that throws: the run is lost to those who wait.
LEMMA FaultKeeps ==
  ASSUME EngineType, NEW r \in Runs, NEW d \in Drains, RunInv(r), MarkThrows(r, d) \/ HandlerThrows(r, d)
  PROVE  EngineType' /\ RunInv(r)' /\ OnlyRun(r)
<1> DEFINE ending == [IdleDrain EXCEPT !.pc = "finally"]
<1>1. /\ drain[r][d].pc \in {"exec", "resolve"}
      /\ drain' = [drain EXCEPT ![r] = [drain[r] EXCEPT ![d] = ending]]
      /\ lost' = lost \cup {r}
      /\ UNCHANGED <<record, queue, scheduled, draining, immediates, waiter, answer, bus, late, bad>>
  BY DEF MarkThrows, HandlerThrows, DrainEnds
<1>2. faults' \in 0..MaxFaults
  BY Numbers DEF MarkThrows, HandlerThrows, Fault, EngineType
<1>3. ending \in DrainRecord /\ ending.pc = "finally"
  BY DrainRecords
<1> HIDE DEF ending
<1>4. /\ drain' \in [Runs -> [Drains -> DrainRecord]] /\ drain'[r][d] = ending
      /\ \A e \in Drains : e # d => drain'[r][e] = drain[r][e]
      /\ \A q \in Runs \ {r} : drain'[q] = drain[q]
  <2>1. ending \in DrainRecord
    BY <1>3
  <2>2. MovesDrain(r, d, ending)
    BY <1>1 DEF MovesDrain
  <2> QED BY <2>1, <2>2, DrainSet
<1>5. EngineType' /\ OnlyRun(r)
  BY <1>1, <1>2, <1>4 DEF EngineType, OnlyRun, Same
<1>6. /\ r \in draining /\ \A e \in Drains : e # d => drain[r][e].pc = "idle"
      /\ queue[r] = <<>> /\ record[r].status # "none"
  <2>1. /\ r \in draining /\ record[r].status # "none"
        /\ \A e \in Drains : e # d => drain[r][e].pc = "idle"
    BY <1>1, OnlyDrain
  <2>2. queue[r] = <<>>
    BY <1>1 DEF RunInv, DrainMatches
  <2> QED BY <2>1, <2>2
<1>7. OneDrain(r)'
  BY <1>1, <1>3, <1>4, <1>6 DEF OneDrain, RunInv
<1>8. DrainMatches(r)'
  BY <1>1, <1>3, <1>4, <1>6 DEF DrainMatches
<1>9. Carried(r)'
  BY <1>1 DEF Carried
<1>10. ~Unpublished(r)'
  BY <1>3, <1>4, <1>6 DEF Unpublished
<1>11. WaitInv(r)'
  BY <1>1, <1>6, <1>10 DEF WaitInv, RunInv
<1> QED BY <1>5, <1>7, <1>8, <1>9, <1>11 DEF RunInv

\* The node has run and its outcome is saved.
LEMMA ExecuteKeeps ==
  ASSUME EngineType, NEW r \in Runs, NEW d \in Drains, RunInv(r), ExecuteAndSave(r, d)
  PROVE  /\ EngineType' /\ RunInv(r)' /\ OnlyRun(r)
         /\ record[r].status = "pending" /\ record'[r].status # "none" /\ bus' = bus
         /\ r \in bad' => r \in bad \/ (Unpublished(r)' /\ record'[r].status = "completed")
<1> DEFINE act == drain[r][d].act
<1>1. /\ drain[r][d].pc = "exec" /\ record[r] = Pending(act)
      /\ drain \in [Runs -> [Drains -> DrainRecord]]
      /\ record \in [Runs -> [status : Ended \cup {"none", "pending"}, act : 0..MaxNodes]]
      /\ drain[r][d] \in DrainRecord /\ act \in 0..MaxNodes /\ MaxNodes \in Nat
  BY Numbers DEF ExecuteAndSave, RunInv, DrainMatches, EngineType, DrainRecord
<1>2. PICK out \in {"next", "end", "throw"}, isBad \in BOOLEAN :
        /\ out = "next" => act < MaxNodes
        /\ isBad => out = "end"
        /\ bad' = IF isBad THEN bad \cup {r} ELSE bad
        /\ record' = [record EXCEPT ![r] =
             CASE out = "next"  -> Pending(act + 1)
               [] out = "end"   -> [status |-> "completed", act |-> 0]
               [] out = "throw" -> [status |-> "failed", act |-> 0]]
        /\ drain' = [drain EXCEPT ![r] = [drain[r] EXCEPT ![d] =
             [drain[r][d] EXCEPT !.pc = "publish", !.out = out, !.bad = isBad]]]
  BY <1>1 DEF ExecuteAndSave, Pending
<1>3. UNCHANGED <<queue, scheduled, draining, immediates, waiter, answer, bus, faults, lost, late>>
  BY DEF ExecuteAndSave
<1> DEFINE saved == [drain[r][d] EXCEPT !.pc = "publish", !.out = out, !.bad = isBad]
           end == CASE out = "next"  -> Pending(act + 1)
                    [] out = "end"   -> [status |-> "completed", act |-> 0]
                    [] out = "throw" -> [status |-> "failed", act |-> 0]
<1>4. /\ saved \in DrainRecord /\ saved.pc = "publish" /\ saved.out = out /\ saved.bad = isBad
      /\ saved.act = act
  BY <1>1 DEF DrainRecord, DrainPc
<1>5. /\ end \in [status : Ended \cup {"none", "pending"}, act : 0..MaxNodes]
      /\ out = "next" => end = Pending(act + 1) /\ end.status = "pending"
      /\ out = "end" => end.status = "completed"
      /\ out # "next" => end.status \in Ended
      /\ end.status # "none" /\ (end.status = "pending" => out = "next")
  <2>1. CASE out = "next"
    <3>1. act + 1 \in 0..MaxNodes /\ end = Pending(act + 1)
      BY <1>1, <1>2, <2>1
    <3> QED BY <2>1, <3>1 DEF Pending, Ended
  <2>2. CASE out = "end"
    <3>1. end = [status |-> "completed", act |-> 0]
      BY <2>2
    <3> QED BY <2>2, <3>1, Numbers DEF Ended
  <2>3. CASE out = "throw"
    <3>1. end = [status |-> "failed", act |-> 0]
      BY <2>3
    <3> QED BY <2>3, <3>1, Numbers DEF Ended
  <2> QED BY <1>2, <2>1, <2>2, <2>3
<1>6. record' = [record EXCEPT ![r] = end] /\ drain' = [drain EXCEPT ![r] = [drain[r] EXCEPT ![d] = saved]]
  BY <1>2
<1> HIDE DEF saved, end
<1>7. /\ drain' \in [Runs -> [Drains -> DrainRecord]] /\ drain'[r][d] = saved
      /\ \A e \in Drains : e # d => drain'[r][e] = drain[r][e]
      /\ \A q \in Runs \ {r} : drain'[q] = drain[q]
  <2>1. saved \in DrainRecord
    BY <1>4
  <2>2. MovesDrain(r, d, saved)
    BY <1>6 DEF MovesDrain
  <2> QED BY <2>1, <2>2, DrainSet
<1>8. /\ record' \in [Runs -> [status : Ended \cup {"none", "pending"}, act : 0..MaxNodes]]
      /\ record'[r] = end /\ \A q \in Runs \ {r} : record'[q] = record[q]
  <2>1. record \in [Runs -> [status : Ended \cup {"none", "pending"}, act : 0..MaxNodes]]
    BY DEF EngineType
  <2>2. end \in [status : Ended \cup {"none", "pending"}, act : 0..MaxNodes]
    BY <1>5
  <2> QED BY <1>6, <2>1, <2>2
<1>9. bad' \subseteq Runs /\ \A q \in Runs \ {r} : q \in bad' <=> q \in bad
  BY <1>2 DEF EngineType
<1>10. EngineType' /\ OnlyRun(r)
  BY <1>3, <1>7, <1>8, <1>9 DEF EngineType, OnlyRun, Same
<1>11. /\ r \in draining /\ \A e \in Drains : e # d => drain[r][e].pc = "idle"
       /\ queue[r] = <<>> /\ record[r].status = "pending"
  <2>1. r \in draining /\ \A e \in Drains : e # d => drain[r][e].pc = "idle"
    BY <1>1, OnlyDrain
  <2>2. queue[r] = <<>>
    BY <1>1 DEF RunInv, DrainMatches
  <2>3. record[r].status = "pending"
    BY <1>1 DEF Pending
  <2> QED BY <2>1, <2>2, <2>3
<1>12. OneDrain(r)'
  BY <1>1, <1>3, <1>4, <1>7, <1>11 DEF OneDrain, RunInv
<1>13. DrainMatches(r)'
  <2>1. ASSUME NEW e \in Drains, e # d PROVE drain'[r][e].pc = "idle"
    BY <1>7, <1>11, <2>1
  <2> QED BY <1>2, <1>3, <1>4, <1>5, <1>7, <1>8, <1>11, <2>1 DEF DrainMatches
<1>14. Carried(r)'
  BY <1>4, <1>5, <1>7, <1>8 DEF Carried
<1>15. WillResolve(r)'
  BY <1>4, <1>7 DEF WillResolve, Unresolved
<1>16. WaitInv(r)'
  BY <1>3, <1>5, <1>8, <1>11, <1>15 DEF WaitInv, RunInv, Ended
<1>17. r \in bad' => r \in bad \/ (Unpublished(r)' /\ record'[r].status = "completed")
  BY <1>2, <1>4, <1>5, <1>7, <1>8 DEF Unpublished
<1> QED BY <1>3, <1>5, <1>8, <1>10, <1>11, <1>12, <1>13, <1>14, <1>16, <1>17 DEF RunInv

\* The continuation is published: the next activation is dispatched while this drain goes on.
LEMMA PublishKeeps ==
  ASSUME EngineType, NEW r \in Runs, NEW d \in Drains, RunInv(r), PublishContinuation(r, d)
  PROVE  /\ EngineType' /\ RunInv(r)' /\ OnlyRun(r)
         /\ UNCHANGED <<record, answer, late, bad>> /\ ~Unpublished(r)'
         /\ \/ ~Unpublished(r) /\ bus' = bus
            \/ /\ Unpublished(r) /\ r \in bad
               /\ bus' = Append(bus, Event("failedAssertion", r, "running"))
<1> DEFINE mine == drain[r][d]
           act == drain[r][d].act
           ending == [IdleDrain EXCEPT !.pc = "finally"]
           resolving == [drain[r][d] EXCEPT !.pc = "resolve"]
<1>1. /\ mine.pc = "publish" /\ drain \in [Runs -> [Drains -> DrainRecord]]
      /\ mine \in DrainRecord /\ act \in 0..MaxNodes /\ MaxNodes \in Nat
      /\ UNCHANGED <<record, draining, waiter, answer, faults, lost, late, bad>>
      /\ bus' = IF mine.bad THEN Append(bus, Event("failedAssertion", r, "running")) ELSE bus
  BY Numbers DEF PublishContinuation, EngineType, DrainRecord, Publish
<1>2. /\ r \in draining /\ r \notin scheduled /\ immediates[r] = IF r \in scheduled THEN 1 ELSE 0
      /\ \A e \in Drains : e # d => drain[r][e].pc = "idle"
  BY <1>1, OnlyDrain
<1>3. /\ queue[r] = <<>>
      /\ mine.out = "next" => record[r] = Pending(act + 1) /\ act < MaxNodes
      /\ mine.out # "next" => record[r].status \in Ended
      /\ mine.bad => mine.out = "end" /\ r \in bad
  BY <1>1 DEF RunInv, DrainMatches
<1>4. bus' \in Seq(Events)
  <2>1. Event("failedAssertion", r, "running") \in Events
    BY DEF Event, Events
  <2> QED BY <1>1, <2>1 DEF EngineType
<1>5. Unpublished(r) <=> mine.bad
  BY <1>1, <1>2 DEF Unpublished
<1>6. CASE mine.out = "next"
  <2>1. /\ queue' = [queue EXCEPT ![r] = Append(queue[r], act + 1)] /\ ScheduleDrain(r)
        /\ drain' = [drain EXCEPT ![r] = [drain[r] EXCEPT ![d] = ending]]
    BY <1>6 DEF PublishContinuation, Dispatch, DrainEnds
  <2>2. ending \in DrainRecord /\ ending.pc = "finally"
    BY DrainRecords
  <2> HIDE DEF ending
  <2>3. act + 1 \in Acts
    BY <1>1, <1>3, <1>6 DEF Acts
  <2>4. /\ queue' \in [Runs -> Seq(Acts)] /\ \A q \in Runs \ {r} : queue'[q] = queue[q]
        /\ queue'[r] # <<>> /\ Len(queue'[r]) = 1 /\ Head(queue'[r]) = act + 1
    BY <1>3, <2>1, <2>3, QueueFacts
  <2>5. /\ scheduled' \subseteq Runs /\ immediates' \in [Runs -> Nat]
        /\ \A q \in Runs \ {r} : immediates'[q] = immediates[q] /\ (q \in scheduled' <=> q \in scheduled)
        /\ immediates'[r] = IF r \in scheduled' THEN 1 ELSE 0
        /\ r \notin scheduled'
    BY <1>2, <2>1, ScheduleFacts
  <2>6. /\ drain' \in [Runs -> [Drains -> DrainRecord]] /\ drain'[r][d] = ending
        /\ \A e \in Drains : e # d => drain'[r][e] = drain[r][e]
        /\ \A q \in Runs \ {r} : drain'[q] = drain[q]
    <3>1. ending \in DrainRecord
      BY <2>2
    <3>2. MovesDrain(r, d, ending)
      BY <2>1 DEF MovesDrain
    <3> QED BY <3>1, <3>2, DrainSet
  <2>7. EngineType' /\ OnlyRun(r)
    <3>1. EngineType'
      BY <1>1, <1>4, <2>4, <2>5, <2>6 DEF EngineType
    <3>2. OnlyRun(r)
      BY <1>1, <2>4, <2>5, <2>6 DEF OnlyRun, Same
    <3> QED BY <3>1, <3>2
  <2>8. OneDrain(r)'
    <3>1. \A e, f \in Drains : drain'[r][e].pc # "idle" /\ drain'[r][f].pc # "idle" => e = f
      BY <1>2, <2>6
    <3>2. r \in draining' /\ \E e \in Drains : drain'[r][e].pc # "idle"
      BY <1>1, <1>2, <2>2, <2>6
    <3>3. queue'[r] # <<>> => Len(queue'[r]) = 1 /\ record'[r] = Pending(Head(queue'[r]))
      BY <1>1, <1>3, <1>6, <2>4
    <3> QED BY <2>5, <3>1, <3>2, <3>3 DEF OneDrain
  <2>9. DrainMatches(r)'
    BY <1>2, <2>2, <2>6 DEF DrainMatches
  <2>10. Carried(r)'
    BY <2>4 DEF Carried
  <2>11. WaitInv(r)'
    <3>1. record'[r].status = "pending"
      BY <1>1, <1>3, <1>6 DEF Pending
    <3>2. waiter'[r] = waiter[r] /\ waiter[r] # "answered"
      BY <1>1, <3>1 DEF RunInv, WaitInv, Ended
    <3> QED BY <3>1, <3>2 DEF WaitInv, WillResolve
  <2>12. ~Unpublished(r)'
    BY <1>2, <2>2, <2>6 DEF Unpublished
  <2> QED BY <1>1, <1>3, <1>5, <2>7, <2>8, <2>9, <2>10, <2>11, <2>12 DEF RunInv
<1>7. CASE mine.out # "next"
  <2>1. /\ UNCHANGED <<queue, scheduled, immediates>>
        /\ drain' = [drain EXCEPT ![r] = [drain[r] EXCEPT ![d] = resolving]]
    BY <1>7 DEF PublishContinuation, DrainAt
  <2>2. resolving \in DrainRecord /\ resolving.pc = "resolve"
    BY <1>1 DEF DrainRecord, DrainPc
  <2> HIDE DEF resolving
  <2>3. /\ drain' \in [Runs -> [Drains -> DrainRecord]] /\ drain'[r][d] = resolving
        /\ \A e \in Drains : e # d => drain'[r][e] = drain[r][e]
        /\ \A q \in Runs \ {r} : drain'[q] = drain[q]
    <3>1. resolving \in DrainRecord
      BY <2>2
    <3>2. MovesDrain(r, d, resolving)
      BY <2>1 DEF MovesDrain
    <3> QED BY <3>1, <3>2, DrainSet
  <2>4. EngineType' /\ OnlyRun(r)
    <3>1. EngineType'
      BY <1>1, <1>4, <2>1, <2>3 DEF EngineType
    <3>2. OnlyRun(r)
      BY <1>1, <2>1, <2>3 DEF OnlyRun, Same
    <3> QED BY <3>1, <3>2
  <2>5. OneDrain(r)'
    BY <1>1, <1>2, <1>3, <2>1, <2>2, <2>3 DEF OneDrain
  <2>6. DrainMatches(r)'
    BY <1>1, <1>2, <1>3, <1>7, <2>1, <2>2, <2>3 DEF DrainMatches
  <2>7. record'[r].status \in Ended
    BY <1>1, <1>3, <1>7
  <2>8. Carried(r)'
    BY <2>7 DEF Carried, Ended
  <2>9. ~Unpublished(r)' /\ WillResolve(r)'
    BY <1>2, <2>2, <2>3 DEF Unpublished, WillResolve, Unresolved
  <2>10. WaitInv(r)'
    BY <1>1, <2>7, <2>9 DEF WaitInv, RunInv, Ended
  <2> QED BY <1>1, <1>3, <1>5, <2>4, <2>5, <2>6, <2>8, <2>9, <2>10 DEF RunInv
<1> QED BY <1>6, <1>7

\* The drain ends: the run is free, and scheduled again for what was dispatched meanwhile.
LEMMA ReleaseFacts ==
  ASSUME EngineType, NEW r \in Runs, NEW d \in Drains, OneDrain(r), drain[r][d].pc # "idle",
         Release(r, d), UNCHANGED <<record, queue>>
  PROVE  /\ drain' \in [Runs -> [Drains -> DrainRecord]] /\ draining' \subseteq Runs
         /\ scheduled' \subseteq Runs /\ immediates' \in [Runs -> Nat]
         /\ \A q \in Runs \ {r} : /\ drain'[q] = drain[q] /\ immediates'[q] = immediates[q]
                                  /\ (q \in scheduled' <=> q \in scheduled)
                                  /\ (q \in draining' <=> q \in draining)
         /\ \A e \in Drains : drain'[r][e].pc = "idle"
         /\ OneDrain(r)' /\ r \notin draining'
<1>0. IdleDrain \in DrainRecord /\ IdleDrain.pc = "idle"
  BY DrainRecords
<1>1. /\ drain' = [drain EXCEPT ![r] = [drain[r] EXCEPT ![d] = IdleDrain]]
      /\ draining' = draining \ {r} /\ immediates \in [Runs -> Nat]
      /\ draining \subseteq Runs /\ scheduled \subseteq Runs
  BY DEF Release, EngineType
<1>2. /\ r \in draining /\ r \notin scheduled /\ immediates[r] = 0
      /\ \A e \in Drains : e # d => drain[r][e].pc = "idle"
  BY DEF OneDrain
<1>3. /\ drain' \in [Runs -> [Drains -> DrainRecord]] /\ drain'[r][d] = IdleDrain
      /\ \A e \in Drains : e # d => drain'[r][e] = drain[r][e]
      /\ \A q \in Runs \ {r} : drain'[q] = drain[q]
  <2>1. IdleDrain \in DrainRecord
    BY <1>0
  <2>2. MovesDrain(r, d, IdleDrain)
    BY <1>1 DEF MovesDrain
  <2> QED BY <2>1, <2>2, DrainSet
<1>4. \A e \in Drains : drain'[r][e].pc = "idle"
  BY <1>0, <1>2, <1>3
<1>5. CASE queue[r] # <<>>
  <2>1. scheduled' = scheduled \cup {r} /\ immediates' = [immediates EXCEPT ![r] = immediates[r] + 1]
    BY <1>2, <1>5 DEF Release, MoreQueued
  <2>2. /\ immediates' \in [Runs -> Nat] /\ immediates'[r] = 1
        /\ \A q \in Runs \ {r} : immediates'[q] = immediates[q]
    BY <1>1, <1>2, <2>1
  <2>3. OneDrain(r)'
    BY <1>1, <1>4, <1>5, <2>1, <2>2 DEF OneDrain
  <2> QED BY <1>1, <1>3, <1>4, <2>1, <2>2, <2>3
<1>6. CASE queue[r] = <<>>
  <2>1. UNCHANGED <<scheduled, immediates>>
    BY <1>6 DEF Release, MoreQueued
  <2>2. OneDrain(r)'
    BY <1>1, <1>2, <1>4, <1>6, <2>1 DEF OneDrain
  <2> QED BY <1>1, <1>3, <1>4, <2>1, <2>2
<1> QED BY <1>5, <1>6

LEMMA EndKeeps ==
  ASSUME EngineType, NEW r \in Runs, NEW d \in Drains, RunInv(r), Finally(r, d) \/ Resolve(r, d)
  PROVE  /\ EngineType' /\ RunInv(r)' /\ OnlyRun(r)
         /\ UNCHANGED <<record, bus, late, bad>>
         /\ ~Unpublished(r) /\ ~Unpublished(r)' /\ (waiter[r] = "answered" => answer'[r] = answer[r])
<1>1. /\ drain[r][d].pc \in {"finally", "resolve"} /\ Release(r, d)
      /\ UNCHANGED <<record, queue, bus, faults, lost, late, bad>>
  BY DEF Finally, Resolve
<1>2. /\ \A e \in Drains : e # d => drain[r][e].pc = "idle"
      /\ record[r].status # "none"
  BY <1>1, OnlyDrain
<1>3. /\ drain' \in [Runs -> [Drains -> DrainRecord]] /\ draining' \subseteq Runs
      /\ scheduled' \subseteq Runs /\ immediates' \in [Runs -> Nat]
      /\ \A q \in Runs \ {r} : /\ drain'[q] = drain[q] /\ immediates'[q] = immediates[q]
                               /\ (q \in scheduled' <=> q \in scheduled)
                               /\ (q \in draining' <=> q \in draining)
      /\ \A e \in Drains : drain'[r][e].pc = "idle"
      /\ OneDrain(r)' /\ r \notin draining'
  BY <1>1, ReleaseFacts DEF RunInv
<1>4. /\ waiter \in [Runs -> {"none", "loaded", "registered", "answered"}]
      /\ answer \in [Runs -> Ended \cup {"none"}]
      /\ record[r].status \in Ended \cup {"none", "pending"}
  BY DEF EngineType
<1>5. drain[r][d].pc = "resolve" => record[r].status \in Ended
  BY DEF RunInv, DrainMatches
<1>6. /\ waiter' \in [Runs -> {"none", "loaded", "registered", "answered"}]
      /\ answer' \in [Runs -> Ended \cup {"none"}]
      /\ \A q \in Runs \ {r} : waiter'[q] = waiter[q] /\ answer'[q] = answer[q]
      /\ \/ waiter'[r] = waiter[r] /\ answer'[r] = answer[r]
         \/ waiter[r] = "registered" /\ waiter'[r] = "answered" /\ answer'[r] = record[r].status
            /\ record[r].status \in Ended
      /\ waiter'[r] = "registered" => drain[r][d].pc = "finally"
  BY <1>1, <1>4, <1>5 DEF Finally, Resolve, Registered
<1>7. EngineType' /\ OnlyRun(r)
  <2>1. EngineType'
    BY <1>1, <1>3, <1>6 DEF EngineType
  <2>2. OnlyRun(r)
    BY <1>1, <1>3, <1>6 DEF OnlyRun, Same
  <2> QED BY <2>1, <2>2
<1>8. DrainMatches(r)'
  BY <1>3 DEF DrainMatches
<1>9. Carried(r)'
  BY <1>1, <1>2 DEF Carried, RunInv
<1>10. ~Unpublished(r) /\ ~Unpublished(r)'
  BY <1>1, <1>2, <1>3 DEF Unpublished
<1>11. WaitInv(r)'
  <2>1. CASE waiter'[r] = waiter[r] /\ answer'[r] = answer[r]
    <3>1. waiter[r] = "registered" /\ r \notin lost => WillResolve(r)'
      <4>1. SUFFICES ASSUME waiter[r] = "registered", r \notin lost
                     PROVE  record[r].status = "pending"
        BY <1>1 DEF WillResolve
      <4>2. \A e \in Drains : drain[r][e].pc \notin {"publish", "resolve"}
        BY <1>1, <1>2, <1>6, <2>1, <4>1
      <4> QED BY <4>1, <4>2 DEF RunInv, WaitInv, WillResolve, Unresolved
    <3> QED BY <1>1, <1>2, <1>10, <2>1, <3>1 DEF RunInv, WaitInv
  <2>2. CASE waiter'[r] = "answered" /\ answer'[r] = record[r].status /\ record[r].status \in Ended
    BY <1>1, <1>2, <1>10, <2>2 DEF WaitInv
  <2> QED BY <1>6, <2>1, <2>2
<1> QED BY <1>1, <1>3, <1>6, <1>7, <1>8, <1>9, <1>10, <1>11 DEF RunInv

-----------------------------------------------------------------------------
(* The steps of the runs together. *)

\* A run that was answered has its answer for good.
Progress(r) ==
  /\ record'[r].status = "none" <=> record[r].status = "none"
  /\ waiter[r] = "answered" => /\ waiter'[r] = "answered" /\ answer'[r] = answer[r]
                               /\ (r \in bad' <=> r \in bad)
  /\ late \subseteq late'
\* What a step does to the failed assertion of a run: nothing, or it is published.
Quietly(r) ==
  /\ bus' = bus /\ bad \subseteq bad'
  /\ r \in bad' /\ ~Unpublished(r)' => r \in bad /\ ~Unpublished(r)
Publishes(r) ==
  /\ r \in bad /\ Unpublished(r) /\ bad' = bad
  /\ bus' = Append(bus, Event("failedAssertion", r, "running"))

LEMMA OthersKeep ==
  ASSUME \A q \in Runs : RunInv(q), NEW r \in Runs, OnlyRun(r), RunInv(r)'
  PROVE  \A q \in Runs : RunInv(q)'
<1>1. ASSUME NEW q \in Runs, q # r PROVE RunInv(q)'
  BY <1>1, SameKeeps DEF OnlyRun
<1> QED BY <1>1

LEMMA StartSteps ==
  ASSUME EngineType, \A q \in Runs : RunInv(q), NEW r \in Runs, StartRun(r) \/ StartEnds(r)
  PROVE  /\ EngineType' /\ (\A q \in Runs : RunInv(q)') /\ OnlyRun(r)
         /\ record[r].status = "none" /\ record'[r].status # "none"
         /\ UNCHANGED <<bus, bad, late>> /\ ~Unpublished(r)
<1>1. EngineType' /\ RunInv(r)' /\ OnlyRun(r)
  BY StartRunKeeps, StartEndsKeeps
<1>2. /\ record[r].status = "none" /\ UNCHANGED <<bus, bad, late>>
      /\ record \in [Runs -> [status : Ended \cup {"none", "pending"}, act : 0..MaxNodes]]
  BY DEF StartRun, StartEnds, EngineType
<1>3. record'[r].status # "none"
  <2>1. CASE StartRun(r)
    BY <1>2, <2>1 DEF StartRun
  <2>2. CASE StartEnds(r)
    BY <1>2, <2>2 DEF StartEnds, Ended
  <2> QED BY <2>1, <2>2
<1>4. ~Unpublished(r)
  BY <1>2 DEF RunInv, WaitInv, OneDrain, Unpublished
<1> QED BY <1>1, <1>2, <1>3, <1>4, OthersKeep

LEMMA EngineSteps ==
  ASSUME EngineType, \A q \in Runs : RunInv(q), NEW r \in Runs,
         WaitLoad(r) \/ WaitRegister(r) \/ DrainStep(r) \/ DrainFault(r)
  PROVE  /\ EngineType' /\ (\A q \in Runs : RunInv(q)') /\ OnlyRun(r)
         /\ Progress(r) /\ (Quietly(r) \/ Publishes(r))
<1> SUFFICES EngineType' /\ RunInv(r)' /\ OnlyRun(r) /\ Progress(r) /\ (Quietly(r) \/ Publishes(r))
  BY OthersKeep
<1>0. /\ RunInv(r) /\ waiter \in [Runs -> {"none", "loaded", "registered", "answered"}]
      /\ answer \in [Runs -> Ended \cup {"none"}]
  BY DEF EngineType
<1>1. ASSUME WaitLoad(r) \/ WaitRegister(r)
      PROVE  EngineType' /\ RunInv(r)' /\ OnlyRun(r) /\ Progress(r) /\ Quietly(r)
  <2>1. EngineType' /\ RunInv(r)' /\ OnlyRun(r)
    BY <1>1, WaitKeeps
  <2>2. waiter[r] # "answered" /\ UNCHANGED <<record, bus, bad, drain>> /\ late \subseteq late'
    BY <1>1 DEF WaitLoad, WaitRegister
  <2> QED BY <2>1, <2>2 DEF Progress, Quietly, Unpublished
<1>2. ASSUME NEW d \in Drains, Fire(r, d)
      PROVE  EngineType' /\ RunInv(r)' /\ OnlyRun(r) /\ Progress(r) /\ Quietly(r)
  <2>1. EngineType' /\ RunInv(r)' /\ OnlyRun(r)
    BY <1>0, <1>2, FireKeeps
  <2>2. UNCHANGED <<record, waiter, answer, bus, bad, late>> /\ immediates[r] > 0
    BY <1>2 DEF Fire
  <2>3. ~Unpublished(r)
    BY <1>0, <2>2 DEF RunInv, OneDrain, Unpublished
  <2> QED BY <2>1, <2>2, <2>3 DEF Progress, Quietly
<1>3. ASSUME NEW d \in Drains, MarkThrows(r, d) \/ HandlerThrows(r, d)
      PROVE  EngineType' /\ RunInv(r)' /\ OnlyRun(r) /\ Progress(r) /\ Quietly(r)
  <2>1. EngineType' /\ RunInv(r)' /\ OnlyRun(r)
    BY <1>0, <1>3, FaultKeeps
  <2>2. UNCHANGED <<record, waiter, answer, bus, bad, late>> /\ drain[r][d].pc \in {"exec", "resolve"}
    BY <1>3 DEF MarkThrows, HandlerThrows
  <2>3. \A e \in Drains : e # d => drain[r][e].pc = "idle"
    BY <1>0, <2>2, OnlyDrain
  <2>4. ~Unpublished(r)
    BY <2>2, <2>3 DEF Unpublished
  <2> QED BY <2>1, <2>2, <2>4 DEF Progress, Quietly
<1>4. ASSUME NEW d \in Drains, ExecuteAndSave(r, d)
      PROVE  EngineType' /\ RunInv(r)' /\ OnlyRun(r) /\ Progress(r) /\ Quietly(r)
  <2>1. /\ EngineType' /\ RunInv(r)' /\ OnlyRun(r)
        /\ record[r].status = "pending" /\ record'[r].status # "none" /\ bus' = bus
        /\ r \in bad' => r \in bad \/ Unpublished(r)'
    BY <1>0, <1>4, ExecuteKeeps
  <2>2. waiter[r] # "answered"
    BY <1>0, <2>1 DEF RunInv, WaitInv, Ended
  <2>3. drain[r][d].pc = "exec" /\ bad \subseteq bad' /\ late' = late
    BY <1>4 DEF ExecuteAndSave
  <2>4. \A e \in Drains : e # d => drain[r][e].pc = "idle"
    BY <1>0, <2>3, OnlyDrain
  <2>5. ~Unpublished(r)
    BY <2>3, <2>4 DEF Unpublished
  <2> QED BY <2>1, <2>2, <2>3, <2>5 DEF Progress, Quietly
<1>5. ASSUME NEW d \in Drains, PublishContinuation(r, d)
      PROVE  EngineType' /\ RunInv(r)' /\ OnlyRun(r) /\ Progress(r) /\ (Quietly(r) \/ Publishes(r))
  <2>1. /\ EngineType' /\ RunInv(r)' /\ OnlyRun(r)
        /\ UNCHANGED <<record, answer, late, bad>>
        /\ \/ ~Unpublished(r) /\ bus' = bus
           \/ /\ Unpublished(r) /\ r \in bad
              /\ bus' = Append(bus, Event("failedAssertion", r, "running"))
    BY <1>0, <1>5, PublishKeeps
  <2>2. waiter' = waiter
    BY <1>5 DEF PublishContinuation
  <2> QED BY <2>1, <2>2 DEF Progress, Quietly, Publishes
<1>6. ASSUME NEW d \in Drains, Finally(r, d) \/ Resolve(r, d)
      PROVE  EngineType' /\ RunInv(r)' /\ OnlyRun(r) /\ Progress(r) /\ Quietly(r)
  <2>1. /\ EngineType' /\ RunInv(r)' /\ OnlyRun(r)
        /\ UNCHANGED <<record, bus, late, bad>> /\ ~Unpublished(r)
        /\ waiter[r] = "answered" => answer'[r] = answer[r]
    BY <1>0, <1>6, EndKeeps
  <2>2. waiter[r] = "answered" => waiter'[r] = "answered"
    BY <1>0, <1>6 DEF Finally, Resolve, Registered
  <2> QED BY <2>1, <2>2 DEF Progress, Quietly
<1> QED BY <1>1, <1>2, <1>3, <1>4, <1>5, <1>6 DEF DrainStep, DrainFault

-----------------------------------------------------------------------------
(* Types of the suite, its slots and its cases. *)

SuiteType ==
  /\ concurrency \in Concurrencies /\ gen \in GenPc /\ genError \in BOOLEAN /\ aborted \in BOOLEAN
  /\ nextCase \in 0..Cardinality(Runs) /\ inFlight \in 0..concurrency
  /\ case \in [Runs -> CasePc]
  /\ known \subseteq Runs /\ failing \subseteq Runs /\ early \subseteq Runs
  /\ status \in [Runs -> CaseStatus]
  /\ suite \in [status : SuiteStatus, passed : Nat, failed : Nat]
Core == EngineType /\ SuiteType /\ (\A q \in Runs : RunInv(q)) /\ CaseInv

LEMMA TypeParts == SuiteTypeOK <=> EngineType /\ SuiteType
BY DEF SuiteTypeOK, EngineType, SuiteType, DrainRecord

LEMMA RunNumbers ==
  /\ IsFiniteSet(Runs) /\ Cardinality(Runs) \in Nat
  /\ \A i : i \in Runs <=> i \in 1..Cardinality(Runs)
  /\ \A c \in Concurrencies : c \in Nat
BY SuiteAssumption, FS_CardinalityType

\* The engine rests.
LEMMA EngineStill ==
  ASSUME EngineType, \A q \in Runs : RunInv(q), faults' \in 0..MaxFaults, bus' \in Seq(Events),
         UNCHANGED <<record, queue, scheduled, draining, immediates, drain, waiter, answer, lost, late, bad>>
  PROVE  EngineType' /\ \A q \in Runs : RunInv(q)'
<1>1. EngineType'
  BY DEF EngineType
<1>2. \A q \in Runs : Same(q)
  BY DEF Same
<1> QED BY <1>1, <1>2, SameKeeps

LEMMA FaultType ==
  ASSUME EngineType, NEW kind, Fault(kind)
  PROVE  faults' \in 0..MaxFaults
BY Numbers DEF Fault, EngineType

\* The set of the cases in progress, when one case moves.
LEMMA SlotFacts ==
  ASSUME SuiteType, CaseInv, NEW i \in Runs, NEW pc \in CasePc, case' = [case EXCEPT ![i] = pc]
  PROVE  /\ case' \in [Runs -> CasePc] /\ case'[i] = pc /\ \A j \in Runs : j # i => case'[j] = case[j]
         /\ LET now  == pc \in {"starting", "announce", "waiting"}
                then == case[i] \in {"starting", "announce", "waiting"}
            IN  /\ now /\ ~then => Cardinality(InProgress') = inFlight + 1
                /\ ~now /\ then => Cardinality(InProgress') = inFlight - 1
                /\ (now <=> then) => Cardinality(InProgress') = inFlight
<1>1. case \in [Runs -> CasePc] /\ case' \in [Runs -> CasePc]
  BY DEF SuiteType
<1>2. case'[i] = pc /\ \A j \in Runs : j # i => case'[j] = case[j]
  BY <1>1
<1>3. IsFiniteSet(InProgress) /\ inFlight = Cardinality(InProgress)
  BY RunNumbers, FS_Subset DEF InProgress, CaseInv
<1>4. CASE pc \in {"starting", "announce", "waiting"} /\ case[i] \notin {"starting", "announce", "waiting"}
  <2>1. InProgress' = InProgress \cup {i} /\ i \notin InProgress
    BY <1>2, <1>4 DEF InProgress
  <2> QED BY <1>1, <1>2, <1>3, <1>4, <2>1, FS_AddElement
<1>5. CASE pc \notin {"starting", "announce", "waiting"} /\ case[i] \in {"starting", "announce", "waiting"}
  <2>1. InProgress' = InProgress \ {i} /\ i \in InProgress
    BY <1>2, <1>5 DEF InProgress
  <2> QED BY <1>1, <1>2, <1>3, <1>5, <2>1, FS_RemoveElement
<1>6. CASE pc \in {"starting", "announce", "waiting"} <=> case[i] \in {"starting", "announce", "waiting"}
  <2>1. InProgress' = InProgress
    BY <1>2, <1>6 DEF InProgress
  <2> QED BY <1>1, <1>2, <1>3, <1>6, <2>1
<1> QED BY <1>4, <1>5, <1>6

\* The loop takes a slot, waits for one or gives up.
LEMMA TakeSlot ==
  ASSUME Core, nextCase < Cardinality(Runs), gen \in {"pull", "acquire"},
         IF aborted THEN Stop ELSE IF Full THEN Park ELSE Launch,
         UNCHANGED <<concurrency, known, early, failing, status, genError, aborted, suite, record, waiter>>
  PROVE  SuiteType' /\ CaseInv'
<1>1. /\ nextCase \in 0..Cardinality(Runs) /\ inFlight \in 0..concurrency /\ concurrency \in Nat
      /\ Cardinality(Runs) \in Nat /\ gen \in GenPc
  BY RunNumbers DEF Core, SuiteType
<1>2. CASE Stop \/ Park
  <2>1. UNCHANGED <<nextCase, inFlight, case>> /\ gen' \in {"join", "parked"}
    BY <1>2 DEF Stop, Park
  <2>2. SuiteType'
    BY <2>1 DEF Core, SuiteType, GenPc
  <2> QED BY <2>1, <2>2 DEF Core, CaseInv, InProgress
<1>3. CASE ~Full /\ Launch
  <2> DEFINE i == nextCase + 1
  <2>1. /\ gen' = "pull" /\ nextCase' = i /\ inFlight' = inFlight + 1
        /\ case' = [case EXCEPT ![i] = "starting"] /\ inFlight < concurrency
    BY <1>1, <1>3 DEF Launch, Full
  <2>2. i \in Runs /\ i \in 0..Cardinality(Runs)
    BY <1>1, RunNumbers
  <2>3. case[i] = "none"
    BY <1>1, <2>2 DEF Core, CaseInv
  <2>4. /\ case' \in [Runs -> CasePc] /\ case'[i] = "starting" /\ \A j \in Runs : j # i => case'[j] = case[j]
        /\ Cardinality(InProgress') = inFlight + 1
    <3>1. "starting" \in CasePc
      BY DEF CasePc
    <3> QED BY <2>1, <2>2, <2>3, <3>1, SlotFacts DEF Core
  <2>5. SuiteType'
    <3>1. inFlight' \in 0..concurrency'
      BY <1>1, <2>1
    <3> QED BY <2>1, <2>2, <2>4, <3>1 DEF Core, SuiteType, GenPc
  <2>6. CaseInv'
    <3>1. ASSUME NEW j \in Runs
          PROVE  /\ case'[j] = "none" <=> j > nextCase'
                 /\ record'[j].status = "none" <=> case'[j] \in {"none", "starting", "threw"}
                 /\ case'[j] = "settled" => waiter'[j] = "answered"
      <4>1. /\ case[j] = "none" <=> j > nextCase
            /\ record[j].status = "none" <=> case[j] \in {"none", "starting", "threw"}
            /\ case[j] = "settled" => waiter[j] = "answered"
        BY DEF Core, CaseInv
      <4>2. j \in Nat
        BY <1>1, RunNumbers
      <4>3. CASE j = i
        BY <1>1, <2>1, <2>3, <2>4, <4>1, <4>3
      <4>4. CASE j # i
        BY <1>1, <2>1, <2>4, <4>1, <4>2, <4>4
      <4> QED BY <4>3, <4>4
    <3> QED BY <2>1, <2>4, <3>1 DEF CaseInv
  <2> QED BY <2>5, <2>6
<1> QED BY <1>2, <1>3

\* A case moves within its slot, or gives it back.
LEMMA CaseMoves ==
  ASSUME Core, NEW i \in Runs, NEW pc \in CasePc, CaseAt(i, pc), case[i] # "none", pc # "none",
         case[i] \in {"starting", "announce", "waiting"},
         \/ pc \in {"announce", "waiting"} /\ UNCHANGED <<inFlight, gen>>
         \/ pc \in {"threw", "settled"} /\ ReleaseSlot,
         \A q \in Runs \ {i} : record'[q] = record[q] /\ waiter'[q] = waiter[q],
         record'[i].status = "none" <=> pc \in {"starting", "threw"},
         pc = "settled" => waiter'[i] = "answered",
         UNCHANGED <<concurrency, known, early, failing, status, genError, nextCase, aborted, suite>>
  PROVE  SuiteType' /\ CaseInv'
<1>1. /\ case' \in [Runs -> CasePc] /\ case'[i] = pc /\ \A j \in Runs : j # i => case'[j] = case[j]
      /\ pc \in {"announce", "waiting"} => Cardinality(InProgress') = inFlight
      /\ pc \in {"threw", "settled"} => Cardinality(InProgress') = inFlight - 1
  BY SlotFacts DEF Core, CaseAt
<1>2. /\ inFlight \in 0..concurrency /\ concurrency \in Nat /\ gen \in GenPc
      /\ inFlight = Cardinality(InProgress) /\ i \in InProgress /\ IsFiniteSet(InProgress)
  BY RunNumbers, FS_Subset DEF Core, SuiteType, CaseInv, InProgress
<1>3. inFlight >= 1
  <2>1. Cardinality(InProgress) # 0
    BY <1>2, FS_EmptySet
  <2> QED BY <1>2, <2>1
<1>4. /\ inFlight' \in 0..concurrency /\ inFlight' = Cardinality(InProgress') /\ gen' \in GenPc
      /\ gen' \in {"parked", "acquire"} => gen \in {"parked", "acquire"}
  BY <1>1, <1>2, <1>3 DEF ReleaseSlot, GenPc
<1>5. SuiteType'
  BY <1>1, <1>4 DEF Core, SuiteType
<1>6. CaseInv'
  <2>1. ASSUME NEW j \in Runs
        PROVE  /\ case'[j] = "none" <=> j > nextCase
               /\ record'[j].status = "none" <=> case'[j] \in {"none", "starting", "threw"}
               /\ case'[j] = "settled" => waiter'[j] = "answered"
    <3>1. /\ case[j] = "none" <=> j > nextCase
          /\ record[j].status = "none" <=> case[j] \in {"none", "starting", "threw"}
          /\ case[j] = "settled" => waiter[j] = "answered"
      BY DEF Core, CaseInv
    <3> QED BY <1>1, <3>1
  <2> QED BY <1>4, <2>1 DEF Core, CaseInv
<1> QED BY <1>5, <1>6

-----------------------------------------------------------------------------
(* Types, runs and cases: every step. *)

\* No case moves.
LEMMA CasesRest ==
  ASSUME Core, UNCHANGED <<concurrency, nextCase, inFlight, case, record, waiter>>,
         gen' \in GenPc, gen' = gen \/ gen' \in {"pull", "join", "finalize", "done"},
         genError' \in BOOLEAN, aborted' \in BOOLEAN,
         known' \subseteq Runs, early' \subseteq Runs, failing' \subseteq Runs,
         status' \in [Runs -> CaseStatus],
         suite' \in [status : SuiteStatus, passed : Nat, failed : Nat]
  PROVE  SuiteType' /\ CaseInv'
<1>1. SuiteType'
  BY DEF Core, SuiteType
<1>2. CaseInv'
  BY DEF Core, CaseInv, InProgress
<1> QED BY <1>1, <1>2

\* The row of a suite.
LEMMA SuiteRows ==
  ASSUME Core
  PROVE  /\ [RunningSuite EXCEPT !.status = "errored"] \in [status : SuiteStatus, passed : Nat, failed : Nat]
         /\ \A S \in SUBSET Launched : IsFiniteSet(S) /\ Cardinality(S) \in Nat
         /\ \A t, p, f : StatusOf(t, p, f) \in {"succeeded", "partial", "failed"}
<1>1. [RunningSuite EXCEPT !.status = "errored"] \in [status : SuiteStatus, passed : Nat, failed : Nat]
  BY DEF RunningSuite, SuiteStatus
<1>2. nextCase \in Nat
  BY RunNumbers DEF Core, SuiteType
<1>3. IsFiniteSet(Launched)
  BY <1>2, FS_Interval DEF Launched
<1>4. \A S \in SUBSET Launched : IsFiniteSet(S) /\ Cardinality(S) \in Nat
  BY <1>3, FS_Subset, FS_CardinalityType
<1>5. \A t, p, f : StatusOf(t, p, f) \in {"succeeded", "partial", "failed"}
  BY DEF StatusOf
<1> QED BY <1>1, <1>4, <1>5

LEMMA LoopSteps ==
  ASSUME Core, LoopStep \/ Abort
  PROVE  Core'
<1>0. EngineType /\ SuiteType /\ (\A q \in Runs : RunInv(q)) /\ CaseInv
  BY DEF Core
<1>1. ASSUME PullItem \/ AcquireSlot PROVE Core'
  <2>1. gen \in {"pull", "acquire"} /\ nextCase < Cardinality(Runs)
    BY <1>0, <1>1 DEF PullItem, AcquireSlot, CaseInv
  <2>2. /\ IF aborted THEN Stop ELSE IF Full THEN Park ELSE Launch
        /\ UNCHANGED <<engineVars, genError, aborted, suite>> /\ TrackerUnchanged
    BY <1>1 DEF PullItem, AcquireSlot
  <2>3. SuiteType' /\ CaseInv'
    BY <2>1, <2>2, TakeSlot DEF engineVars, TrackerUnchanged
  <2>4. EngineType' /\ \A q \in Runs : RunInv(q)'
    <3>1. faults' \in 0..MaxFaults /\ bus' \in Seq(Events)
      BY <1>0, <2>2 DEF EngineType, engineVars
    <3> QED BY <1>0, <2>2, <3>1, EngineStill DEF engineVars
  <2> QED BY <2>3, <2>4 DEF Core
<1>2. ASSUME UNCHANGED engineVars, PullEnds \/ JoinThrows \/ Join \/ Finalize PROVE Core'
  <2>1. /\ UNCHANGED <<genError, nextCase, inFlight, aborted, case>> /\ TrackerUnchanged
        /\ gen' \in {"join", "finalize", "done"}
    BY <1>2 DEF PullEnds, JoinThrows, Join, Finalize
  <2>2. suite' \in [status : SuiteStatus, passed : Nat, failed : Nat]
    <3>1. CASE PullEnds
      BY <1>0, <3>1 DEF PullEnds, SuiteType
    <3>2. CASE JoinThrows \/ Join
      BY <1>0, <3>2, SuiteRows DEF JoinThrows, Join, SuiteType
    <3>3. CASE Finalize
      <4> DEFINE passed == Cardinality({i \in Launched : status[i] = "succeeded"})
                 failed == Cardinality({i \in Launched : status[i] = "failed"})
                 ends == IF SuiteOutcome = "cancelled" THEN "cancelled"
                         ELSE StatusOf(Cardinality(Settled), passed, failed)
      <4>1. passed \in Nat /\ failed \in Nat
        BY SuiteRows
      <4>2. ends \in SuiteStatus
        BY SuiteRows DEF SuiteStatus
      <4>3. suite' = [passed |-> passed, failed |-> failed, status |-> ends]
        BY <3>3 DEF Finalize
      <4> HIDE DEF passed, failed, ends
      <4> QED BY <4>1, <4>2, <4>3
    <3> QED BY <1>2, <3>1, <3>2, <3>3
  <2>3. SuiteType' /\ CaseInv'
    <3>1. /\ gen' \in GenPc /\ genError' \in BOOLEAN /\ aborted' \in BOOLEAN
          /\ known' \subseteq Runs /\ early' \subseteq Runs /\ failing' \subseteq Runs
          /\ status' \in [Runs -> CaseStatus]
      BY <1>0, <2>1 DEF SuiteType, TrackerUnchanged, GenPc
    <3> QED BY <1>2, <2>1, <2>2, <3>1, CasesRest DEF engineVars, TrackerUnchanged
  <2>4. EngineType' /\ \A q \in Runs : RunInv(q)'
    <3>1. faults' \in 0..MaxFaults /\ bus' \in Seq(Events)
      BY <1>0, <1>2 DEF EngineType, engineVars
    <3> QED BY <1>0, <1>2, <3>1, EngineStill DEF engineVars
  <2> QED BY <2>3, <2>4 DEF Core
<1>3. ASSUME PullThrows \/ Abort PROVE Core'
  <2>1. /\ EngineButFaults /\ UNCHANGED <<nextCase, inFlight, case, suite>> /\ TrackerUnchanged
        /\ Fault("generate") \/ Fault("abort")
    BY <1>3 DEF PullThrows, Abort
  <2>2. faults' \in 0..MaxFaults
    BY <1>0, <2>1, FaultType
  <2>3. EngineType' /\ \A q \in Runs : RunInv(q)'
    <3>1. bus' \in Seq(Events)
      BY <1>0, <2>1 DEF EngineType, EngineButFaults
    <3> QED BY <1>0, <2>1, <2>2, <3>1, EngineStill DEF EngineButFaults
  <2>4. SuiteType' /\ CaseInv'
    <3>1. /\ gen' \in GenPc /\ genError' \in BOOLEAN /\ aborted' \in BOOLEAN
          /\ gen' = gen \/ gen' \in {"pull", "join", "finalize", "done"}
          /\ known' \subseteq Runs /\ early' \subseteq Runs /\ failing' \subseteq Runs
          /\ status' \in [Runs -> CaseStatus]
          /\ suite' \in [status : SuiteStatus, passed : Nat, failed : Nat]
      <4>1. gen' = gen \/ gen' = "join"
        BY <1>3 DEF PullThrows, Abort
      <4>2. genError' \in BOOLEAN /\ aborted' \in BOOLEAN
        BY <1>0, <1>3 DEF PullThrows, Abort, SuiteType
      <4> QED BY <1>0, <2>1, <4>1, <4>2 DEF SuiteType, TrackerUnchanged, GenPc
    <3> QED BY <2>1, <3>1, CasesRest DEF EngineButFaults, TrackerUnchanged
  <2> QED BY <2>3, <2>4 DEF Core
<1>4. PullEnds \/ JoinThrows \/ Join \/ Finalize => UNCHANGED engineVars
  BY DEF PullEnds, JoinThrows, Join, Finalize
<1> QED BY <1>1, <1>2, <1>3, <1>4 DEF LoopStep

\* An event is published.
LEMMA BusGrows ==
  ASSUME EngineType, NEW i \in Runs, NEW kind \in {"started", "failedAssertion", "completed"},
         NEW end \in Ended \cup {"running"}, bus' = Append(bus, Event(kind, i, end))
  PROVE  /\ bus' \in Seq(Events) /\ Len(bus') = Len(bus) + 1 /\ Len(bus) \in Nat
         /\ bus'[Len(bus) + 1] = Event(kind, i, end)
         /\ \A n \in 1..Len(bus) : bus'[n] = bus[n]
<1>1. Event(kind, i, end) \in Events
  BY DEF Event, Events
<1>2. bus \in Seq(Events)
  BY DEF EngineType
<1> QED BY <1>1, <1>2, AppendProperties

\* The first event is handled.
LEMMA BusShrinks ==
  ASSUME EngineType, bus # <<>>, bus' = Tail(bus)
  PROVE  /\ bus' \in Seq(Events) /\ Len(bus) \in Nat \ {0} /\ Len(bus') = Len(bus) - 1
         /\ Head(bus) \in Events /\ bus[1] = Head(bus)
         /\ \A n \in 1..Len(bus') : bus'[n] = bus[n + 1]
<1>1. bus \in Seq(Events)
  BY DEF EngineType
<1> QED BY <1>1, HeadTailProperties

LEMMA CaseSteps ==
  ASSUME Core, NEW i \in Runs, CaseStarts(i) \/ CaseThrows(i) \/ CaseAnnounces(i) \/ CaseSettles(i)
  PROVE  Core'
<1>0. EngineType /\ SuiteType /\ (\A q \in Runs : RunInv(q)) /\ CaseInv
  BY DEF Core
<1>1. ASSUME CaseStarts(i) PROVE Core'
  <2>1. /\ EngineType' /\ (\A q \in Runs : RunInv(q)') /\ OnlyRun(i)
        /\ record'[i].status # "none"
    BY <1>0, <1>1, StartSteps DEF CaseStarts
  <2>2. SuiteType' /\ CaseInv'
    <3>1. /\ CaseAt(i, "announce") /\ case[i] = "starting" /\ UNCHANGED <<inFlight, gen>>
          /\ UNCHANGED <<concurrency, known, early, failing, status, genError, nextCase, aborted, suite>>
      BY <1>1 DEF CaseStarts, OnlyCase, TrackerUnchanged
    <3>2. \A q \in Runs \ {i} : record'[q] = record[q] /\ waiter'[q] = waiter[q]
      BY <2>1 DEF OnlyRun, Same
    <3>3. "announce" \in CasePc
      BY DEF CasePc
    <3> QED BY <2>1, <3>1, <3>2, <3>3, CaseMoves
  <2> QED BY <2>1, <2>2 DEF Core
<1>2. ASSUME CaseThrows(i) PROVE Core'
  <2>1. /\ CaseAt(i, "threw") /\ case[i] = "starting" /\ ReleaseSlot
        /\ UNCHANGED <<concurrency, known, early, failing, status, genError, nextCase, aborted, suite>>
        /\ EngineButFaults /\ Fault("case")
    BY <1>2 DEF CaseThrows, TrackerUnchanged
  <2>2. EngineType' /\ \A q \in Runs : RunInv(q)'
    <3>1. faults' \in 0..MaxFaults /\ bus' \in Seq(Events)
      BY <1>0, <2>1, FaultType DEF EngineType, EngineButFaults
    <3> QED BY <1>0, <2>1, <3>1, EngineStill DEF EngineButFaults
  <2>3. SuiteType' /\ CaseInv'
    <3>1. UNCHANGED <<record, waiter>> /\ record[i].status = "none" /\ "threw" \in CasePc
      BY <1>0, <2>1 DEF EngineButFaults, CaseInv, CasePc
    <3> QED BY <2>1, <3>1, CaseMoves
  <2> QED BY <2>2, <2>3 DEF Core
<1>3. ASSUME CaseAnnounces(i) PROVE Core'
  <2>1. /\ CaseAt(i, "waiting") /\ case[i] = "announce" /\ UNCHANGED <<inFlight, gen>>
        /\ UNCHANGED <<concurrency, known, early, failing, status, genError, nextCase, aborted, suite>>
        /\ EngineButBus /\ bus' = Append(bus, Event("started", i, "running"))
    BY <1>3 DEF CaseAnnounces, OnlyCase, TrackerUnchanged, Publish
  <2>2. EngineType' /\ \A q \in Runs : RunInv(q)'
    <3>1. faults' \in 0..MaxFaults /\ bus' \in Seq(Events)
      BY <1>0, <2>1, BusGrows DEF EngineType, EngineButBus
    <3> QED BY <1>0, <2>1, <3>1, EngineStill DEF EngineButBus
  <2>3. SuiteType' /\ CaseInv'
    <3>1. UNCHANGED <<record, waiter>> /\ record[i].status # "none" /\ "waiting" \in CasePc
      BY <1>0, <2>1 DEF EngineButBus, CaseInv, CasePc
    <3> QED BY <2>1, <3>1, CaseMoves
  <2> QED BY <2>2, <2>3 DEF Core
<1>4. ASSUME CaseSettles(i) PROVE Core'
  <2>1. /\ CaseAt(i, "settled") /\ case[i] = "waiting" /\ waiter[i] = "answered" /\ ReleaseSlot
        /\ UNCHANGED <<concurrency, known, early, failing, status, genError, nextCase, aborted, suite>>
        /\ EngineButBus /\ bus' = Append(bus, Event("completed", i, answer[i]))
    BY <1>4 DEF CaseSettles, TrackerUnchanged, Publish
  <2>2. EngineType' /\ \A q \in Runs : RunInv(q)'
    <3>1. answer[i] \in Ended
      BY <1>0, <2>1 DEF RunInv, WaitInv
    <3>2. faults' \in 0..MaxFaults /\ bus' \in Seq(Events)
      BY <1>0, <2>1, <3>1, BusGrows DEF EngineType, EngineButBus
    <3> QED BY <1>0, <2>1, <3>2, EngineStill DEF EngineButBus
  <2>3. SuiteType' /\ CaseInv'
    <3>1. UNCHANGED <<record, waiter>> /\ record[i].status # "none" /\ "settled" \in CasePc
      BY <1>0, <2>1 DEF EngineButBus, CaseInv, CasePc
    <3> QED BY <2>1, <3>1, CaseMoves
  <2> QED BY <2>2, <2>3 DEF Core
<1> QED BY <1>1, <1>2, <1>3, <1>4

LEMMA RunSteps ==
  ASSUME Core, UNCHANGED suiteVars, NEW i \in Runs,
         WaitLoad(i) \/ WaitRegister(i) \/ DrainStep(i) \/ DrainFault(i)
  PROVE  Core'
<1>0. EngineType /\ SuiteType /\ (\A q \in Runs : RunInv(q)) /\ CaseInv
  BY DEF Core
<1>1. EngineType' /\ (\A q \in Runs : RunInv(q)') /\ OnlyRun(i) /\ Progress(i)
  BY <1>0, EngineSteps
<1>2. SuiteType'
  BY <1>0 DEF SuiteType, suiteVars
<1>3. CaseInv'
  <2>1. ASSUME NEW j \in Runs
        PROVE  /\ case[j] = "none" <=> j > nextCase
               /\ record'[j].status = "none" <=> case[j] \in {"none", "starting", "threw"}
               /\ case[j] = "settled" => waiter'[j] = "answered"
    <3>1. /\ case[j] = "none" <=> j > nextCase
          /\ record[j].status = "none" <=> case[j] \in {"none", "starting", "threw"}
          /\ case[j] = "settled" => waiter[j] = "answered"
      BY <1>0 DEF CaseInv
    <3>2. CASE j = i
      BY <1>1, <3>1, <3>2 DEF Progress
    <3>3. CASE j # i
      BY <1>1, <3>1, <3>3 DEF OnlyRun, Same
    <3> QED BY <3>2, <3>3
  <2> QED BY <1>0, <2>1 DEF CaseInv, InProgress, suiteVars
<1> QED BY <1>1, <1>2, <1>3 DEF Core

LEMMA TrackStep ==
  ASSUME Core, Track
  PROVE  Core'
<1>0. EngineType /\ SuiteType /\ (\A q \in Runs : RunInv(q)) /\ CaseInv
  BY DEF Core
<1> DEFINE e == Head(bus)
<1>1. /\ bus # <<>> /\ bus' = Tail(bus) /\ EngineButBus
      /\ UNCHANGED <<concurrency, gen, genError, nextCase, inFlight, aborted, case, suite>>
      /\ \/ TrackStarted(e.run) \/ TrackFailedAssertion(e.run) \/ TrackCompleted(e.run, e.status)
  BY DEF Track
<1>2. bus' \in Seq(Events) /\ e \in Events
  BY <1>0, <1>1, BusShrinks
<1>3. e.run \in Runs
  BY <1>2 DEF Events
<1> HIDE DEF e
<1>4. /\ known' \subseteq Runs /\ early' \subseteq Runs /\ failing' \subseteq Runs
      /\ status' \in [Runs -> CaseStatus]
  <2>0. /\ known \subseteq Runs /\ early \subseteq Runs /\ failing \subseteq Runs
        /\ status \in [Runs -> CaseStatus]
    BY <1>0 DEF SuiteType
  <2>1. CASE TrackStarted(e.run)
    BY <1>3, <2>0, <2>1 DEF TrackStarted, DrainsEarly, CaseStatus
  <2>2. CASE TrackFailedAssertion(e.run)
    BY <1>3, <2>0, <2>2 DEF TrackFailedAssertion
  <2>3. CASE TrackCompleted(e.run, e.status)
    BY <1>3, <2>0, <2>3 DEF TrackCompleted, FinalStatus, CaseStatus
  <2> QED BY <1>1, <2>1, <2>2, <2>3
<1>5. SuiteType' /\ CaseInv'
  <2>1. /\ gen' \in GenPc /\ genError' \in BOOLEAN /\ aborted' \in BOOLEAN
        /\ suite' \in [status : SuiteStatus, passed : Nat, failed : Nat]
    BY <1>0, <1>1 DEF SuiteType
  <2> QED BY <1>1, <1>4, <2>1, CasesRest DEF EngineButBus
<1>6. EngineType' /\ \A q \in Runs : RunInv(q)'
  <2>1. faults' \in 0..MaxFaults
    BY <1>0, <1>1 DEF EngineType, EngineButBus
  <2> QED BY <1>0, <1>1, <1>2, <2>1, EngineStill DEF EngineButBus
<1> QED BY <1>5, <1>6 DEF Core

LEMMA CoreStep ==
  ASSUME Core, SuiteNext
  PROVE  Core'
<1>1. ASSUME NEW i \in Runs, CaseStep(i) \/ CaseThrows(i) PROVE Core'
  BY <1>1, CaseSteps, RunSteps DEF CaseStep, CaseWaits
<1>2. ASSUME NEW i \in Runs, (DrainStep(i) \/ DrainFault(i)) /\ UNCHANGED suiteVars PROVE Core'
  BY <1>2, RunSteps
<1> QED BY <1>1, <1>2, LoopSteps, TrackStep DEF SuiteNext

-----------------------------------------------------------------------------
(* The tracker: one lemma per kind of step, for one case. *)

\* The drains of a case that settled have nothing left to publish, unless its end was read
\* before its last event.
LEMMA SettledFacts ==
  ASSUME Core, NEW i \in Runs, waiter[i] = "answered", late = {}
  PROVE  ~Unpublished(i) /\ answer[i] \in Ended
BY DEF Core, RunInv, WaitInv

\* The events of a case are the ones there were, and so is what it deserves.
LEMMA ViewKeeps ==
  ASSUME Core, NEW q \in Runs, Tracked(q), Ordered(q)',
         \A k : InBus(k, q)' <=> InBus(k, q),
         /\ q \in known' <=> q \in known
         /\ q \in early' <=> q \in early
         /\ q \in failing' <=> q \in failing
         /\ status'[q] = status[q],
         \/ case'[q] = case[q]
         \/ {case[q], case'[q]} \cap {"waiting", "settled"} = {},
         q \in bad => q \in bad',
         q \in bad' /\ ~Unpublished(q)' => q \in bad /\ ~Unpublished(q),
         case[q] = "settled" => answer'[q] = answer[q] /\ (q \in bad' <=> q \in bad)
  PROVE  Tracked(q)'
<1>1. Handled(q)' <=> Handled(q)
  BY DEF Handled
<1>2. Present(q)'
  BY <1>1 DEF Tracked, Present
<1>3. Handled(q) => Verdict(q)' = Verdict(q)
  BY DEF Handled, Verdict, Deserve
<1>4. TallyInv(q)'
  <2>1. TallyInv(q)
    BY DEF Tracked
  <2>2. case'[q] \in {"waiting", "settled"} => case[q] \in {"waiting", "settled"}
    OBVIOUS
  <2> QED BY <1>1, <1>3, <2>1, <2>2 DEF TallyInv
<1> QED BY <1>2, <1>4 DEF Tracked

\* What the bus holds when an event has been published.
LEMMA AppendFacts ==
  ASSUME EngineType, NEW i \in Runs, NEW kind \in {"started", "failedAssertion", "completed"},
         NEW end \in Ended \cup {"running"}, bus' = Append(bus, Event(kind, i, end))
  PROVE  /\ \A k, q : InBus(k, q)' <=> InBus(k, q) \/ (k = kind /\ q = i)
         /\ \A n \in 1..Len(bus') : \/ n \in 1..Len(bus) /\ bus'[n] = bus[n]
                                    \/ n = Len(bus') /\ bus'[n] = Event(kind, i, end)
         /\ \A n \in 1..Len(bus) : n <= Len(bus')
<1>1. /\ Len(bus') = Len(bus) + 1 /\ Len(bus) \in Nat
      /\ bus'[Len(bus) + 1] = Event(kind, i, end)
      /\ \A n \in 1..Len(bus) : bus'[n] = bus[n]
  BY BusGrows
<1>2. Event(kind, i, end).kind = kind /\ Event(kind, i, end).run = i
  BY DEF Event
<1>3. ASSUME NEW k, NEW q
      PROVE  InBus(k, q)' <=> InBus(k, q) \/ (k = kind /\ q = i)
  <2>1. ASSUME InBus(k, q) PROVE InBus(k, q)'
    BY <1>1, <2>1 DEF InBus
  <2>2. ASSUME k = kind, q = i PROVE InBus(k, q)'
    BY <1>1, <1>2, <2>2 DEF InBus
  <2>3. ASSUME InBus(k, q)' PROVE InBus(k, q) \/ (k = kind /\ q = i)
    <3>1. PICK n \in 1..Len(bus') : bus'[n].kind = k /\ bus'[n].run = q
      BY <2>3 DEF InBus
    <3>2. CASE n = Len(bus) + 1
      BY <1>1, <1>2, <3>1, <3>2
    <3>3. CASE n # Len(bus) + 1
      BY <1>1, <3>1, <3>3 DEF InBus
    <3> QED BY <3>2, <3>3
  <2> QED BY <2>1, <2>2, <2>3
<1> QED BY <1>1, <1>3

\* The case whose event it is not.
LEMMA AppendOrder ==
  ASSUME EngineType, NEW i \in Runs, NEW kind \in {"started", "failedAssertion", "completed"},
         NEW end \in Ended \cup {"running"}, bus' = Append(bus, Event(kind, i, end)),
         NEW q \in Runs, Ordered(q),
         InBus("completed", q) => q # i /\ answer'[q] = answer[q],
         q = i /\ kind = "started" => ~InBus("started", q),
         q = i /\ kind = "completed" => end = answer'[q]
  PROVE  Ordered(q)'
<1>1. /\ \A n \in 1..Len(bus') : \/ n \in 1..Len(bus) /\ bus'[n] = bus[n]
                                 \/ n = Len(bus') /\ bus'[n] = Event(kind, i, end)
      /\ Len(bus') \in Nat /\ Len(bus) \in Nat /\ Len(bus') = Len(bus) + 1
  BY AppendFacts, BusGrows
<1>2. Event(kind, i, end).kind = kind /\ Event(kind, i, end).run = i /\ Event(kind, i, end).status = end
  BY DEF Event
<1>3. ASSUME NEW m \in 1..Len(bus'), NEW n \in 1..Len(bus'), At(m, "started", q)', At(n, "started", q)'
      PROVE  m = n
  <2>1. CASE m \in 1..Len(bus) /\ n \in 1..Len(bus)
    BY <1>1, <1>3, <2>1 DEF Ordered, At
  <2>2. CASE m = Len(bus') /\ n \in 1..Len(bus)
    BY <1>1, <1>2, <1>3, <2>2 DEF At, InBus
  <2>3. CASE n = Len(bus') /\ m \in 1..Len(bus)
    BY <1>1, <1>2, <1>3, <2>3 DEF At, InBus
  <2> QED BY <1>1, <2>1, <2>2, <2>3
<1>4. ASSUME NEW m \in 1..Len(bus'), NEW n \in 1..Len(bus'), At(m, "completed", q)', bus'[n].run = q
      PROVE  n <= m /\ bus'[m].status = answer'[q]
  <2>1. CASE m = Len(bus') /\ bus'[m] = Event(kind, i, end)
    BY <1>1, <1>2, <1>4, <2>1 DEF At
  <2>2. CASE m \in 1..Len(bus) /\ bus'[m] = bus[m]
    <3>1. At(m, "completed", q) /\ InBus("completed", q)
      BY <1>4, <2>2 DEF At, InBus
    <3>2. n \in 1..Len(bus) /\ bus'[n] = bus[n]
      BY <1>1, <1>2, <1>4, <3>1
    <3> QED BY <1>4, <2>2, <3>1, <3>2 DEF Ordered
  <2> QED BY <1>1, <2>1, <2>2
<1> QED BY <1>3, <1>4 DEF Ordered

\* What the bus holds when its first event has been handled.
LEMMA TailFacts ==
  ASSUME EngineType, bus # <<>>, bus' = Tail(bus)
  PROVE  /\ \A k, q : InBus(k, q) <=> InBus(k, q)' \/ (k = Head(bus).kind /\ q = Head(bus).run)
         /\ \A n \in 1..Len(bus') : n + 1 \in 1..Len(bus) /\ bus'[n] = bus[n + 1]
         /\ 1 \in 1..Len(bus) /\ bus[1] = Head(bus)
<1>1. /\ Len(bus) \in Nat \ {0} /\ Len(bus') = Len(bus) - 1 /\ bus[1] = Head(bus)
      /\ \A n \in 1..Len(bus') : bus'[n] = bus[n + 1]
  BY BusShrinks
<1>2. 1 \in 1..Len(bus) /\ \A n \in 1..Len(bus') : n + 1 \in 1..Len(bus) /\ bus'[n] = bus[n + 1]
  BY <1>1
<1>3. ASSUME NEW k, NEW q
      PROVE  InBus(k, q) <=> InBus(k, q)' \/ (k = Head(bus).kind /\ q = Head(bus).run)
  <2>1. ASSUME InBus(k, q)' PROVE InBus(k, q)
    <3>1. PICK n \in 1..Len(bus') : bus'[n].kind = k /\ bus'[n].run = q
      BY <2>1 DEF InBus
    <3>2. n + 1 \in 1..Len(bus) /\ bus[n + 1].kind = k /\ bus[n + 1].run = q
      BY <1>2, <3>1
    <3> QED BY <3>2 DEF InBus
  <2>2. ASSUME k = Head(bus).kind, q = Head(bus).run PROVE InBus(k, q)
    BY <1>1, <1>2, <2>2 DEF InBus
  <2>3. ASSUME InBus(k, q) PROVE InBus(k, q)' \/ (k = Head(bus).kind /\ q = Head(bus).run)
    <3>1. PICK n \in 1..Len(bus) : bus[n].kind = k /\ bus[n].run = q
      BY <2>3 DEF InBus
    <3>2. CASE n = 1
      BY <1>1, <3>1, <3>2
    <3>3. CASE n # 1
      <4>1. n - 1 \in 1..Len(bus') /\ bus'[n - 1] = bus[n]
        BY <1>1, <3>3
      <4> QED BY <3>1, <4>1 DEF InBus
    <3> QED BY <3>2, <3>3
  <2> QED BY <2>1, <2>2, <2>3
<1> QED BY <1>2, <1>3

LEMMA TailOrder ==
  ASSUME EngineType, bus # <<>>, bus' = Tail(bus), NEW q \in Runs, Ordered(q), answer' = answer
  PROVE  Ordered(q)'
<1>1. \A n \in 1..Len(bus') : n + 1 \in 1..Len(bus) /\ bus'[n] = bus[n + 1]
  BY TailFacts
<1>2. ASSUME NEW m \in 1..Len(bus'), NEW n \in 1..Len(bus'), At(m, "started", q)', At(n, "started", q)'
      PROVE  m = n
  <2>1. At(m + 1, "started", q) /\ At(n + 1, "started", q)
    BY <1>1, <1>2 DEF At
  <2>2. m + 1 = n + 1
    BY <1>1, <2>1 DEF Ordered
  <2> QED BY <2>2
<1>3. ASSUME NEW m \in 1..Len(bus'), NEW n \in 1..Len(bus'), At(m, "completed", q)', bus'[n].run = q
      PROVE  n <= m /\ bus'[m].status = answer'[q]
  <2>1. At(m + 1, "completed", q) /\ bus[n + 1].run = q
    BY <1>1, <1>3 DEF At
  <2>2. n + 1 <= m + 1 /\ bus[m + 1].status = answer[q]
    BY <1>1, <2>1 DEF Ordered
  <2> QED BY <1>1, <2>2
<1> QED BY <1>2, <1>3 DEF Ordered

\* Nothing is published and nothing tracked.
LEMMA StillOrdered ==
  ASSUME NEW q \in Runs, Tracked(q), bus' = bus, case[q] = "settled" => answer'[q] = answer[q]
  PROVE  Ordered(q)' /\ \A k : InBus(k, q)' <=> InBus(k, q)
<1>1. \A k : InBus(k, q)' <=> InBus(k, q)
  BY DEF InBus
<1>2. ASSUME InBus("completed", q) PROVE answer'[q] = answer[q]
  BY <1>2 DEF Tracked, Present
<1>3. Ordered(q)'
  <2>1. Ordered(q)
    BY DEF Tracked
  <2>2. \A m, n \in 1..Len(bus') : At(m, "started", q)' /\ At(n, "started", q)' => m = n
    BY <2>1 DEF Ordered, At
  <2>3. ASSUME NEW m \in 1..Len(bus'), NEW n \in 1..Len(bus'), At(m, "completed", q)', bus'[n].run = q
        PROVE  n <= m /\ bus'[m].status = answer'[q]
    <3>1. At(m, "completed", q) /\ InBus("completed", q)
      BY <2>3 DEF At, InBus
    <3> QED BY <1>2, <2>1, <2>3, <3>1 DEF Ordered
  <2> QED BY <2>2, <2>3 DEF Ordered
<1> QED BY <1>1, <1>3

LEMMA QuietKeeps ==
  ASSUME Core, NEW q \in Runs, Tracked(q), bus' = bus,
         UNCHANGED <<known, early, failing, status>>,
         \/ case'[q] = case[q]
         \/ {case[q], case'[q]} \cap {"waiting", "settled"} = {},
         q \in bad => q \in bad',
         q \in bad' /\ ~Unpublished(q)' => q \in bad /\ ~Unpublished(q),
         case[q] = "settled" => answer'[q] = answer[q] /\ (q \in bad' <=> q \in bad)
  PROVE  Tracked(q)'
<1>1. Ordered(q)' /\ \A k : InBus(k, q)' <=> InBus(k, q)
  BY StillOrdered
<1> QED BY <1>1, ViewKeeps

\* A failed assertion of a run is published; its case has not settled, because the waiter of a
\* run is answered after the run's last event.
LEMMA AssertionTracked ==
  ASSUME Core, NEW r \in Runs, OnlyRun(r), Progress(r), Publishes(r), late = {}, UNCHANGED suiteVars,
         NEW q \in Runs, Tracked(q)
  PROVE  Tracked(q)'
<1>0. /\ EngineType /\ UNCHANGED <<case, known, early, failing, status>> /\ Ordered(q)
      /\ r \in bad /\ Unpublished(r) /\ bad' = bad
      /\ bus' = Append(bus, Event("failedAssertion", r, "running"))
  BY DEF Core, suiteVars, Publishes, Tracked
<1>1. \A k : InBus(k, q)' <=> InBus(k, q) \/ (k = "failedAssertion" /\ q = r)
  BY <1>0, AppendFacts
<1>2. CASE q # r
  <2>1. Same(q)
    BY <1>2 DEF OnlyRun
  <2>2. answer'[q] = answer[q] /\ (q \in bad' <=> q \in bad) /\ (Unpublished(q)' <=> Unpublished(q))
    BY <2>1 DEF Same, Unpublished
  <2>3. Ordered(q)'
    BY <1>0, <1>2, <2>2, AppendOrder
  <2> QED BY <1>0, <1>1, <1>2, <2>2, <2>3, ViewKeeps
<1>3. CASE q = r
  <2>1. case[q] # "settled" /\ ~InBus("completed", q) /\ ~Handled(q)
    <3>1. case[q] = "settled" => waiter[q] = "answered"
      BY DEF Core, CaseInv
    <3>2. case[q] # "settled"
      BY <1>0, <1>3, <3>1, SettledFacts
    <3> QED BY <3>2 DEF Tracked, Present, Handled
  <2>2. Ordered(q)'
    BY <1>0, <1>3, <2>1, AppendOrder
  <2>3. ~Handled(q)'
    BY <1>0, <2>1 DEF Handled
  <2>4. Present(q)'
    BY <1>0, <1>1, <1>3, <2>1, <2>3 DEF Tracked, Present
  <2>5. TallyInv(q)'
    BY <1>0, <1>1, <1>3, <2>1, <2>3 DEF Tracked, TallyInv
  <2> QED BY <2>2, <2>4, <2>5 DEF Tracked
<1> QED BY <1>2, <1>3

\* A case is announced.
LEMMA StartedTracked ==
  ASSUME Core, NEW r \in Runs, CaseAnnounces(r), NEW q \in Runs, Tracked(q)
  PROVE  Tracked(q)'
<1>0. /\ EngineType /\ UNCHANGED <<known, early, failing, status, answer, bad, drain>> /\ Ordered(q)
      /\ case[r] = "announce" /\ case' = [case EXCEPT ![r] = "waiting"]
      /\ bus' = Append(bus, Event("started", r, "running"))
      /\ case \in [Runs -> CasePc]
  BY DEF Core, CaseAnnounces, OnlyCase, TrackerUnchanged, EngineButBus, Publish, CaseAt, Tracked, SuiteType
<1>1. \A k : InBus(k, q)' <=> InBus(k, q) \/ (k = "started" /\ q = r)
  BY <1>0, AppendFacts
<1>2. Unpublished(q)' <=> Unpublished(q)
  BY <1>0 DEF Unpublished
<1>3. CASE q # r
  <2>1. Ordered(q)'
    BY <1>0, <1>3, AppendOrder
  <2> QED BY <1>0, <1>1, <1>2, <1>3, <2>1, ViewKeeps
<1>4. CASE q = r
  <2>1. ~InBus("completed", q) /\ ~InBus("started", q) /\ q \notin known /\ ~Handled(q)
    BY <1>0, <1>4 DEF Tracked, Present, Handled
  <2>2. Ordered(q)'
    BY <1>0, <1>4, <2>1, AppendOrder
  <2>3. case'[q] = "waiting" /\ ~Handled(q)'
    BY <1>0, <1>4 DEF Handled
  <2>4. Present(q)'
    BY <1>0, <1>1, <1>4, <2>1, <2>3 DEF Tracked, Present
  <2>5. TallyInv(q)'
    BY <1>0, <1>1, <1>2, <1>4, <2>1, <2>3 DEF Tracked, TallyInv
  <2> QED BY <2>2, <2>4, <2>5 DEF Tracked
<1> QED BY <1>3, <1>4

\* A case settles.
LEMMA CompletedTracked ==
  ASSUME Core, NEW r \in Runs, CaseSettles(r), late = {}, NEW q \in Runs, Tracked(q)
  PROVE  Tracked(q)'
<1>0. /\ EngineType /\ UNCHANGED <<known, early, failing, status, answer, bad, drain>> /\ Ordered(q)
      /\ case[r] = "waiting" /\ case' = [case EXCEPT ![r] = "settled"] /\ waiter[r] = "answered"
      /\ bus' = Append(bus, Event("completed", r, answer[r]))
      /\ case \in [Runs -> CasePc]
  BY DEF Core, CaseSettles, TrackerUnchanged, EngineButBus, Publish, CaseAt, Tracked, SuiteType
<1>1. answer[r] \in Ended /\ \A k : InBus(k, q)' <=> InBus(k, q) \/ (k = "completed" /\ q = r)
  BY <1>0, AppendFacts, SettledFacts
<1>2. Unpublished(q)' <=> Unpublished(q)
  BY <1>0 DEF Unpublished
<1>3. CASE q # r
  <2>1. Ordered(q)'
    BY <1>0, <1>1, <1>3, AppendOrder
  <2> QED BY <1>0, <1>1, <1>2, <1>3, <2>1, ViewKeeps
<1>4. CASE q = r
  <2>1. ~InBus("completed", q) /\ ~Handled(q)
    BY <1>0, <1>4 DEF Tracked, Present, Handled
  <2>2. Ordered(q)'
    BY <1>0, <1>1, <1>4, <2>1, AppendOrder
  <2>3. case'[q] = "settled" /\ ~Handled(q)'
    BY <1>0, <1>1, <1>4 DEF Handled
  <2>4. Present(q)'
    BY <1>0, <1>1, <1>4, <2>1, <2>3 DEF Tracked, Present
  <2>5. TallyInv(q)'
    BY <1>0, <1>1, <1>2, <1>4, <2>1, <2>3 DEF Tracked, TallyInv
  <2> QED BY <2>2, <2>4, <2>5 DEF Tracked
<1> QED BY <1>3, <1>4

\* The tracker handles the first event.
LEMMA HeadTracked ==
  ASSUME Core, Track, late = {}, NEW q \in Runs, Tracked(q)
  PROVE  Tracked(q)'
<1> DEFINE e == Head(bus)
<1>0. /\ EngineType /\ UNCHANGED <<case, answer, bad, drain>> /\ Ordered(q) /\ Present(q) /\ TallyInv(q)
      /\ bus # <<>> /\ bus' = Tail(bus) /\ e \in Events /\ e.run \in Runs
      /\ \/ e.kind = "started" /\ TrackStarted(e.run)
         \/ e.kind = "failedAssertion" /\ TrackFailedAssertion(e.run)
         \/ e.kind = "completed" /\ TrackCompleted(e.run, e.status)
      /\ status \in [Runs -> CaseStatus]
      /\ case[q] = "settled" => waiter[q] = "answered"
  <2>1. e \in Events
    BY BusShrinks DEF Core, Track
  <2>2. e.run \in Runs
    BY <2>1 DEF Events
  <2> QED BY <2>1, <2>2 DEF Core, Track, EngineButBus, Tracked, SuiteType, CaseInv
<1>1. /\ \A k : InBus(k, q) <=> InBus(k, q)' \/ (k = e.kind /\ q = e.run)
      /\ \A n \in 1..Len(bus') : n + 1 \in 1..Len(bus) /\ bus'[n] = bus[n + 1]
      /\ 1 \in 1..Len(bus) /\ bus[1] = e
  BY <1>0, TailFacts
<1>2. Ordered(q)'
  BY <1>0, TailOrder
<1>3. Unpublished(q)' <=> Unpublished(q)
  BY <1>0 DEF Unpublished
<1> HIDE DEF e
<1>4. CASE q # e.run
  <2>1. /\ q \in known' <=> q \in known
        /\ q \in early' <=> q \in early
        /\ q \in failing' <=> q \in failing
        /\ status'[q] = status[q]
    <3>1. CASE TrackStarted(e.run)
      BY <1>0, <1>4, <3>1 DEF TrackStarted, DrainsEarly
    <3>2. CASE TrackFailedAssertion(e.run)
      BY <1>4, <3>2 DEF TrackFailedAssertion
    <3>3. CASE TrackCompleted(e.run, e.status)
      BY <1>0, <1>4, <3>3 DEF TrackCompleted
    <3> QED BY <1>0, <3>1, <3>2, <3>3
  <2> QED BY <1>0, <1>1, <1>2, <1>3, <1>4, <2>1, ViewKeeps
<1>5. CASE q = e.run /\ e.kind = "started" /\ TrackStarted(e.run)
  <2>1. InBus("started", q) /\ (InBus("completed", q)' <=> InBus("completed", q))
        /\ (InBus("failedAssertion", q)' <=> InBus("failedAssertion", q))
    BY <1>1, <1>5
  <2>2. ~InBus("started", q)'
    <3>1. SUFFICES ASSUME NEW n \in 1..Len(bus'), bus'[n].kind = "started", bus'[n].run = q
                   PROVE  FALSE
      BY DEF InBus
    <3>2. At(n + 1, "started", q) /\ At(1, "started", q)
      BY <1>1, <1>5, <3>1 DEF At
    <3>3. n + 1 = 1
      BY <1>0, <1>1, <3>2 DEF Ordered
    <3> QED BY <1>0, <3>3, BusShrinks
  <2>3. ~Handled(q) /\ ~Handled(q)' /\ case[q] \in {"waiting", "settled"} /\ q \notin known
    BY <1>0, <2>1 DEF Handled, TallyInv, Present
  <2>4. /\ q \in known' /\ q \notin early' /\ (q \in failing' <=> q \in early)
    BY <1>5 DEF TrackStarted, DrainsEarly
  <2>5. Present(q)'
    BY <1>0, <2>1, <2>2, <2>3 DEF Present
  <2>6. TallyInv(q)'
    BY <1>0, <1>3, <2>1, <2>2, <2>3, <2>4 DEF TallyInv
  <2> QED BY <1>2, <2>5, <2>6 DEF Tracked
<1>6. CASE q = e.run /\ e.kind = "failedAssertion" /\ TrackFailedAssertion(e.run)
  <2>1. InBus("failedAssertion", q) /\ (InBus("completed", q)' <=> InBus("completed", q))
        /\ (InBus("started", q)' <=> InBus("started", q))
    BY <1>1, <1>6
  <2>2. q \in bad /\ ~Handled(q) /\ ~Handled(q)'
    BY <1>0, <2>1 DEF Handled, Present
  <2>3. /\ known' = known /\ status' = status
        /\ q \in IF q \in known THEN failing' ELSE early'
    BY <1>6 DEF TrackFailedAssertion
  <2>4. Present(q)'
    BY <1>0, <2>1, <2>2, <2>3 DEF Present
  <2>5. TallyInv(q)'
    BY <1>0, <1>3, <2>1, <2>2, <2>3 DEF TallyInv
  <2> QED BY <1>2, <2>4, <2>5 DEF Tracked
<1>7. CASE q = e.run /\ e.kind = "completed" /\ TrackCompleted(e.run, e.status)
  <2>1. InBus("completed", q) /\ At(1, "completed", q)
    BY <1>1, <1>7 DEF At
  <2>2. ASSUME NEW k PROVE ~InBus(k, q)'
    <3>1. SUFFICES ASSUME NEW n \in 1..Len(bus'), bus'[n].run = q
                   PROVE  FALSE
      BY DEF InBus
    <3>2. n + 1 <= 1
      BY <1>0, <1>1, <2>1, <3>1 DEF Ordered
    <3> QED BY <1>0, <3>2, BusShrinks
  <2>3. case[q] = "settled" /\ ~Handled(q) /\ Handled(q)'
    BY <1>0, <2>1, <2>2 DEF Handled, Present
  <2>4. q \in known /\ ~InBus("started", q) /\ ~InBus("failedAssertion", q)
    <3>1. ASSUME NEW k, InBus(k, q) PROVE k = "completed"
      BY <1>1, <1>7, <2>2, <3>1
    <3>2. ~InBus("started", q) /\ ~InBus("failedAssertion", q)
      BY <3>1
    <3> QED BY <1>0, <2>3, <3>2 DEF TallyInv
  <2>5. ~Unpublished(q)
    BY <1>0, <2>3, SettledFacts
  <2>6. q \in failing <=> q \in bad
    BY <1>0, <2>3, <2>4, <2>5 DEF TallyInv
  <2>7. e.status = answer[q]
    BY <1>0, <1>1, <1>7, <2>1 DEF Ordered
  <2>8. status'[q] = Verdict(q)'
    BY <1>0, <1>7, <2>6, <2>7 DEF TrackCompleted, FinalStatus, Verdict, Deserve
  <2>9. q \notin known' /\ q \notin early' /\ failing' = failing
    BY <1>7 DEF TrackCompleted
  <2>10. Present(q)'
    BY <1>0, <2>2, <2>3 DEF Present
  <2>11. TallyInv(q)'
    BY <1>0, <2>2, <2>3, <2>6, <2>8, <2>9 DEF TallyInv
  <2> QED BY <1>2, <2>10, <2>11 DEF Tracked
<1> QED BY <1>0, <1>4, <1>5, <1>6, <1>7

-----------------------------------------------------------------------------
(* The tracker and the end of the suite: every step. *)

\* What a case's events and verdict depend on rests.
Unseen(q) ==
  /\ bus' = bus /\ UNCHANGED <<known, early, failing, status>>
  /\ case'[q] = case[q] \/ {case[q], case'[q]} \cap {"waiting", "settled"} = {}
  /\ q \in bad => q \in bad'
  /\ q \in bad' /\ ~Unpublished(q)' => q \in bad /\ ~Unpublished(q)
  /\ case[q] = "settled" => answer'[q] = answer[q] /\ (q \in bad' <=> q \in bad)
\* A case that settled has settled for good, and a suite that finalizes launches no other.
Steady ==
  /\ suite' = suite /\ late \subseteq late'
  /\ gen' = "finalize" => gen = "finalize"
  /\ gen = "done" => gen' = "done"
  /\ gen \in {"finalize", "done"} => nextCase' = nextCase
  /\ \A i \in Runs : case[i] = "settled" =>
       case'[i] = "settled" /\ answer'[i] = answer[i] /\ (i \in bad' <=> i \in bad)

LEMMA UnseenKeeps ==
  ASSUME Core, NEW q \in Runs, Tracked(q), Unseen(q)
  PROVE  Tracked(q)'
BY QuietKeeps DEF Unseen

LEMMA SteadyEnd ==
  ASSUME Core, EndInv, Steady
  PROVE  EndInv'
<1>0. Launched \subseteq Runs
  BY RunNumbers DEF Core, SuiteType, Launched
<1>1. suite.status \in Counted => gen = "done" /\ gen' = "done"
  BY DEF EndInv, Steady
<1>2. gen' = "finalize" \/ suite.status \in Counted => Settled' = Launched' /\ Launched' = Launched /\ Settled = Launched
  <2>1. SUFFICES ASSUME gen' = "finalize" \/ suite.status \in Counted
                 PROVE  Settled' = Launched' /\ Launched' = Launched /\ Settled = Launched
    OBVIOUS
  <2>2. Settled = Launched /\ gen \in {"finalize", "done"}
    BY <1>1, <2>1 DEF EndInv, Steady
  <2>3. Launched' = Launched
    BY <2>2 DEF Steady, Launched
  <2>4. \A i \in Launched : case'[i] = "settled"
    BY <1>0, <2>2 DEF Settled, Steady
  <2> QED BY <2>2, <2>3, <2>4 DEF Settled
<1>3. Bus = "memory" => CountsMatchVerdicts'
  <2>1. SUFFICES ASSUME Bus = "memory", suite.status \in Counted, late' = {}
                 PROVE  /\ suite.passed = Cardinality({i \in Launched' : Deserve(i)'})
                        /\ suite.failed = Cardinality({i \in Launched' : ~Deserve(i)'})
    BY DEF CountsMatchVerdicts, Steady, Counted
  <2>2. \A i \in Launched : Deserve(i)' <=> Deserve(i)
    BY <1>0, <1>2, <2>1 DEF Settled, Steady, Deserve
  <2>3. /\ {i \in Launched' : Deserve(i)'} = {i \in Launched : Deserve(i)}
        /\ {i \in Launched' : ~Deserve(i)'} = {i \in Launched : ~Deserve(i)}
    BY <1>2, <2>1, <2>2
  <2>4. late = {}
    BY <2>1 DEF Steady
  <2>5. /\ suite.passed = Cardinality({i \in Launched : Deserve(i)})
        /\ suite.failed = Cardinality({i \in Launched : ~Deserve(i)})
    BY <2>1, <2>4 DEF EndInv, CountsMatchVerdicts, Counted
  <2> QED BY <2>3, <2>5
<1> QED BY <1>1, <1>2, <1>3 DEF EndInv, Steady

\* The loop, before the end.
LEMMA LoopQuiet ==
  ASSUME Core, PullItem \/ AcquireSlot \/ PullEnds \/ PullThrows \/ Abort
  PROVE  Steady /\ \A q \in Runs : Unseen(q)
<1>1. /\ UNCHANGED <<bus, known, early, failing, status, answer, bad, late, drain, suite>>
      /\ gen \in {"pull", "acquire", "parked"} /\ gen' # "finalize"
  BY DEF PullItem, AcquireSlot, PullEnds, PullThrows, Abort, Stop, Park, Launch, TrackerUnchanged,
         EngineButFaults, engineVars
<1>2. case \in [Runs -> CasePc] /\ nextCase \in 0..Cardinality(Runs)
  BY DEF Core, SuiteType
<1>3. \/ case' = case
      \/ case' = [case EXCEPT ![nextCase + 1] = "starting"] /\ nextCase < Cardinality(Runs)
  BY DEF PullItem, AcquireSlot, PullEnds, PullThrows, Abort, Stop, Park, Launch, Core, CaseInv
<1>4. \A q \in Runs : case'[q] = case[q] \/ (case[q] = "none" /\ case'[q] = "starting")
  <2>1. SUFFICES ASSUME NEW q \in Runs, case' = [case EXCEPT ![nextCase + 1] = "starting"],
                        nextCase < Cardinality(Runs), q = nextCase + 1
                 PROVE  case[q] = "none" /\ case'[q] = "starting"
    BY <1>2, <1>3
  <2>2. case'[q] = "starting"
    BY <1>2, <2>1
  <2>3. q > nextCase
    BY <1>2, <2>1, RunNumbers
  <2> QED BY <2>2, <2>3 DEF Core, CaseInv
<1>5. \A q \in Runs : Unseen(q)
  BY <1>1, <1>4 DEF Unseen, Unpublished
<1>6. Steady
  BY <1>1, <1>4 DEF Steady
<1> QED BY <1>5, <1>6

LEMMA EndQuiet ==
  ASSUME Core, JoinThrows \/ Join \/ Finalize
  PROVE  late' = late /\ \A q \in Runs : Unseen(q)
<1>1. UNCHANGED <<bus, known, early, failing, status, answer, bad, late, drain, case>>
  BY DEF JoinThrows, Join, Finalize, TrackerUnchanged, engineVars
<1> QED BY <1>1 DEF Unseen, Unpublished

\* The counters are right when they are written: with the bus in memory every event of every
\* case was handled before.
LEMMA EndSteps ==
  ASSUME Core, TrackInv, EndInv, JoinThrows \/ Join \/ Finalize
  PROVE  EndInv'
<1>1. /\ UNCHANGED <<nextCase, case, status, answer, bad, late>> /\ gen \in {"join", "finalize"}
      /\ suite.status \notin Counted
  BY DEF JoinThrows, Join, Finalize, TrackerUnchanged, engineVars, EndInv
<1>2. Launched' = Launched /\ Settled' = Settled /\ Launched \subseteq Runs
  BY <1>1, RunNumbers DEF Launched, Settled, Core, SuiteType
<1>3. CASE JoinThrows
  <2>1. suite'.status = "errored" /\ gen' = "done"
    BY <1>3 DEF JoinThrows, RunningSuite
  <2> QED BY <2>1 DEF EndInv, Counted, CountsMatchVerdicts
<1>4. CASE Join
  <2>1. /\ Settled = Launched
        /\ suite'.status = "errored" \/ suite' = suite
    BY <1>4 DEF Join, RunningSuite
  <2>2. suite'.status \notin Counted
    BY <1>1, <2>1 DEF Counted
  <2> QED BY <1>2, <2>1, <2>2 DEF EndInv, Counted, CountsMatchVerdicts
<1>5. CASE Finalize
  <2> DEFINE passed == Cardinality({i \in Launched : status[i] = "succeeded"})
             failed == Cardinality({i \in Launched : status[i] = "failed"})
             ends == IF SuiteOutcome = "cancelled" THEN "cancelled"
                     ELSE StatusOf(Cardinality(Settled), passed, failed)
  <2>1. /\ suite' = [passed |-> passed, failed |-> failed, status |-> ends]
        /\ gen = "finalize" /\ EventsHandled /\ gen' = "done"
    BY <1>5 DEF Finalize
  <2>2. Settled = Launched
    BY <2>1 DEF EndInv
  <2>3. ASSUME Bus = "memory", late = {}
        PROVE  /\ passed = Cardinality({i \in Launched : Deserve(i)})
               /\ failed = Cardinality({i \in Launched : ~Deserve(i)})
    <3>1. ASSUME NEW i \in Launched PROVE status[i] = Verdict(i)
      <4>1. bus = <<>> /\ case[i] = "settled" /\ i \in Runs
        BY <1>2, <2>1, <2>2, <2>3, <3>1 DEF EventsHandled, Settled
      <4>2. Handled(i)
        BY <4>1 DEF Handled, InBus
      <4>3. Tracked(i)
        BY <2>3, <4>1 DEF TrackInv
      <4> QED BY <4>2, <4>3 DEF Tracked, TallyInv
    <3>2. /\ {i \in Launched : status[i] = "succeeded"} = {i \in Launched : Deserve(i)}
          /\ {i \in Launched : status[i] = "failed"} = {i \in Launched : ~Deserve(i)}
      BY <3>1 DEF Verdict
    <3> QED BY <3>2
  <2> HIDE DEF passed, failed, ends
  <2>4. suite'.passed = passed /\ suite'.failed = failed
    BY <2>1
  <2>5. \A i \in Launched : Deserve(i)' <=> Deserve(i)
    BY <1>1 DEF Deserve
  <2>6. /\ {i \in Launched' : Deserve(i)'} = {i \in Launched : Deserve(i)}
        /\ {i \in Launched' : ~Deserve(i)'} = {i \in Launched : ~Deserve(i)}
    BY <1>2, <2>5
  <2>7. Bus = "memory" => CountsMatchVerdicts'
    BY <1>1, <2>3, <2>4, <2>6 DEF CountsMatchVerdicts
  <2> QED BY <1>2, <2>1, <2>2, <2>7 DEF EndInv
<1> QED BY <1>3, <1>4, <1>5

\* A case starts, or throws.
LEMMA StartQuiet ==
  ASSUME Core, NEW r \in Runs, CaseStarts(r) \/ CaseThrows(r)
  PROVE  Steady /\ \A q \in Runs : Unseen(q)
<1>1. /\ UNCHANGED <<bus, bad, late, known, early, failing, status, suite, nextCase>>
      /\ case[r] = "starting" /\ case' = [case EXCEPT ![r] = IF CaseThrows(r) THEN "threw" ELSE "announce"]
      /\ gen' = gen \/ ReleaseSlot
  <2>1. CASE CaseStarts(r)
    <3>1. case[r] = "starting" /\ ~CaseThrows(r)
      BY <2>1 DEF CaseStarts, CaseThrows, CaseAt, Core, SuiteType, Fault, StartRun, StartEnds, EngineType, CasePc
    <3> QED BY <2>1, <3>1 DEF CaseStarts, CaseAt, OnlyCase, TrackerUnchanged, StartRun, StartEnds
  <2>2. CASE CaseThrows(r)
    BY <2>2 DEF CaseThrows, CaseAt, EngineButFaults, TrackerUnchanged
  <2> QED BY <2>1, <2>2
<1>2. case \in [Runs -> CasePc]
  BY DEF Core, SuiteType
<1>3. \A q \in Runs : case'[q] = case[q] \/ (case[q] = "starting" /\ case'[q] \in {"threw", "announce"})
  BY <1>1, <1>2
<1>4. ASSUME NEW q \in Runs
      PROVE  /\ Unpublished(q)' <=> Unpublished(q)
             /\ case[q] = "settled" => answer'[q] = answer[q]
  <2>1. CASE CaseStarts(r)
    <3>1. drain' = drain
      BY <2>1 DEF CaseStarts, StartRun, StartEnds
    <3>2. OnlyRun(r)
      BY <2>1, StartSteps DEF CaseStarts, Core
    <3> QED BY <1>1, <3>1, <3>2 DEF Unpublished, OnlyRun, Same
  <2>2. CASE CaseThrows(r)
    BY <2>2 DEF CaseThrows, EngineButFaults, Unpublished
  <2> QED BY <2>1, <2>2
<1>5. \A q \in Runs : Unseen(q)
  BY <1>1, <1>3, <1>4 DEF Unseen
<1>6. Steady
  BY <1>1, <1>3, <1>4 DEF Steady, ReleaseSlot
<1> QED BY <1>5, <1>6

\* A case is announced, or settles.
LEMMA CaseSteady ==
  ASSUME Core, NEW r \in Runs, CaseAnnounces(r) \/ CaseSettles(r)
  PROVE  Steady
<1>1. UNCHANGED <<answer, bad, late, suite, nextCase>>
  BY DEF CaseAnnounces, CaseSettles, OnlyCase, EngineButBus
<1>2. /\ gen' = "finalize" => gen = "finalize"
      /\ gen = "done" => gen' = "done"
  BY DEF CaseAnnounces, CaseSettles, OnlyCase, ReleaseSlot
<1>3. \A q \in Runs : case[q] = "settled" => case'[q] = "settled"
  BY DEF CaseAnnounces, CaseSettles, CaseAt, Core, SuiteType
<1> QED BY <1>1, <1>2, <1>3 DEF Steady

\* A run moves.
LEMMA RunTracked ==
  ASSUME Core, UNCHANGED suiteVars, NEW r \in Runs, OnlyRun(r), Progress(r), Quietly(r) \/ Publishes(r)
  PROVE  Steady /\ (late = {} => \A q \in Runs : Tracked(q) => Tracked(q)')
<1>1. /\ UNCHANGED <<case, known, early, failing, status, suite, gen, nextCase>>
      /\ \A q \in Runs : case[q] = "settled" => waiter[q] = "answered"
      /\ \A q \in Runs \ {r} : Same(q)
  BY DEF suiteVars, Core, CaseInv, OnlyRun
<1>2. \A q \in Runs : case[q] = "settled" => answer'[q] = answer[q] /\ (q \in bad' <=> q \in bad)
  BY <1>1 DEF Same, Progress
<1>3. Steady
  BY <1>1, <1>2 DEF Steady, Progress
<1>4. ASSUME Quietly(r), NEW q \in Runs PROVE Unseen(q)
  <2>1. q \in bad => q \in bad'
    BY <1>4 DEF Quietly
  <2>2. q \in bad' /\ ~Unpublished(q)' => q \in bad /\ ~Unpublished(q)
    <3>1. CASE q = r
      BY <1>4, <3>1 DEF Quietly
    <3>2. CASE q # r
      BY <1>1, <3>2 DEF Same, Unpublished
    <3> QED BY <3>1, <3>2
  <2> QED BY <1>1, <1>2, <1>4, <2>1, <2>2 DEF Unseen, Quietly
<1>5. ASSUME late = {}, NEW q \in Runs, Tracked(q) PROVE Tracked(q)'
  <2>1. CASE Quietly(r)
    BY <1>4, <1>5, <2>1, UnseenKeeps
  <2>2. CASE Publishes(r)
    BY <1>5, <2>2, AssertionTracked
  <2> QED BY <2>1, <2>2
<1> QED BY <1>3, <1>5

LEMMA HeadSteady ==
  ASSUME Track
  PROVE  Steady
BY DEF Track, EngineButBus, Steady

LEMMA InitInv ==
  ASSUME SuiteInit
  PROVE  Inv
<1>1. /\ EngineInit /\ concurrency \in Concurrencies
      /\ gen = "pull" /\ genError = FALSE /\ nextCase = 0 /\ inFlight = 0 /\ aborted = FALSE
      /\ case = [i \in Runs |-> "none"]
      /\ known = {} /\ early = {} /\ failing = {}
      /\ status = [i \in Runs |-> "none"] /\ suite = RunningSuite
  BY DEF SuiteInit
<1>2. EngineType
  <2>1. [status |-> "none", act |-> 0] \in [status : Ended \cup {"none", "pending"}, act : 0..MaxNodes]
    BY Numbers
  <2>2. [r \in Runs |-> [d \in Drains |-> IdleDrain]] \in [Runs -> [Drains -> DrainRecord]]
    BY DrainRecords
  <2> QED BY <1>1, <2>1, <2>2, Numbers DEF EngineInit, EngineType
<1>3. SuiteType
  <2>1. concurrency \in Nat /\ 0 \in 0..Cardinality(Runs)
    BY <1>1, RunNumbers
  <2>2. RunningSuite \in [status : SuiteStatus, passed : Nat, failed : Nat]
    BY DEF RunningSuite, SuiteStatus
  <2>3. /\ gen \in GenPc /\ inFlight \in 0..concurrency
        /\ case \in [Runs -> CasePc] /\ status \in [Runs -> CaseStatus]
    BY <1>1, <2>1 DEF GenPc, CasePc, CaseStatus
  <2> QED BY <1>1, <2>1, <2>2, <2>3 DEF SuiteType
<1>4. \A r \in Runs : RunInv(r)
  <2> SUFFICES ASSUME NEW r \in Runs PROVE RunInv(r)
    OBVIOUS
  <2>1. /\ record[r].status = "none" /\ queue[r] = <<>> /\ immediates[r] = 0 /\ waiter[r] = "none"
        /\ scheduled = {} /\ draining = {} /\ \A d \in Drains : drain[r][d].pc = "idle"
    BY <1>1, DrainRecords DEF EngineInit
  <2>2. OneDrain(r)
    BY <2>1 DEF OneDrain
  <2> QED BY <2>1, <2>2 DEF RunInv, DrainMatches, Carried, WaitInv
<1>5. CaseInv
  <2>1. InProgress = {}
    BY <1>1 DEF InProgress
  <2>2. \A i \in Runs : i > 0 /\ record[i].status = "none" /\ case[i] = "none"
    BY <1>1, RunNumbers DEF EngineInit
  <2> QED BY <1>1, <2>1, <2>2, FS_EmptySet DEF CaseInv
<1>6. TrackInv
  <2>1. bus = <<>> /\ bad = {}
    BY <1>1 DEF EngineInit
  <2>2. \A k, q : ~InBus(k, q)
    BY <2>1 DEF InBus
  <2>3. ASSUME NEW i \in Runs PROVE Tracked(i)
    <3>1. case[i] = "none" /\ ~Handled(i)
      BY <1>1 DEF Handled
    <3>2. Ordered(i)
      BY <2>1 DEF Ordered
    <3>3. Present(i) /\ TallyInv(i)
      BY <1>1, <2>1, <2>2, <3>1 DEF Present, TallyInv
    <3> QED BY <3>2, <3>3 DEF Tracked
  <2> QED BY <2>3 DEF TrackInv
<1>7. EndInv
  BY <1>1 DEF EndInv, Counted, CountsMatchVerdicts, RunningSuite
<1> QED BY <1>2, <1>3, <1>4, <1>5, <1>6, <1>7, TypeParts DEF Inv

LEMMA StepInv ==
  ASSUME Inv, SuiteNext
  PROVE  Inv'
<1>0. Core /\ TrackInv /\ EndInv /\ EngineType /\ \A q \in Runs : RunInv(q)
  BY TypeParts DEF Inv, Core
<1>1. Core'
  BY <1>0, CoreStep
<1>2. ASSUME Steady, late = {} => \A q \in Runs : Tracked(q) => Tracked(q)'
      PROVE  TrackInv' /\ EndInv'
  <2>1. late' = {} => late = {}
    BY <1>2 DEF Steady
  <2> QED BY <1>0, <1>2, <2>1, SteadyEnd DEF TrackInv
<1>3. ASSUME PullItem \/ AcquireSlot \/ PullEnds \/ PullThrows \/ Abort PROVE TrackInv' /\ EndInv'
  BY <1>0, <1>2, <1>3, LoopQuiet, UnseenKeeps
<1>4. ASSUME JoinThrows \/ Join \/ Finalize PROVE TrackInv' /\ EndInv'
  <2>1. late' = late /\ \A q \in Runs : Tracked(q) => Tracked(q)'
    BY <1>0, <1>4, EndQuiet, UnseenKeeps
  <2> QED BY <1>0, <1>4, <2>1, EndSteps DEF TrackInv
<1>5. ASSUME NEW i \in Runs, CaseStarts(i) \/ CaseThrows(i) PROVE TrackInv' /\ EndInv'
  BY <1>0, <1>2, <1>5, StartQuiet, UnseenKeeps
<1>6. ASSUME NEW i \in Runs, CaseAnnounces(i) \/ CaseSettles(i) PROVE TrackInv' /\ EndInv'
  BY <1>0, <1>2, <1>6, CaseSteady, StartedTracked, CompletedTracked
<1>7. ASSUME NEW i \in Runs, UNCHANGED suiteVars,
             WaitLoad(i) \/ WaitRegister(i) \/ DrainStep(i) \/ DrainFault(i)
      PROVE  TrackInv' /\ EndInv'
  <2>1. OnlyRun(i) /\ Progress(i) /\ (Quietly(i) \/ Publishes(i))
    BY <1>0, <1>7, EngineSteps
  <2> QED BY <1>0, <1>2, <1>7, <2>1, RunTracked
<1>8. ASSUME Track PROVE TrackInv' /\ EndInv'
  BY <1>0, <1>2, <1>8, HeadSteady, HeadTracked
<1>9. TrackInv' /\ EndInv'
  BY <1>3, <1>4, <1>5, <1>6, <1>7, <1>8 DEF SuiteNext, LoopStep, CaseStep, CaseWaits
<1>10. SuiteTypeOK'
  BY <1>1, TypeParts DEF Core, SuiteTypeOK, EngineType, SuiteType, DrainRecord
<1> QED BY <1>1, <1>9, <1>10 DEF Inv, Core

-----------------------------------------------------------------------------
(* The theorems. *)

LEMMA Invariance == SuiteSpec => []Inv
<1>1. ASSUME Inv, UNCHANGED allVars PROVE Inv'
  <2>1. UNCHANGED <<engineVars, suiteVars>>
    BY <1>1 DEF allVars
  <2>2. SuiteTypeOK' /\ CaseInv'
    BY <1>1, <2>1 DEF Inv, SuiteTypeOK, CaseInv, InProgress, engineVars, suiteVars
  <2>3. \A q \in Runs : RunInv(q)'
    BY <1>1, <2>1, SameKeeps DEF Inv, Same, engineVars
  <2>4. Core /\ Steady /\ \A q \in Runs : Unseen(q)
    BY <1>1, <2>1, TypeParts DEF Inv, Core, Steady, Unseen, Unpublished, engineVars, suiteVars
  <2>5. TrackInv'
    BY <1>1, <2>4, UnseenKeeps DEF Inv, TrackInv, Steady
  <2>6. EndInv'
    BY <1>1, <2>4, SteadyEnd DEF Inv
  <2> QED BY <2>2, <2>3, <2>5, <2>6 DEF Inv
<1> QED BY <1>1, InitInv, StepInv, PTL DEF SuiteSpec

\* The variables of the scheduler, the waiters, the orchestrator and the tracker have their types.
THEOREM SuiteTypes == SuiteSpec => []SuiteTypeOK
<1>1. Inv => SuiteTypeOK
  BY DEF Inv
<1> QED BY <1>1, Invariance, PTL

\* InlineDrivingScheduler never drives two activations of a run at the same time, and a run that
\* is pending has its activation queued with a drain to come, or driven, unless markNodeRunning
\* threw: the guards of scheduleDrain and drainRun and the rescheduling of the finally block hold
\* it together whatever the interleaving of the drains.
THEOREM DrainedOnce == SuiteSpec => []EachRunIsDrainedOnce
<1>1. ASSUME Inv PROVE EachRunIsDrainedOnce
  <2> SUFFICES ASSUME NEW r \in Runs
               PROVE  /\ Cardinality(Driving(r)) <= 1
                      /\ record[r].status = "pending" /\ r \notin lost =>
                           \/ record[r].act \in {queue[r][i] : i \in DOMAIN queue[r]}
                                /\ (immediates[r] > 0 \/ Driving(r) # {})
                           \/ \E d \in Driving(r) : \/ drain[r][d].act = record[r].act
                                                    \/ drain[r][d].pc = "publish"
    BY DEF EachRunIsDrainedOnce
  <2>0. OneDrain(r) /\ DrainMatches(r) /\ Carried(r) /\ queue[r] \in Seq(Acts)
    BY <1>1 DEF Inv, RunInv, SuiteTypeOK
  <2>1. Cardinality(Driving(r)) <= 1
    <3>1. CASE Driving(r) = {}
      BY <3>1, FS_EmptySet
    <3>2. CASE Driving(r) # {}
      <4>1. PICK d \in Drains : drain[r][d].pc # "idle"
        BY <3>2 DEF Driving
      <4>2. \A e \in Drains : drain[r][e].pc # "idle" => e = d
        BY <2>0, <4>1 DEF OneDrain
      <4>3. Driving(r) = {d}
        BY <4>1, <4>2 DEF Driving
      <4>4. Cardinality({d}) = 1
        BY FS_Singleton
      <4> QED BY <4>3, <4>4
    <3> QED BY <3>1, <3>2
  <2>2. ASSUME record[r].status = "pending", r \notin lost
        PROVE  \/ record[r].act \in {queue[r][i] : i \in DOMAIN queue[r]}
                    /\ (immediates[r] > 0 \/ Driving(r) # {})
               \/ \E d \in Driving(r) : \/ drain[r][d].act = record[r].act
                                        \/ drain[r][d].pc = "publish"
    <3>1. CASE queue[r] # <<>>
      <4>1. Len(queue[r]) = 1 /\ record[r] = Pending(Head(queue[r])) /\ (r \in scheduled \/ r \in draining)
        BY <2>0, <3>1 DEF OneDrain
      <4>2. 1 \in DOMAIN queue[r] /\ queue[r][1] = Head(queue[r])
        BY <2>0, <3>1, <4>1
      <4>3. record[r].act = queue[r][1]
        BY <4>1, <4>2 DEF Pending
      <4>4. immediates[r] > 0 \/ Driving(r) # {}
        BY <2>0, <4>1 DEF OneDrain, Driving
      <4> QED BY <4>2, <4>3, <4>4
    <3>2. CASE queue[r] = <<>>
      <4>1. PICK d \in Drains : \/ drain[r][d].pc = "exec"
                                \/ drain[r][d].pc = "publish" /\ drain[r][d].out = "next"
        BY <2>0, <2>2, <3>2 DEF Carried
      <4>2. drain[r][d].pc = "exec" => drain[r][d].act = record[r].act
        <5>1. drain[r][d].pc = "exec" => record[r] = Pending(drain[r][d].act)
          BY <2>0 DEF DrainMatches
        <5>2. \A a : Pending(a).act = a
          BY DEF Pending
        <5> QED BY <5>1, <5>2
      <4>3. drain[r][d].pc # "idle" /\ (drain[r][d].act = record[r].act \/ drain[r][d].pc = "publish")
        BY <4>1, <4>2
      <4>4. d \in Driving(r)
        BY <4>3 DEF Driving
      <4> QED BY <4>3, <4>4
    <3> QED BY <3>1, <3>2
  <2> QED BY <2>1, <2>2
<1> QED BY <1>1, Invariance, PTL

\* Whoever registered with EngineWaiters for a run has a drain that will answer it, unless one of
\* the listed accidents lost it, and the status it was answered with is the one that is saved.
THEOREM WaitersAnswered == SuiteSpec => []EveryWaiterAnswered
<1>1. Inv => EveryWaiterAnswered
  BY DEF Inv, RunInv, WaitInv, EveryWaiterAnswered
<1> QED BY <1>1, Invariance, PTL

\* With the bus in this process, the counters TestSuiteRunTracker writes at the end are what the
\* cases deserve, whatever the order in which cases settle and nodes publish: finalize waits for
\* the events before it, a failed assertion reaches the tracker before the case's completion, and
\* one that reaches it before the case is known is kept until the case starts.  The redis bus is
\* excluded by hypothesis, because nothing waits for the events another process delivers.
THEOREM CountsCorrect ==
  ASSUME Bus = "memory"
  PROVE  SuiteSpec => []CountsMatchVerdicts
<1>1. Inv => CountsMatchVerdicts
  BY DEF Inv, EndInv
<1> QED BY <1>1, Invariance, PTL
=============================================================================
