---------------------------- MODULE RunQueuePlanner ----------------------------
(***************************************************************************)
(* How the planner walks the graph of one run: which node is activated     *)
(* next, with the inputs of which edges.                                   *)
(*                                                                         *)
(* Modelled: the topology, the run queue with its jobs and its collects    *)
(* (the entries of nodes that join several edges), empty-path propagation, *)
(* the sealing of incomplete collects, pinned outputs, and the trip of the *)
(* queue through the repository between two activations.                   *)
(*                                                                         *)
(* Abstracted: items (an output carries some or none), batch ids (a run    *)
(* has one) and stop conditions.  RunContinuation models what surrounds a  *)
(* planning step.  The queue keeps its order in both repositories: rows    *)
(* are reloaded by index while a run has at most ten queued entries.       *)
(***************************************************************************)
EXTENDS Integers, SequencesExt

CONSTANTS
  Nodes,      \* the executable nodes
  Root,       \* the trigger the run starts from
  Workflows,  \* the workflows: [edges, joins, continues, pinned]
  Stores      \* the repositories: "memory", "prisma"

\* edges: the edges in definition order; joins: the nodes that implement executeMulti;
\* continues: the nodes with continueWhenEmptyOutput; pinned: the pinned nodes, each with the
\* set of outputs whose pinned items are not empty.
ASSUME PlannerAssumption ==
  /\ Root \in Nodes /\ Stores \subseteq {"memory", "prisma"}
  /\ \A wf \in Workflows :
       /\ wf.joins \subseteq Nodes /\ wf.continues \subseteq Nodes
       /\ DOMAIN wf.pinned \subseteq Nodes \ {Root}
       /\ Len(wf.edges) \in Nat /\ DOMAIN wf.edges = 1..Len(wf.edges)
       /\ \A i \in DOMAIN wf.edges : wf.edges[i].from \in Nodes /\ wf.edges[i].to \in Nodes

\* validateAcyclic refuses a workflow with a cycle: some node of every set of nodes has no edge
\* from the set, and some node has none into it.
ASSUME AcyclicAssumption ==
  \A wf \in Workflows : \A S \in (SUBSET Nodes) \ {{}} :
    /\ \E n \in S : \A i \in DOMAIN wf.edges : wf.edges[i].to = n => wf.edges[i].from \notin S
    /\ \E n \in S : \A i \in DOMAIN wf.edges : wf.edges[i].from = n => wf.edges[i].to \notin S

VARIABLES
  workflow,   \* the workflow that runs
  store,      \* the repository it runs on
  pending,    \* the pending activations: one, or none when the run is completed
  queue,      \* the persisted run queue
  ran,        \* history: how often each node was activated
  emitted     \* history: the <<node, output>> pairs that carried items

vars == <<workflow, store, pending, queue, ran, emitted>>

-----------------------------------------------------------------------------
(* WorkflowTopology. *)

\* The edges, by their index, that leave each node, among the first k in definition order.
OutgoingOfFirst[k \in Nat] ==
  IF k = 0 THEN [n \in Nodes |-> <<>>]
  ELSE [OutgoingOfFirst[k - 1] EXCEPT ![workflow.edges[k].from] = Append(@, k)]

Outgoing(n) == OutgoingOfFirst[Len(workflow.edges)][n]
Incoming(n) == {i \in DOMAIN workflow.edges : workflow.edges[i].to = n}
Outputs(n)  == {workflow.edges[i].out : i \in {j \in DOMAIN workflow.edges :
                                                 workflow.edges[j].from = n}}

\* The collect key: the input port, or source and output when several edges share the port.
CollectKey(e) ==
  IF \E i, j \in Incoming(e.to) : /\ i # j /\ workflow.edges[i].input = e.input
                                  /\ workflow.edges[j].input = e.input
  THEN <<e.from, e.out>>
  ELSE <<e.input>>

ExpectedInputs(n) == {CollectKey(workflow.edges[i]) : i \in Incoming(n)}

\* Every node but those with exactly one inbound edge, into "in", collects its inputs.
UsesCollect(n) == \/ ExpectedInputs(n) # {<<"in">>}
                  \/ Cardinality(Incoming(n)) > 1
                  \/ n \in workflow.joins

-----------------------------------------------------------------------------
(* RunQueuePlanner. *)

\* received[key] says whether the items that arrived under key are some or none.
Only(key, some) == [k \in {key} |-> some]
With(received, key, some) ==
  [k \in DOMAIN received \cup {key} |-> IF k = key THEN some ELSE received[k]]

\* A queue entry: a job for a node, or a collect of the inputs it has received so far.
Job(n, key, some) ==
  [node |-> n, collect |-> FALSE, expected |-> {}, received |-> Only(key, some)]
Collect(n, received) == [node |-> n, collect |-> TRUE, expected |-> ExpectedInputs(n),
                         received |-> received]

\* The least index, or 0.
FirstOf(indices) == IF indices = {} THEN 0 ELSE Min(indices)

\* The collect of node n.
CollectOf(q, n) == FirstOf({i \in DOMAIN q : q[i].collect /\ q[i].node = n})

\* Variants: every input gets a collect of its own; the input a collect is created for is not
\* recorded; an empty input counts as items.
ReceiveAnew(q, e, some) == Append(q, Collect(e.to, Only(CollectKey(e), some)))
ReceiveNothing(q, e, some) ==
  LET i == CollectOf(q, e.to)
  IN  IF i = 0 THEN Append(q, Collect(e.to, <<>>))
      ELSE [q EXCEPT ![i].received = With(@, CollectKey(e), some)]
ReceiveAlways(q, e, some) ==
  LET i == CollectOf(q, e.to)
  IN  IF i = 0 THEN Append(q, Collect(e.to, Only(CollectKey(e), TRUE)))
      ELSE [q EXCEPT ![i].received = With(@, CollectKey(e), TRUE)]

\* The collect of the edge's target receives the edge's items.
Receive(q, e, some) ==
  LET i == CollectOf(q, e.to)
  IN  IF i = 0 THEN Append(q, Collect(e.to, Only(CollectKey(e), some)))
      ELSE [q EXCEPT ![i].received = With(@, CollectKey(e), some)]

\* enqueueEdge for the first edge of the agenda, while the outputs of n are applied; full is
\* the set of outputs with items.  An empty path goes on along the edges behind it
\* (propagateEmptyPath), before the rest of the agenda.
EnqueueEdge(walk, n, full) ==
  LET e    == workflow.edges[Head(walk.agenda)]
      rest == Tail(walk.agenda)
      some == e.from = n /\ e.out \in full
  IN  IF UsesCollect(e.to) THEN [queue |-> Receive(walk.queue, e, some), agenda |-> rest]
      ELSE IF some \/ n \in workflow.continues
      THEN [queue |-> Append(walk.queue, Job(e.to, CollectKey(e), some)), agenda |-> rest]
      ELSE [queue |-> walk.queue, agenda |-> Outgoing(e.to) \o rest]

\* The queue and the agenda after k edges.
Walk(q, n, full) ==
  LET walk[k \in Nat] ==
        IF k = 0 THEN [queue |-> q, agenda |-> Outgoing(n)]
        ELSE LET before == walk[k - 1]
             IN  IF before.agenda = <<>> THEN before ELSE EnqueueEdge(before, n, full)
  IN  walk

\* applyOutputs.  Only a node with one inbound edge is passed over, so no edge is walked twice.
ApplyOutputs(q, n, full) == Walk(q, n, full)[Len(workflow.edges)].queue

\* applyPinnedQueueSkips: replace the first entry of a pinned node by the edges of its pinned
\* outputs, until no such entry is left.
PinnedAt(q) == FirstOf({i \in DOMAIN q : q[i].node \in DOMAIN workflow.pinned})

Skips(q) ==
  LET skips[k \in Nat] ==
        IF k = 0 THEN q
        ELSE LET before == skips[k - 1]
                 i == PinnedAt(before)
             IN  IF i = 0 THEN before
                 ELSE ApplyOutputs(RemoveAt(before, i), before[i].node, workflow.pinned[before[i].node])
  IN  skips

\* An entry is skipped once for each way to its node at most: once for a set of edges.
MostSkips(q) == Len(q) * Cardinality(SUBSET DOMAIN workflow.edges)

SkipPinned(q) ==
  Skips(q)[CHOOSE k \in 0..MostSkips(q) : PinnedAt(Skips(q)[k]) = 0 \/ k = MostSkips(q)]

\* Variant: a collect is ready with its first input.
ReadyAtOnce(q) == FirstOf({i \in DOMAIN q : q[i].collect})

\* The first collect that has received all its inputs.
Ready(q) ==
  FirstOf({i \in DOMAIN q : q[i].collect /\ q[i].expected \subseteq DOMAIN q[i].received})

\* Variant: incomplete collects are left behind.
NextUnsealed(q) ==
  IF Ready(q) # 0 THEN Ready(q) ELSE FirstOf({i \in DOMAIN q : ~q[i].collect})

\* nextActivation: a ready collect, else the first job, else the first collect, sealed.
NextIndex(q) ==
  LET job == FirstOf({i \in DOMAIN q : ~q[i].collect})
  IN  CASE Ready(q) # 0 -> Ready(q)
        [] Ready(q) = 0 /\ job # 0 -> job
        [] OTHER -> IF q = <<>> THEN 0 ELSE 1

\* The queue as it is read back: the in-memory repository keeps the entries, the other one
\* keeps of each entry the inputs it has received.
Reloaded(entry) ==
  LET received == DOMAIN entry.received
  IN  IF Cardinality(received) <= 1
      THEN [entry EXCEPT !.collect = FALSE, !.expected = {}]
      ELSE [entry EXCEPT !.collect = TRUE, !.expected = received]
Stored(q) == IF store = "memory" THEN q ELSE [i \in DOMAIN q |-> Reloaded(q[i])]

-----------------------------------------------------------------------------
(* The run. *)

\* The activation of a node, and the keys of its inputs that carry items.
Activation(n, received) == [node |-> n, inputs |-> {k \in DOMAIN received : received[k]}]

\* runWorkflow from the trigger: it is the pending activation, the queue is empty.
Init ==
  /\ workflow \in Workflows /\ store \in Stores
  /\ pending = {Activation(Root, <<>>)}
  /\ queue = <<>>
  /\ ran = [n \in Nodes |-> IF n = Root THEN 1 ELSE 0]
  /\ emitted = {}

\* resumeFromNodeResult: the pending node emitted items on the outputs full.
Complete(full) ==
  /\ pending # {}
  /\ \E activation \in pending :
       LET n == activation.node
           q == SkipPinned(ApplyOutputs(queue, n, full))
           i == NextIndex(q)
       IN  /\ full \subseteq Outputs(n)
           /\ emitted' = emitted \cup ({n} \X full)
           /\ IF i = 0
              THEN pending' = {} /\ queue' = <<>> /\ UNCHANGED ran
              ELSE /\ pending' = {Activation(q[i].node, q[i].received)}
                   /\ queue' = Stored(RemoveAt(q, i))
                   /\ ran' = [ran EXCEPT ![q[i].node] = @ + 1]
  /\ UNCHANGED <<workflow, store>>

Next == \E full \in SUBSET {"main", "alt"} : Complete(full)

Spec == Init /\ [][Next]_vars

-----------------------------------------------------------------------------
(* What the graph asks for. *)

\* The nodes with a path to n.
Ancestors[n \in Nodes] ==
  UNION {{workflow.edges[i].from} \cup Ancestors[workflow.edges[i].from] : i \in Incoming(n)}

\* An edge carries items.
Carries(e) == IF e.from \in DOMAIN workflow.pinned THEN e.out \in workflow.pinned[e.from]
              ELSE <<e.from, e.out>> \in emitted

\* A join completes when it can be reached from the trigger; another node when its source
\* completed and gave it items, or is allowed to continue without.
Completes[n \in Nodes] ==
  \/ n = Root
  \/ UsesCollect(n) /\ Root \in Ancestors[n]
  \/ /\ ~UsesCollect(n)
     /\ \E i \in Incoming(n) :
          LET e == workflow.edges[i]
          IN  Completes[e.from] /\ (Carries(e) \/ e.from \in workflow.continues)

-----------------------------------------------------------------------------
(* Properties. *)

\* The variables have the types their declarations say.
TypeOK ==
  /\ Cardinality(pending) <= 1 /\ \A activation \in pending : activation.node \in Nodes
  /\ \A i \in DOMAIN queue : queue[i].node \in Nodes /\ DOMAIN queue[i].received # {}
  /\ ran \in [Nodes -> Nat]
  /\ emitted \subseteq Nodes \X {"main", "alt"}

\* In a graph without cycles a node is activated once, however many paths lead to it and
\* however the branches interleave: a join is neither activated per input nor again when a
\* late input arrives.
ActivatedOnce == \A n \in Nodes : ran[n] <= 1

\* Nodes execute in graph order: after a node was activated, none of its ancestors is. This is
\* what "only activate when required inputs are satisfied" comes to.
GraphOrder ==
  [][ \A n \in Nodes : ran'[n] > ran[n] => \A m \in Nodes : n \in Ancestors[m] => ran[m] = 0 ]_vars

\* An activation gets exactly the items its inbound edges carried: a join loses none that
\* arrived before, and an edge whose source has nothing to say adds none.
InputsArrive ==
  \A activation \in pending :
    activation.inputs = {CollectKey(workflow.edges[i]) :
                          i \in {j \in Incoming(activation.node) :
                                   /\ Carries(workflow.edges[j])
                                   /\ Completes[workflow.edges[j].from]}}

\* When the run completes, the nodes that ran are those the graph and the emitted items ask
\* for: the queue neither forgets a branch nor wakes one whose path is empty.
RanWhatItShould ==
  pending = {} => {n \in Nodes : ran[n] > 0} = {n \in Nodes : Completes[n]} \ DOMAIN workflow.pinned
=============================================================================
