------------------------------- MODULE RunFromState -------------------------------
(***************************************************************************)
(* Runs that start from the state of an earlier run: run to a node, run    *)
(* again from a node, go on after a failure.                               *)
(*                                                                         *)
(* Modelled: CurrentStateFrontierPlanner (pinned outputs, the reset, the   *)
(* required nodes, the frontier), the start of the planned run, the stop   *)
(* condition, and the run itself (RunQueuePlanner).                        *)
(*                                                                         *)
(* Abstracted: the nodes an agent owns, which a reset clears with it; a    *)
(* state made up by the caller; the record that is left when a plan is     *)
(* refused.  Both runs execute the same workflow snapshot.  The new run    *)
(* may start from the state of a run that goes on; the old one is then as  *)
(* good as failed, since only the new one is followed.                     *)
(***************************************************************************)
EXTENDS RunQueuePlanner

CONSTANTS
  Definition,  \* the nodes in definition order
  Pinnings,    \* what can be pinned before the new run: functions like workflow.pinned
  Targets,     \* the nodes a run may be asked to stop at
  None         \* no stop node, nothing cleared

ASSUME FromStateAssumption ==
  /\ ToSet(Definition) = Nodes /\ Len(Definition) = Cardinality(Nodes)
  /\ Targets \subseteq Nodes /\ None \notin Nodes

VARIABLES
  done,     \* the nodes with a completed snapshot in the state of the run
  stop,     \* the node whose completion ends the run, or None
  round,    \* 1: the run from the trigger; 2: the run from its state
  kept,     \* history: the completed nodes the new run started with
  reached   \* history: the stop node completed

stateVars == <<done, stop, round, kept, reached>>
allVars == <<vars, stateVars>>

-----------------------------------------------------------------------------
(* CurrentStateFrontierPlanner; d is the set of completed nodes of the state. *)

Pinned == DOMAIN workflow.pinned

Satisfied(d) == d \cup Pinned
OutputsOnly(d) == Pinned \ d

RECURSIVE Descendants(_)
Descendants(n) == {n} \cup UNION {Descendants(workflow.edges[i].to) :
                                    i \in {j \in DOMAIN workflow.edges : workflow.edges[j].from = n}}

\* Variant: only the node itself is cleared.
ResetOfOne(d, n) == d \ {n}

\* What of the state a reset from n leaves: neither n nor any node below it.
AfterReset(d, n) == IF n = None THEN d ELSE d \ Descendants(n)

\* The planner's own notion of a join: executeMulti does not count.
JoinsEdges(n) == ExpectedInputs(n) # {<<"in">>} \/ Cardinality(Incoming(n)) > 1

EdgeSatisfied(d, e) ==
  /\ e.from \in Satisfied(d)
  /\ JoinsEdges(e.to) \/ Carries(e) \/ e.from \in workflow.continues

\* collectRequiredNode: n and, above it, what still has to complete or lend its pinned outputs.
RECURSIVE Required(_, _)
Required(d, n) ==
  IF n \in d THEN {}
  ELSE {n} \cup UNION {Required(d, workflow.edges[i].from) :
                         i \in {j \in Incoming(n) :
                                  \/ ~EdgeSatisfied(d, workflow.edges[j])
                                  \/ workflow.edges[j].from \in OutputsOnly(d)}}

\* Variant: of what leads to the target only its sources are required.
RequiredNear(d, target) ==
  IF target = None THEN UNION {Required(d, n) : n \in Nodes \ Satisfied(d)}
  ELSE {target} \cup {workflow.edges[i].from : i \in Incoming(target)}

RequiredFor(d, target) ==
  IF target = None THEN UNION {Required(d, n) : n \in Nodes \ Satisfied(d)} ELSE Required(d, target)

\* The required nodes that can run now, in definition order.
Frontier(d, target) ==
  LET missing == RequiredFor(d, target) \ Satisfied(d)
  IN  SelectSeq(Definition, LAMBDA n : /\ n \in missing
                                       /\ \A i \in Incoming(n) : EdgeSatisfied(d, workflow.edges[i]))

\* buildFrontierQueue: the entry of a node whose inputs the state holds.
FrontierEntry(n) ==
  LET received == [key \in ExpectedInputs(n) |->
                     \E i \in Incoming(n) : CollectKey(workflow.edges[i]) = key /\ Carries(workflow.edges[i])]
  IN  IF JoinsEdges(n) THEN Collect(n, received) ELSE Job(n, <<"in">>, received[<<"in">>])

-----------------------------------------------------------------------------
(* The runs. *)

\* The pinned nodes that SkipPinned passes over: they get a completed snapshot.
RECURSIVE PassedOver(_)
PassedOver(q) ==
  LET i == SelectInSeq(q, LAMBDA entry : entry.node \in Pinned)
  IN  IF i = 0 THEN {}
      ELSE {q[i].node} \cup
           PassedOver(ApplyOutputs(RemoveAt(q, i), q[i].node, workflow.pinned[q[i].node]))

FromInit ==
  /\ Init
  /\ done = {} /\ stop = None /\ round = 1
  /\ kept = {} /\ reached = FALSE

\* resumeFromNodeResult of the stop node: the run is completed, its queue is dropped.
CompleteStop(full) ==
  /\ \E activation \in pending :
       /\ activation.node = stop
       /\ full \subseteq Outputs(stop)
       /\ emitted' = emitted \cup ({stop} \X full)
       /\ done' = done \cup {stop}
  /\ pending' = {} /\ queue' = <<>> /\ reached' = TRUE
  /\ UNCHANGED <<workflow, store, ran, stop, round, kept>>

\* resumeFromNodeResult of another node.
CompleteNode(full) ==
  /\ \E activation \in pending :
       /\ activation.node # stop
       /\ done' = done \cup {activation.node} \cup PassedOver(ApplyOutputs(queue, activation.node, full))
  /\ Complete(full)
  /\ UNCHANGED <<stop, round, kept, reached>>

\* resumeFromNodeError: the pending node fails and the run with it.
Fail ==
  /\ round = 1 /\ pending # {}
  /\ pending' = {} /\ queue' = <<>>
  /\ UNCHANGED <<workflow, store, ran, emitted, stateVars>>

\* The outputs of some nodes are pinned in the editor, before the new run.
Pin(pins) ==
  /\ round = 1 /\ pending = {} /\ workflow.pinned = <<>>
  /\ workflow' = [workflow EXCEPT !.pinned = pins]
  /\ UNCHANGED <<store, pending, queue, ran, emitted, stateVars>>

\* runWorkflowFromState, with the state of the run so far or with none: cleared from a node if
\* one is named, up to the stop node if one is named.  A plan with several roots is refused.
StartFromState(base, from, target) ==
  /\ round = 1 /\ pending = {} /\ from \in Nodes \cup {None}
  /\ round' = 2 /\ stop' = target /\ reached' = FALSE
  /\ LET d == AfterReset(base, from)
         frontier == Frontier(d, target)
         roots == {n \in ToSet(frontier) : Incoming(n) = {}}
         q == SkipPinned([i \in DOMAIN frontier |-> FrontierEntry(frontier[i])])
         i == NextIndex(q)
     IN  /\ Cardinality(roots) <= 1
         /\ kept' = d
         /\ emitted' = {p \in emitted : p[1] \in d}
         /\ done' = d \cup (RequiredFor(d, target) \cap Pinned)
         /\ CASE roots # {} -> /\ pending' = {Activation(n, <<>>) : n \in roots} /\ queue' = <<>>
                               /\ ran' = [n \in Nodes |-> IF n \in roots THEN 1 ELSE 0]
              [] roots = {} /\ i = 0 -> /\ pending' = {} /\ queue' = <<>>
                                        /\ ran' = [n \in Nodes |-> 0]
              [] OTHER -> /\ pending' = {Activation(q[i].node, q[i].received)}
                          /\ queue' = Stored(RemoveAt(q, i))
                          /\ ran' = [n \in Nodes |-> IF n = q[i].node THEN 1 ELSE 0]
  /\ UNCHANGED <<workflow, store>>

FromNext ==
  \/ \E full \in SUBSET {"main", "alt"} : CompleteStop(full) \/ CompleteNode(full)
  \/ Fail
  \/ \E pins \in Pinnings : Pin(pins)
  \/ \E base \in {{}, done}, from \in Nodes \cup {None}, target \in Targets \cup {None} :
       StartFromState(base, from, target)

FromSpec == FromInit /\ [][FromNext]_allVars

-----------------------------------------------------------------------------
(* Properties. *)

Ended == round = 2 /\ pending = {}

\* Every source of a join completes: no branch into it is left out.
NoBranchIsLeftOut ==
  \A i \in DOMAIN workflow.edges :
    JoinsEdges(workflow.edges[i].to) => Completes[workflow.edges[i].from]

\* Without pinned outputs, a run from a state executes what the graph asks for and the state
\* lacks, and nothing the state has, wherever the first run was when it ended.  It executes all
\* of it if no branch into a join is left out: a join behind one has no entry when its other
\* sources are in the state.
RunsWhatIsMissing ==
  Ended /\ stop = None /\ Pinned = {} =>
    LET missing == {n \in Nodes : Completes[n]} \ kept
        executed == {n \in Nodes : ran[n] > 0}
    IN  executed \subseteq missing /\ (NoBranchIsLeftOut => executed = missing)

\* A run up to a node reaches it, through pinned outputs and cleared nodes, unless the state
\* holds it or nothing leads to it; and it does not go past it, unless a pinned join below the
\* node, which is skipped as soon as one branch gets there, lets another branch through.
RunsUpToTheNode ==
  /\ Ended /\ stop # None /\ NoBranchIsLeftOut =>
       reached \/ stop \in kept \cup Pinned \/ ~Completes[stop]
  /\ reached /\ (\A n \in Pinned : ~JoinsEdges(n)) =>
       \A n \in Nodes : stop \in Ancestors[n] => ran[n] = 0

\* In a run from a state too an activation gets the items of its inbound edges: a join is given
\* what the branches that ran now and the branches the state holds carry.
InputsArriveAgain == round = 2 => InputsArrive
=============================================================================
