-------------------------- MODULE RunQueuePlannerMC --------------------------
(* Small workflows for RunQueuePlanner: every graph over the nodes 1..Size whose edges go  *)
(* from a smaller node to a larger one.                                                     *)
EXTENDS RunQueuePlanner

CONSTANTS
  Size,        \* number of nodes
  Branching,   \* the nodes with a second output "alt"
  JoinNodes,   \* nodes that may implement executeMulti
  ContinueNodes,  \* nodes that may continue when their output is empty
  PortNodes,   \* nodes whose inbound edges may each go to an input port of their own
  PinNodes,    \* nodes that may be pinned
  PinJoins,    \* whether a join may be pinned
  TriggerSets, \* the sets of nodes without inbound edges
  Orders       \* edge orders: "up" lists the edges by source and target, "down" reversed

MCNodes == 1..Size
Pairs == SelectSeq([k \in 1..(Size * Size) |-> <<((k - 1) \div Size) + 1, ((k - 1) % Size) + 1>>],
                   LAMBDA p : p[1] < p[2])
Ordered == [up |-> Pairs, down |-> Reverse(Pairs)]

\* wires[p]: the output that feeds p[2] from p[1], or "none".
Edges(order, wires, ports) ==
  LET wired == SelectSeq(Ordered[order], LAMBDA p : wires[p] # "none")
      port  == <<"in1", "in2", "in3", "in4">>
  IN  [i \in DOMAIN wired |-> [from |-> wired[i][1], out |-> wires[wired[i]], to |-> wired[i][2],
                               input |-> IF wired[i][2] \in ports THEN port[wired[i][1]] ELSE "in"]]

Wirings ==
  LET All == {p \in MCNodes \X MCNodes : p[1] < p[2]}
  IN  {wires \in [All -> {"none", "main", "alt"}] :
         /\ \A p \in All : wires[p] = "alt" => p[1] \in Branching
         /\ {n \in MCNodes : \A p \in All : p[2] = n => wires[p] = "none"} \in TriggerSets}

InDegree(wires, n) == Cardinality({p \in DOMAIN wires : p[2] = n /\ wires[p] # "none"})

Pins(wires, joins) ==
  {pins \in UNION {[P -> {{}, {"main"}}] : P \in SUBSET PinNodes} :
     PinJoins \/ \A n \in DOMAIN pins : n \notin joins /\ InDegree(wires, n) <= 1}

MCWorkflows ==
  UNION {{[edges |-> Edges(order, wires, ports), joins |-> joins, continues |-> continues,
           pinned |-> pins] :
            order \in Orders, ports \in SUBSET PortNodes, continues \in SUBSET ContinueNodes,
            pins \in Pins(wires, joins)} :
         wires \in Wirings, joins \in SUBSET JoinNodes}
=============================================================================
