------------------------------ MODULE RunFromStateMC ------------------------------
(* Small workflows for RunFromState. *)
EXTENDS RunFromState, RunQueuePlannerMC

CONSTANT RePins  \* the nodes that may be pinned before the run from the state

MCDefinition == [i \in 1..Size |-> i]
MCPinnings == UNION {[P -> {{}, {"main"}}] : P \in (SUBSET RePins) \ {{}}}
=============================================================================
