------------------------------ MODULE RunLifecycle ------------------------------
(***************************************************************************)
(* What a run promises to those who only see its record: it waits for one  *)
(* activation at a time, moves on from it once, waits for a human in       *)
(* between, stops at its budget, and has one end.  Who continues it, what  *)
(* they read before they save and which store keeps the record is the      *)
(* subject of RunContinuation, which implements this.                      *)
(***************************************************************************)
EXTENDS Naturals

CONSTANT MaxNodeActivations

VARIABLES
  status,      \* the run's status
  activation,  \* the activation it waits for, 0 if it waits for none
  made,        \* number of activations made
  count        \* number of activations completed

vars == <<status, activation, made, count>>

Ends == {"completed", "failed", "halted"}

Init == status = "running" /\ activation = 0 /\ made = 0 /\ count = 0

\* The run waits for a new activation, never for one it has left behind.
Await == /\ made' = made + 1 /\ activation' = made'
         /\ status' = "pending"

Begin == status = "running" /\ Await /\ UNCHANGED count

Proceed == /\ status = "pending" /\ count + 1 < MaxNodeActivations
           /\ Await /\ count' = count + 1

\* The activation asks a human: the run keeps it until the decision makes another.
Suspend == status = "pending" /\ status' = "suspended" /\ UNCHANGED <<activation, made, count>>

Resume == status = "suspended" /\ Await /\ UNCHANGED count

\* The activation that ends the run counts if it completed.
End == /\ status = "pending" /\ status' \in Ends
       /\ activation' = 0 /\ count' \in {count, count + 1}
       /\ (status' = "completed" => count' = count + 1)
       /\ (status' = "halted" => count' = count)
       /\ UNCHANGED made

Next == Begin \/ Proceed \/ Suspend \/ Resume \/ End

Spec == Init /\ [][Next]_vars
=============================================================================
