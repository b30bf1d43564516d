----------------------------- MODULE HumanTaskMC -----------------------------
(* Two approvals in a row. *)
EXTENDS HumanTask

CONSTANTS first, second

TwoNodes == {first, second}
TwoSucc == [n \in TwoNodes |-> IF n = first THEN <<second>> ELSE <<>>]
=============================================================================
