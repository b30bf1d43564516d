-------------------------- MODULE RunContinuationMC --------------------------
(* Small workflows for RunContinuation. *)
EXTENDS RunContinuation

CONSTANTS fetch, ask, send, log

\* fetch feeds the approval node ask and the node log; ask feeds send.
BranchNodes == {fetch, ask, send, log}
BranchSucc == [n \in BranchNodes |-> CASE n = fetch -> <<ask, log>>
                                       [] n = ask -> <<send>>
                                       [] OTHER -> <<>>]

\* The same, with log's branch before the approval's.
LogFirstSucc == [BranchSucc EXCEPT ![fetch] = <<log, ask>>]

=============================================================================
