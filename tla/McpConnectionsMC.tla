--------------------------- MODULE McpConnectionsMC ---------------------------
(* Values of the constants for TLC: the first agent is in the API and asks for the first       *)
(* server; the second asks for it too, for another one, or in the worker.                      *)
EXTENDS McpConnections, TLC

CONSTANTS r1, r2, s1, s2

TwoAgents == { << r1 :> "api" @@ r2 :> h, r1 :> s1 @@ r2 :> s >> :
                 <<h, s>> \in {<<"api", s1>>, <<"api", s2>>, <<"worker", s1>>} }
=============================================================================
