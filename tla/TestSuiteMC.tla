----------------------------- MODULE TestSuiteMC -----------------------------
(* Small suites. *)
EXTENDS TestSuite

TwoCases == 1..2
=============================================================================
