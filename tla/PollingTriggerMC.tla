--------------------------- MODULE PollingTriggerMC ---------------------------
(* Small instances of the polling trigger. *)
EXTENDS PollingTrigger

TwoCommands == {1, 2}
OneTick     == {3}
=============================================================================
