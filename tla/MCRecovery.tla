------------------------------ MODULE MCRecovery ------------------------------
(* Recovery with failing nodes and overlapping ticks. *)
EXTENDS Recovery
=============================================================================
