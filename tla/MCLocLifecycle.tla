---------------------------- MODULE MCLocLifecycle ----------------------------
(* Nothing to add: the users are three, the LOC and the item one.          *)
EXTENDS LocLifecycle
=============================================================================
