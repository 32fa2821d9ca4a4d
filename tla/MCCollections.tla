---------------------------- MODULE MCCollections -----------------------------
(* Every kind of operation of LocOperations, under crashes and losses, and *)
(* a reader for what is added to a collection.                             *)
EXTENDS Collections
=============================================================================
