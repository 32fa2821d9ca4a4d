---------------------------- MODULE MCStateChain ----------------------------
(* Instances of StateChain for TLC. *)
EXTENDS StateChain, TLC

(* Callers are interchangeable. *)
CallerSymmetry == Permutations(Callers)
=============================================================================
