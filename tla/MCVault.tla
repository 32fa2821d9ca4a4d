------------------------------- MODULE MCVault --------------------------------
(* Two transfers with the same call, and operations that overlap.          *)
EXTENDS Vault, TLC

Similars == [t \in Transfers |-> "call"]

OperationSymmetry == Permutations(Operations)
=============================================================================
