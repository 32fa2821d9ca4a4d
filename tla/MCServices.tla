------------------------------ MODULE MCServices ------------------------------
(* Two votes, two callers; two nodes, two http clients; two addresses; two *)
(* workloads and three readers.                                            *)
EXTENDS Services, TLC

CONSTANTS n1, n2, h1, h2, c1, c2, r1, r2, r3

MCVoteIds == 1..2
MCVoteCallers == {c1, c2}
MCNodeSet == {n1, n2}
MCHttpClients == {h1, h2}
MCAddresses == {"alice", "bob"}
MCWorkloads == 1..2
MCReaders == {r1, r2, r3}

(* The properties are invariants, and treat the members of each alike. *)
MCSymmetry ==
  Permutations(MCVoteCallers) \union Permutations(MCNodeSet)
    \union Permutations(MCHttpClients)
=============================================================================
