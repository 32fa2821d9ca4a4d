---------------------------- MODULE MCLocsRegistry ----------------------------
(* Two clients of LocsRegistry, and the symmetry of operations in flight.  *)
EXTENDS LocsRegistry, TLC

(* Everything but cancel overlaps with everything. *)
Hasty ==
  [operations |-> {"refresh", "refreshAll", "requestLoc"}, alone |-> {}, awaited |-> FALSE]

(* Operations on one LOC are awaited; cancel and the refresh of the        *)
(* registry run alone.                                                     *)
Careful ==
  [operations |-> {"refresh", "refreshAll", "requestLoc", "cancel"},
   alone |-> {"refreshAll", "cancel"}, awaited |-> TRUE]

(* Operations on one LOC are awaited, those on different LOCs overlap. *)
Parallel == [operations |-> {"refresh", "cancel"}, alone |-> {}, awaited |-> TRUE]

HastyAndCareful == {Hasty, Careful}

ParallelOnly == {Parallel}

CallerSymmetry == Permutations(Callers)
=============================================================================
