---------------------------- MODULE CompareAndSet ----------------------------
(***************************************************************************)
(* What the class State promises to a client that shares one evolving      *)
(* state between several pending operations: optimistic concurrency on a   *)
(* single cell.  An operation remembers the version it began with, and     *)
(* moves the cell only if the cell still holds that version.  A cell may   *)
(* be closed; nothing moves it afterwards.                                 *)
(***************************************************************************)
EXTENDS Naturals

CONSTANTS
  Callers,    \* pending operations' identities
  MaxVersion  \* bound: versions a cell may go through

VARIABLES
  cell,       \* the current version, or Closed
  seen,       \* what each operation in flight began with, or Closed when idle
  verdict     \* how each caller's last operation ended

vars == <<cell, seen, verdict>>

Versions == 1..MaxVersion
Closed   == 0

Verdicts == {"none", "committed", "conflict", "aborted", "closed"}

TypeOK ==
  /\ cell \in Versions \cup {Closed}
  /\ seen \in [Callers -> Versions \cup {Closed}]
  /\ verdict \in [Callers -> Verdicts]

Init ==
  /\ cell \in Versions
  /\ seen = [c \in Callers |-> Closed]
  /\ verdict = [c \in Callers |-> "none"]

(* A newer version: versions are never reused. *)
Advance ==
  /\ cell # Closed
  /\ cell' \in Versions
  /\ cell' > cell

Begin(c) ==
  /\ seen[c] = Closed
  /\ cell # Closed
  /\ seen' = [seen EXCEPT ![c] = cell]
  /\ UNCHANGED <<cell, verdict>>

End(c, v) ==
  /\ seen' = [seen EXCEPT ![c] = Closed]
  /\ verdict' = [verdict EXCEPT ![c] = v]

(* The successful compare-and-set. *)
Commit(c) ==
  /\ seen[c] = cell
  /\ Advance
  /\ End(c, "committed")

(* The failed compare-and-set: another operation moved the cell. *)
Conflict(c) ==
  /\ seen[c] # Closed
  /\ seen[c] # cell
  /\ UNCHANGED cell
  /\ End(c, "conflict")

(* The operation's own work failed. *)
Abort(c) ==
  /\ seen[c] # Closed
  /\ UNCHANGED cell
  /\ End(c, "aborted")

(* A closing operation closes the version it began with, whether its work  *)
(* succeeded or not.                                                       *)
Close(c) ==
  /\ seen[c] # Closed
  /\ seen[c] = cell
  /\ cell' = Closed
  /\ \E v \in {"committed", "aborted"} : End(c, v)

(* An operation without a pause between reading and setting the cell. *)
Swap(c) ==
  /\ seen[c] = Closed
  /\ \/ Advance
     \/ cell # Closed /\ cell' = Closed
  /\ End(c, "committed")

(* An operation that has no effect on the cell. *)
Refuse(c) ==
  /\ seen[c] = Closed
  /\ UNCHANGED cell
  /\ \/ End(c, "aborted")
     \/ cell = Closed /\ End(c, "closed")

Next ==
  \E c \in Callers :
    Begin(c) \/ Commit(c) \/ Conflict(c) \/ Abort(c) \/ Close(c) \/ Swap(c) \/ Refuse(c)

Spec == Init /\ [][Next]_vars
=============================================================================
