------------------------- MODULE SubmissionContract --------------------------
(***************************************************************************)
(* What a caller of Signer.signAndSend (packages/client/src/Signer.ts:52)  *)
(* relies on, whatever happens between the signer, the node and the chain: *)
(* the extrinsic takes effect or never will, and the promise, if it        *)
(* settles, tells which of the two.                                        *)
(***************************************************************************)
VARIABLES
  effect,   \* of the extrinsic: "open", then "applied" or "void" for good
  outcome   \* of the promise: "pending", then "resolved" or "rejected"

vars == <<effect, outcome>>

Init == effect = "open" /\ outcome = "pending"

(* The chain decides. *)
Decide ==
  /\ effect = "open"
  /\ effect' \in {"applied", "void"}
  /\ UNCHANGED outcome

(* The extrinsic never reaches the chain, and its caller is told so. *)
Refuse ==
  /\ effect = "open" /\ outcome = "pending"
  /\ effect' = "void" /\ outcome' = "rejected"

Resolve ==
  /\ outcome = "pending" /\ effect = "applied"
  /\ outcome' = "resolved"
  /\ UNCHANGED effect

Reject ==
  /\ outcome = "pending" /\ effect = "void"
  /\ outcome' = "rejected"
  /\ UNCHANGED effect

Next == Decide \/ Refuse \/ Resolve \/ Reject

Spec == Init /\ [][Next]_vars
=============================================================================
