---------------------------- MODULE MCSubmission ------------------------------
(* The instances of Submission that the runs explore: one chain whose      *)
(* forks never change an outcome, checked against the contract, and one    *)
(* where they may, checked for settlement.                                 *)
EXTENDS Submission
=============================================================================
