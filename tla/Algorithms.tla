------------------------------ MODULE Algorithms ------------------------------
(***************************************************************************)
(* The computations that keep no state of the system: amounts, estimates,  *)
(* terms.  A behaviour is about one of them.                               *)
(***************************************************************************)
EXTENDS Numbers, Estimates, Terms

VARIABLE
  about  \* the computation this behaviour is about

algorithmsVars == <<about, numbersVars, estimatesVars, termsVars>>

AlgorithmsInit ==
  /\ about \in {"numbers", "estimates", "terms"}
  /\ EstimatesInit /\ TermsInit
  /\ IF about = "numbers" THEN NumbersInit
     ELSE /\ coefficient = Normalize([neg |-> FALSE, int |-> <<>>, dec |-> <<>>])
          /\ tenExponent = Smallest /\ worth = 0 /\ additions = 0 /\ fitted = 0

OnNumbers ==
  /\ about = "numbers" /\ NumbersNext
  /\ UNCHANGED <<about, estimatesVars, termsVars>>

OnEstimates ==
  /\ about = "estimates" /\ EstimatesNext
  /\ UNCHANGED <<about, numbersVars, termsVars>>

OnTerms ==
  /\ about = "terms" /\ TermsNext
  /\ UNCHANGED <<about, numbersVars, estimatesVars>>

AlgorithmsNext == OnNumbers \/ OnEstimates \/ OnTerms

AlgorithmsSpec == AlgorithmsInit /\ [][AlgorithmsNext]_algorithmsVars
=============================================================================
