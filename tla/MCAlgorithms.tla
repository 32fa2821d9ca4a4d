----------------------------- MODULE MCAlgorithms -----------------------------
(* Numerals of up to two digits on each side of the dot, of three digits;  *)
(* units two apart (they are three apart in the code), so that an exponent *)
(* falls on one, between two, below the smallest and above the largest.    *)
(* The fees are powers of two, but for the legal fee: sums tell which fees *)
(* were added, and how often.                                              *)
EXTENDS Algorithms

MCNumerals == UNION {[1..k -> {0, 1, 9}] : k \in 0..2}
MCRaw == [neg : BOOLEAN, int : MCNumerals, dec : MCNumerals]
MCSortedUnits == <<-4, -2, 0, 2>>
MCAddends ==
  {[neg |-> FALSE, int |-> <<1>>, dec |-> <<>>], [neg |-> FALSE, int |-> <<9>>, dec |-> <<0, 9>>]}

MCFeeOf ==
  [inclusion |-> 1, storage |-> 2, legal |-> 40, certificate |-> 8,
   value |-> 16, collectionItem |-> 32, tokensRecord |-> 64]
MCGiven == {0, 3}
MCBalances == {0, 5, 50, 100, 150}
MCDates == {-20, -7, 0, 5, 6, 17, 40}
MCBlocks == {-2, 1, 4}
=============================================================================
