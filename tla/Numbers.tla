------------------------------- MODULE Numbers -------------------------------
(***************************************************************************)
(* packages/node-api/src/numbers.ts and Currency.ts: decimal numbers kept  *)
(* as digits, scaled by a power of ten or a unit prefix, and the LGNT      *)
(* amounts made of them.                                                   *)
(*                                                                         *)
(* An amount is built, converted, rescaled, negated, added to, in any      *)
(* order; what it is worth, in the smallest unit, is counted aside.        *)
(***************************************************************************)
EXTENDS Integers, Sequences, SequencesExt

CONSTANTS
  Raw,          \* numerals as they are given: sign, digits before and after the dot
  SortedUnits,  \* SORTED_UNITS: their ten exponents, in increasing order
  MaxDigits,    \* bound: digits that optimizeScale is asked for
  Addends,      \* those that are added
  MaxAdditions  \* bound: additions made

Digit == 0..9

Numerals == [neg : BOOLEAN, int : Seq(Digit), dec : Seq(Digit)]

ASSUME NumbersAssumption ==
  /\ SortedUnits \in Seq(Int) /\ SortedUnits # <<>>
  /\ \A i, j \in 1..Len(SortedUnits) : i < j => SortedUnits[i] < SortedUnits[j]
  /\ Raw \subseteq Numerals /\ Addends \subseteq Raw
  /\ MaxDigits \in Nat \ {0} /\ MaxAdditions \in Nat

VARIABLES
  coefficient,  \* its NormalizedNumber
  tenExponent,  \* its prefix
  worth,        \* what it should be worth, in the smallest unit
  additions,    \* additions made
  fitted        \* the digits it was just fitted to by optimizeScale, or 0

numbersVars == <<coefficient, tenExponent, worth, additions, fitted>>

Smallest == SortedUnits[1]
Largest == SortedUnits[Len(SortedUnits)]

Zeros(n) == [i \in 1..n |-> 0]

TenTo[n \in Nat] == IF n = 0 THEN 1 ELSE 10 * TenTo[n - 1]

-----------------------------------------------------------------------------
(* NormalizedNumber *)

ZeroStripLeft(digits) ==
  LET kept == {i \in 1..Len(digits) : digits[i] # 0} IN
  IF kept = {} THEN <<>>
  ELSE SubSeq(digits, CHOOSE i \in kept : \A j \in kept : i <= j, Len(digits))

ZeroStripRight(digits) == Reverse(ZeroStripLeft(Reverse(digits)))

Normalize(raw) ==
  LET int == ZeroStripLeft(raw.int)
      dec == ZeroStripRight(raw.dec) IN
  [neg |-> raw.neg /\ (int # <<>> \/ dec # <<>>), int |-> int, dec |-> dec]

IsZero(num) == num.int = <<>> /\ num.dec = <<>>

Negate(num) == IF IsZero(num) THEN num ELSE [num EXCEPT !.neg = ~@]

(* toFixedPrecisionDecimals *)
FixedDecimals(num, decimals) ==
  SubSeq(num.dec \o Zeros(decimals), 1, decimals)

-----------------------------------------------------------------------------
(* ScientificNumber *)

(* Mutant of ShiftRight: decimals that are shorter are not padded. *)
ShiftUnpadded(num, by) ==
  LET kept == IF Len(num.dec) < by THEN Len(num.dec) ELSE by IN
  [num EXCEPT !.int = @ \o SubSeq(num.dec, 1, kept), !.dec = SubSeq(@, kept + 1, Len(@))]

(* shiftDecimalSeparator, to the right. *)
ShiftRight(num, by) ==
  IF Len(num.dec) <= by
  THEN [num EXCEPT !.int = @ \o num.dec \o Zeros(by - Len(num.dec)), !.dec = <<>>]
  ELSE [num EXCEPT !.int = @ \o SubSeq(num.dec, 1, by), !.dec = SubSeq(@, by + 1, Len(@))]

(* shiftDecimalSeparator, to the left. *)
ShiftLeft(num, by) ==
  LET pivot == Len(num.int) - by IN
  IF pivot <= 0
  THEN [num EXCEPT !.int = <<>>, !.dec = Zeros(-pivot) \o num.int \o @]
  ELSE [num EXCEPT !.int = SubSeq(@, 1, pivot), !.dec = SubSeq(num.int, pivot + 1, Len(num.int)) \o @]

(* convertTo *)
Convert(num, from, to) ==
  Normalize(IF from >= to THEN ShiftRight(num, from - to) ELSE ShiftLeft(num, to - from))

(* optimizeScale: the exponent at which the number has the digits wanted.  *)
OptimalExponent(num, exponent, maxDigits) ==
  IF num.int # <<>> THEN exponent + Len(num.int) - maxDigits
  ELSE LET relevant == ZeroStripLeft(num.dec) IN
       IF Len(num.dec) > Len(relevant) THEN exponent + Len(relevant) - Len(num.dec) - 1
       ELSE exponent

-----------------------------------------------------------------------------
(* closestPrefix: the binary search, then the choice of the neighbour. *)
Candidate(exponent) ==
  LET n == Len(SortedUnits)
      search[range \in (0..n) \X (0..n)] ==
        LET from == range[1]
            to   == range[2]
            next == from + (to - from) \div 2 IN
        IF to - from <= 1 THEN from
        ELSE IF SortedUnits[next + 1] > exponent THEN search[<<from, next>>]
        ELSE IF SortedUnits[next + 1] < exponent THEN search[<<next, to>>]
        ELSE next
  IN search[<<0, n>>]

ClosestPrefix(exponent) ==
  LET candidate == Candidate(exponent) IN
  IF candidate >= Len(SortedUnits) - 1 THEN Largest
  ELSE IF SortedUnits[candidate + 1] >= exponent THEN SortedUnits[candidate + 1]
  ELSE SortedUnits[candidate + 2]

-----------------------------------------------------------------------------
(* Integers, as BN and BigInt read and write them. *)
Value(digits) ==
  LET upTo[i \in 0..Len(digits)] == IF i = 0 THEN 0 ELSE 10 * upTo[i - 1] + digits[i]
  IN upTo[Len(digits)]

ToInteger(num) == IF num.neg THEN -Value(num.int) ELSE Value(num.int)

Digits[n \in Nat] == IF n < 10 THEN <<n>> ELSE Append(Digits[n \div 10], n % 10)

FromInteger(n) ==
  Normalize([neg |-> n < 0, int |-> Digits[IF n < 0 THEN -n ELSE n], dec |-> <<>>])

(* Lgnt.canonical, in the smallest unit; BigInt refuses decimals. *)
Canonical(num, exponent) == ToInteger(Convert(num, exponent, Smallest))

HasCanonical(num, exponent) == Convert(num, exponent, Smallest).dec = <<>>

-----------------------------------------------------------------------------
(* What it should be worth, digit by digit. *)
Weighed(digits, place) ==
  LET sum[i \in 0..Len(digits)] ==
        IF i = 0 THEN 0
        ELSE sum[i - 1] + (IF digits[i] = 0 THEN 0 ELSE digits[i] * TenTo[place - i])
  IN sum[Len(digits)]

Worth(raw, exponent) ==
  LET abs == Weighed(raw.int \o raw.dec, Len(raw.int) + exponent - Smallest) IN
  IF raw.neg THEN -abs ELSE abs

(* A numeral without digits below the smallest unit: BN and BigInt do not  *)
(* read others.                                                            *)
Representable(raw, exponent) ==
  \A i \in 1..Len(raw.dec) : raw.dec[i] # 0 => exponent - i >= Smallest

(* Lgnt.from and new PrefixedNumber *)
NumbersInit ==
  \E raw \in Raw, unit \in Range(SortedUnits) :
    /\ Representable(raw, unit)
    /\ coefficient = Normalize(raw)
    /\ tenExponent = unit
    /\ worth = Worth(raw, unit)
    /\ additions = 0
    /\ fitted = 0

ConvertTo(unit) ==
  /\ unit # tenExponent
  /\ coefficient' = Convert(coefficient, tenExponent, unit)
  /\ tenExponent' = unit
  /\ fitted' = 0
  /\ UNCHANGED <<worth, additions>>

OptimizeScale(maxDigits) ==
  LET unit == ClosestPrefix(OptimalExponent(coefficient, tenExponent, maxDigits)) IN
  /\ coefficient' = Convert(coefficient, tenExponent, unit)
  /\ tenExponent' = unit
  /\ fitted' = maxDigits
  /\ UNCHANGED <<worth, additions>>

NegateAmount ==
  /\ coefficient' = Negate(coefficient)
  /\ worth' = -worth
  /\ fitted' = 0
  /\ UNCHANGED <<tenExponent, additions>>

(* PrefixedNumber.add, or subtract: by way of the smallest unit. *)
Add(raw, unit, negated) ==
  LET other == IF negated THEN Negate(Normalize(raw)) ELSE Normalize(raw)
      sum   == Canonical(coefficient, tenExponent) + Canonical(other, unit) IN
  /\ Representable(raw, unit)
  /\ additions < MaxAdditions
  /\ additions' = additions + 1
  /\ coefficient' = Convert(FromInteger(sum), Smallest, tenExponent)
  /\ worth' = worth + (IF negated THEN -Worth(raw, unit) ELSE Worth(raw, unit))
  /\ fitted' = 0
  /\ UNCHANGED tenExponent

NumbersNext ==
  \/ \E unit \in Range(SortedUnits) : ConvertTo(unit)
  \/ \E maxDigits \in 1..MaxDigits : OptimizeScale(maxDigits)
  \/ NegateAmount
  \/ \E raw \in Addends, unit \in Range(SortedUnits), negated \in BOOLEAN : Add(raw, unit, negated)

-----------------------------------------------------------------------------
(* LgntFormatter.format shows the amount cut after so many decimals. *)
Shown(decimals) ==
  Worth([coefficient EXCEPT !.dec = FixedDecimals(coefficient, decimals)], tenExponent)

(* Whatever was done to an amount, it is worth what it should be, to the   *)
(* last digit; it is written in one way only; fitted to so many digits, it *)
(* has no more before the dot, unless there is no larger unit; and it is   *)
(* shown cut towards zero, by less than the last decimal.                  *)
AmountsAreExact ==
  /\ Canonical(coefficient, tenExponent) = worth
  /\ HasCanonical(coefficient, tenExponent)
  /\ coefficient = Normalize(coefficient)
  /\ fitted > 0 => Len(coefficient.int) <= fitted \/ tenExponent = Largest
  /\ \A decimals \in 0..(tenExponent - Smallest) :
       LET lost == IF worth < 0 THEN Shown(decimals) - worth ELSE worth - Shown(decimals) IN
       0 <= lost /\ lost < TenTo[tenExponent - decimals - Smallest]
=============================================================================
