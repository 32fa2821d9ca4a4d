------------------------------ MODULE Estimates ------------------------------
(***************************************************************************)
(* packages/node-api/src/FeesEstimator.ts and ChainTime.ts, with           *)
(* packages/client/src/Fees.ts: what operations will cost, and when blocks *)
(* will be made.  Estimates are added and multiplied; a time is derived    *)
(* from another one, by a date or by a block, as often as one likes.       *)
(***************************************************************************)
EXTENDS Integers, FiniteSetsExt

CONSTANTS
  FeeOf,         \* what the chain answers, per kind of fee
  Given,         \* legal and value fees that a caller may give
  MaxFees,       \* bound: estimates put together
  Balances,      \* free balances
  Existential,   \* existentialDeposit
  BlockTime,     \* twice minimumPeriod
  Dates, Blocks, \* what times are derived from
  MaxHops        \* bound: times derived, one from the other

FeeKinds == {"inclusion", "storage", "legal", "certificate", "value", "collectionItem", "tokensRecord"}

ASSUME EstimatesAssumption ==
  /\ FeeOf \in [FeeKinds -> Nat] /\ Given \subseteq Nat
  /\ Balances \subseteq Nat /\ Existential \in Nat /\ BlockTime \in Nat \ {0}
  /\ Dates \subseteq Int /\ Blocks \subseteq Int

VARIABLES
  fees,        \* a Fees: an amount per kind, or Undefined
  due,         \* the estimates that were put together: of each kind, the sum, and whether any had it
  estimates,   \* how many
  time, block, \* a ChainTime
  hops         \* how it was derived from ChainTime.now: dates, and all

estimatesVars == <<fees, due, estimates, time, block, hops>>

Undefined == -1

OfKinds(kinds) == [k \in FeeKinds |-> IF k \in kinds THEN FeeOf[k] ELSE Undefined]

-----------------------------------------------------------------------------
(* Fees *)

OrZero(fee) == IF fee = Undefined THEN 0 ELSE fee

TotalFee(f) ==
  f["inclusion"] + OrZero(f["storage"]) + OrZero(f["legal"]) + OrZero(f["certificate"])
    + OrZero(f["value"]) + OrZero(f["collectionItem"]) + OrZero(f["tokensRecord"])

(* Mutant of AddFee: nothing, when one of the two has no such fee. *)
AddFeeOfBoth(fee1, fee2) ==
  IF fee1 # Undefined /\ fee2 # Undefined THEN fee1 + fee2 ELSE Undefined

AddFee(fee1, fee2) ==
  IF fee1 # Undefined /\ fee2 # Undefined THEN fee1 + fee2
  ELSE IF fee1 # Undefined THEN fee1 ELSE fee2

MultiplyFee(fee, times) == IF fee = Undefined THEN Undefined ELSE fee * times

(* FeesEstimator: the fees of each extrinsic; LOCs have a default legal fee. *)
Estimated ==
  {OfKinds({"inclusion"}), OfKinds({"inclusion", "storage"}),
   OfKinds({"inclusion", "storage", "certificate", "collectionItem"}),
   OfKinds({"inclusion", "storage", "tokensRecord"})}
  \union
  {[OfKinds({"inclusion", "legal"} \union stored) EXCEPT
      !["legal"] = IF legal = Undefined THEN @ ELSE legal, !["value"] = value] :
     stored \in {{}, {"storage"}}, legal \in Given \union {Undefined}, value \in Given \union {Undefined}}

(* toFeesClass: what a backend charged. *)
Charged == {[k \in FeeKinds |-> IF k \in kinds \union {"inclusion"} THEN FeeOf[k] ELSE Undefined] :
              kinds \in SUBSET FeeKinds}

Sum(amounts) == MapThenSumSet(LAMBDA k : amounts[k].amount, FeeKinds)

Put(f, owed) ==
  [k \in FeeKinds |-> [amount |-> owed[k].amount + OrZero(f[k]),
                       any |-> owed[k].any \/ f[k] # Undefined]]

NothingDue == [k \in FeeKinds |-> [amount |-> 0, any |-> k = "inclusion"]]

(* Fees.zero, and ChainTime.now at the origin. *)
EstimatesInit ==
  /\ fees = [k \in FeeKinds |-> IF k = "inclusion" THEN 0 ELSE Undefined]
  /\ due = NothingDue
  /\ estimates = 0
  /\ time = 0 /\ block = 0
  /\ hops = [dates |-> 0, all |-> 0]

(* Fees.add, as in addAll. *)
AddFees(f) ==
  /\ estimates < MaxFees
  /\ estimates' = estimates + 1
  /\ fees' = [k \in FeeKinds |-> AddFee(fees[k], f[k])]
  /\ due' = Put(f, due)
  /\ UNCHANGED <<time, block, hops>>

(* Fees.multiply *)
MultiplyFees(times) ==
  /\ estimates < MaxFees
  /\ estimates' = estimates + 1
  /\ fees' = [k \in FeeKinds |-> MultiplyFee(fees[k], times)]
  /\ due' = [k \in FeeKinds |-> [due[k] EXCEPT !.amount = @ * times]]
  /\ UNCHANGED <<time, block, hops>>

(* ensureEnoughFunds *)
EnoughFunds(free) == free - Existential >= TotalFee(fees)

-----------------------------------------------------------------------------
(* ChainTime: the division of BigInts cuts towards zero. *)

DividedBy(n, by) == IF n >= 0 THEN n \div by ELSE -((-n) \div by)

AtDate(date) ==
  /\ hops.all < MaxHops
  /\ block' = block + DividedBy(date - time, BlockTime)
  /\ time' = date
  /\ hops' = [dates |-> hops.dates + 1, all |-> hops.all + 1]
  /\ UNCHANGED <<fees, due, estimates>>

AtBlock(number) ==
  /\ hops.all < MaxHops
  /\ time' = time + (number - block) * BlockTime
  /\ block' = number
  /\ hops' = [hops EXCEPT !.all = @ + 1]
  /\ UNCHANGED <<fees, due, estimates>>

EstimatesNext ==
  \/ /\ hops.all = 0
     /\ \/ \E f \in Estimated \union Charged : AddFees(f)
        \/ \E times \in 0..3 : MultiplyFees(times)
  \/ /\ estimates = 0
     /\ \/ \E date \in Dates : AtDate(date)
        \/ \E number \in Blocks : AtBlock(number)

-----------------------------------------------------------------------------
(* The fees put together are those of each estimate, kind by kind and in   *)
(* total, a kind that no estimate had stays undefined, and an account that *)
(* has enough funds keeps its existential deposit.  A time and its block   *)
(* are never further apart than one block per date it was derived by:      *)
(* derivations by a block lose nothing.                                    *)
EstimatesHold ==
  /\ \A k \in FeeKinds : fees[k] = IF due[k].any THEN due[k].amount ELSE Undefined
  /\ TotalFee(fees) = Sum(due)
  /\ \A free \in Balances : EnoughFunds(free) <=> free - Sum(due) >= Existential
  /\ LET apart == time - block * BlockTime IN
     /\ apart <= hops.dates * (BlockTime - 1)
     /\ -apart <= hops.dates * (BlockTime - 1)
=============================================================================
