SPECIFICATION AlgorithmsSpec
CONSTANTS
  Raw <- MCRaw
  SortedUnits <- MCSortedUnits
  Addends <- MCAddends
  MaxDigits = 4
  MaxAdditions = 1
  FeeOf <- MCFeeOf
  Given <- MCGiven
  MaxFees = 2
  Balances <- MCBalances
  Existential = 5
  BlockTime = 6
  Dates <- MCDates
  Blocks <- MCBlocks
  MaxHops = 4
INVARIANTS
  AmountsAreExact
  EstimatesHold
  OnlySoundTermsPass
\* Each computation ends: MaxFees estimates, MaxHops times, one check.
CHECK_DEADLOCK FALSE
