SPECIFICATION CollectionsSpec
CONSTANTS
  Kinds <- Methods
  BatchSize = 3
  MaxAttempts = 4
  Crashes = TRUE
  LossyBackend = TRUE
  EarlyRejections = TRUE
  RefusesDuplicates = TRUE
CHECK_DEADLOCK FALSE
INVARIANTS EffectIsClaimed ClaimsFollowOutcome FollowedIsOnChain ReadIsConfirmed ListingWorks
