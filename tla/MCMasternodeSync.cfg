CONSTANTS
  Never = Never
  RetryTurns = 4
  Networks <- BothNetworks
SPECIFICATION SyncSpec
INVARIANTS
  SyncedHasAssets
  FlagsFollowStage
PROPERTIES
  SyncEnds
  FailureIsRetried
