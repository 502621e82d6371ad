SPECIFICATION FairSpec
CONSTANTS
  Settings <- OneUnit
  ExistingTags = {"patch-sha", "date-minor"}
  MaxEpoch = 6
INVARIANT TypeOK
INVARIANT RestoredIsPrior
PROPERTY PublicationIsImplemented
PROPERTY PartialIsSettled
CHECK_DEADLOCK FALSE
