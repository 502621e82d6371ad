SPECIFICATION Spec
CONSTANTS
  Settings <- Disturbances
  ExistingTags = {"patch-sha", "date-minor"}
  MaxEpoch = 1
INVARIANT MovedIsJournaled
INVARIANT VerifiedIsComplete
INVARIANT RestoredIsPrior
PROPERTY RestoresOnlyKnown
PROPERTY PublicationIsImplemented
CHECK_DEADLOCK FALSE
