SPECIFICATION Spec
CONSTANTS
  Settings <- OneUnit
  ExistingTags = {"patch-sha", "date-minor"}
  MaxEpoch = 6
INVARIANT RestoreIsJournaled
CHECK_DEADLOCK FALSE
