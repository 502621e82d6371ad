SPECIFICATION Spec
CONSTANTS
  Workflows = {smoke}
  Smoke = smoke
  Statuses = {ext}
  MaxRuns = 1
  MaxAttempts = 2
  MaxBase = 1
  Keep = {k}
  Extra = {a, b}
  Strange = {x}
  FirstPage = {k, a}
  Rank <- Ranks
  Digests = {d1, d2}
  Attempts = 2
  MaxPushes = 1
  Dates = {fine, soon, over}
  Class <- Classes
  Outages = {o}
  Mismatches = {m}
  MaxChanges = 2
  MaxHand = 1
  smoke = smoke
  ext = ext
  k = k
  a = a
  b = b
  x = x
  d1 = d1
  d2 = d2
  fine = fine
  soon = soon
  over = over
  o = o
  m = m
INVARIANT GateTypeOK
INVARIANT PruneTypeOK
INVARIANT DriftStopsDeletion
INVARIANT SuccessIsExact
INVARIANT LifecycleTypeOK
INVARIANT AttentionIsTold
PROPERTY PassWasGreen
PROPERTY DeletesOnlyArchived
PROPERTY OutageNeedsUpstream
PROPERTY JobsEnd
PROPERTY OutageIsFollowed
CHECK_DEADLOCK FALSE
