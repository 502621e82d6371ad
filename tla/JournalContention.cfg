SPECIFICATION Spec
CONSTANTS
  Plans = {p1,p2}
  Backfill = {p1,p2}
  Minors = {m1}
  Callers = {c1,c2}
  Commands = {"begin", "activate", "finish", "prepare-attempt", "attempt"}
  Statuses = {"committed", "already-verified"}
  Reasons = {}
  Results = {r1}
  Nothing = Nothing
  p1 = p1
  p2 = p2
  c1 = c1
  c2 = c2
  r1 = r1
  m1 = m1
SYMMETRY Symmetry
INVARIANT OneGenerationPerPlan
INVARIANT ReleasedWithReceipt
INVARIANT ExitZeroIsDurable
INVARIANT OwnerIsJournaled
PROPERTY OwnershipIsImplemented
