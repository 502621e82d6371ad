SPECIFICATION Spec
CONSTANTS
  Plans = {p1}
  Backfill = {p1}
  Minors = {m1}
  Callers = {c1}
  Commands = {"begin", "note-failure", "recover-begin", "finish"}
  Statuses = {"recovered"}
  Reasons = {"restore-failed", "signal-term"}
  Results = {r1}
  Nothing = Nothing
  p1 = p1
  c1 = c1
  r1 = r1
  m1 = m1
INVARIANT BlockedIsNotReleased
