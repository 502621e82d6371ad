SPECIFICATION Spec
CONSTANTS
  Plans = {p1}
  Backfill = {p1}
  Minors = {m1}
  Callers = {c1,c2}
  Commands = {"begin", "activate", "recover-begin", "finish", "prepare-attempt", "attempt"}
  Statuses = {"committed"}
  Reasons = {}
  Results = {r1}
  Nothing = Nothing
  p1 = p1
  c1 = c1
  c2 = c2
  r1 = r1
  m1 = m1
SYMMETRY CallerSymmetry
INVARIANT CommittedOnlyFromActive
