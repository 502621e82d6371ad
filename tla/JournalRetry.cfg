SPECIFICATION FairSpec
CONSTANTS
  Plans = {p1}
  Backfill = {p1}
  Minors = {m1}
  Callers = {c1,c2}
  Commands = {"begin", "activate", "note-failure", "finish", "prepare-attempt", "attempt"}
  Statuses = {"committed", "recovered"}
  Reasons = {"signal-term"}
  Results = {r1}
  Nothing = Nothing
  p1 = p1
  c1 = c1
  c2 = c2
  r1 = r1
  m1 = m1
PROPERTY TerminalIsReleased
INVARIANT LifecycleMovesOn
INVARIANT RecordsAreFenced
