SPECIFICATION Spec
CONSTANTS
  Plans = {p1}
  Backfill = {}
  Minors = {m1}
  Callers = {c1}
  Commands = {"begin", "activate", "recover-begin", "note-failure", "finish",
              "prepare-attempt", "attempt", "referrer-attempt",
              "recovery-attempt", "recovery-referrer-attempt"}
  Statuses = {"committed", "recovered"}
  Reasons = {"signal-term"}
  Results = {r1}
  Nothing = Nothing
  p1 = p1
  c1 = c1
  r1 = r1
  m1 = m1
INVARIANT TypeOK
INVARIANT PublishedOnlyWhenPrepared
INVARIANT CommittedIsComplete
INVARIANT RecordsAreFenced
