SPECIFICATION Spec
CONSTANTS
  c1 = c1
  c2 = c2
  Clients = {c1}
  Starters = {c1}
  Quitters = {c1}
  MaxRuns = 1
  MaxSeq = 4
  MaxUnread = 2
CHECK_DEADLOCK FALSE
INVARIANTS
  MirrorAgrees
