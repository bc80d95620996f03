SPECIFICATION WholeSpec
CONSTANTS
  c1 = c1
  c2 = c2
  Clients = {c1, c2}
  Starters = {c1}
  Quitters = {c1}
  MaxRuns = 2
  MaxSeq = 4
  MaxUnread = 2
CHECK_DEADLOCK FALSE
INVARIANTS
  TypeOK
  NoPhantomRun
  MirrorAgrees
  ScreenAgrees
