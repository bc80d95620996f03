SPECIFICATION DistinctSpec
CONSTANTS
  a = a
  b = b
  r1 = r1
  r2 = r2
  t1 = t1
  t2 = t2
  p1 = p1
  p2 = p2
  NoPid = NoPid
  Projects = {a}
  Runs = {r1, r2}
  Tasks = {t1, t2}
  Pids = {p1, p2}
SYMMETRY Alike
CHECK_DEADLOCK FALSE
INVARIANTS
  TypeOK
  FinishedHidesNothing
  OrphansStopBlocking
PROPERTIES
  ReconcileSparesTheLiving
  FinishedStaysFinished
  LiveRunBlocksStart
