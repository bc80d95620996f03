\* Three Pi processes, one of which may die and one edits the list; TAKT runs once.
\* Nothing is left to do when every task is enqueued: the system may stop.
SPECIFICATION TameFairSpec
CONSTANTS
  p1 = p1
  p2 = p2
  p3 = p3
  fix = fix
  main = main
  Procs = {p1, p2, p3}
  Editors = {p3}
  Unlucky = {p1}
  Slugs = {fix}
  Branches = {main}
  NoBranch = NoBranch
  NoLock = NoLock
  MaxTasks = 3
  MaxTakts = 1
  MaxEdits = 1
  MaxCrashes = 1
INVARIANTS
  TypeOK
  MutualExclusion
  TaskHasDir
PROPERTIES
  DeadLockGoes
  ImplementsTaskStore

CHECK_DEADLOCK FALSE
