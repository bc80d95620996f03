\* One process enqueues while another edits the task list.
SPECIFICATION OverlapSpec
CONSTANTS
  p1 = p1
  p2 = p2
  p3 = p3
  fix = fix
  main = main
  Procs = {p1, p2}
  Editors = {p2}
  Unlucky = {}
  Slugs = {fix}
  Branches = {}
  NoBranch = NoBranch
  NoLock = NoLock
  MaxTasks = 2
  MaxTakts = 1
  MaxEdits = 1
  MaxCrashes = 0
INVARIANTS
  NoTaskLost
CHECK_DEADLOCK FALSE
