SPECIFICATION Spec
CONSTANTS
  l1 = l1
  l2 = l2
  rm = rm
  Lines = {l1, l2, rm}
  Destructive = {rm}
  MaxRuns = 2
  MaxSyncs = 2
SYMMETRY Alike
CHECK_DEADLOCK FALSE
INVARIANTS
  TypeOK
  LinesOnce
  QueuedInOrder
PROPERTIES
  HeldLinesStay
  ReloadKeepsLines
