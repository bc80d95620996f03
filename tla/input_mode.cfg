SPECIFICATION Spec
CONSTANTS
  a = a
  b = b
  c = c
  Order <- ThreeProjects
  Current = b
  MaxRuns = 2
CHECK_DEADLOCK FALSE
INVARIANTS
  TypeOK
  KeysReachTheConfirmedRun
PROPERTIES
  FocusEndsWithItsRun
  TaktModeShowsView
