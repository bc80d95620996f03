\* Three windows, three brokers launched between them, of which one is killed.
\* With every broker used up a window may wait for good: that is the bound, not the code.
SPECIFICATION LuckyFairSpec
CONSTANTS
  w1 = w1
  w2 = w2
  w3 = w3
  Starters = {w1, w2, w3}
  MaxBrokers = 3
  MaxCrashes = 1
INVARIANTS
  TypeOK
  OneBroker
  ServingIsFound
PROPERTIES
  DeadDescriptorGoes

CHECK_DEADLOCK FALSE
