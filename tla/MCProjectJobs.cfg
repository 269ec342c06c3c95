CONSTANTS
  NumJobs = 2
  MaxAttempts = 2
  Workers = {w1, w2}
  Keys = {k1, k2}
  Snapshots = {s1}

SPECIFICATION Spec
SYMMETRY Symmetry
CHECK_DEADLOCK FALSE

INVARIANTS
  TypeOK
  OneOwnerPerJob
  UnitKeepsItsJob
  OneActiveJobPerKey
PROPERTIES
  SettledIsFinal
  CancelSticks
  WritesFollowFence
