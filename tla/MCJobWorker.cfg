CONSTANTS
  NumJobs = 1
  MaxAttempts = 2
  Workers = {w1, c1}
  Coordinators = {c1}
  Keys = {k1}
  Snapshots = {s1, s2}
  MaxWrites = 1

SPECIFICATION WorkerSpec
CHECK_DEADLOCK FALSE

INVARIANTS
  WorkerTypeOK
PROPERTIES
  RefinesJobTable
  WaitingRowsMove
  ClaimsEnd
