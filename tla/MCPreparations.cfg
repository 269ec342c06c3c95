\* Two processes prepare a project of two files, one operation a batch.  The tree is
\* edited twice, and what the last edit leaves deletes without evidence; two failures
\* are enough to lose both attempts of a row.  The system never stops.
CONSTANTS
  Processes = {p, q}
  NoProcess = NoProcess
  Files = {f1, f2}
  MaxFiles = 1
  MaxBatches = 2
  MaxAttempts = 2
  Reviewed = {3}
  MaxTree = 3
  MaxFailures = 2

SPECIFICATION Spec

INVARIANT
  PrepTypeOK
PROPERTIES
  ReadyWasTrue
  PreparationsConverge
