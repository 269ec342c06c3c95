CONSTANTS
  Paths = {f1}
  Versions = 2
  NumGens = 2
  Syncs = {w1, w2, w3}
  External = {w1, w2}
  Keep = 0
  MaxRuns = 2
  Upstream <- SomeUpstream
SYMMETRY SyncSymmetry
SPECIFICATION DocsSpec
CHECK_DEADLOCK FALSE
INVARIANTS
  DocsTypeOK
  ServesWhole
  ServesOneSnapshot
PROPERTY PublishedIsImmutable
