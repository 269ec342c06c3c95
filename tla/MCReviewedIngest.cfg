CONSTANTS
  NumSnaps = 2
  Operators = {o1}
  Files = {f1, f2}
  Full = "full"
  Scopes = {"full", f1}
  Procs = {p1}
  Versions = 1
  MaxEdits = 2

SPECIFICATION IngestSpec
CHECK_DEADLOCK FALSE

PROPERTY
  RemovalIsEvidenced
