CONSTANTS
  NumSnaps = 2
  Operators = {o1}
  Files = {f1}
  Full = "full"
  Scopes = {"full"}
  Procs = {p1}
  Versions = 2
  MaxEdits = 2

SPECIFICATION IngestSpec
CHECK_DEADLOCK FALSE

PROPERTY RefusalMeansDrift
