CONSTANTS
  NumSnaps = 2
  Operators = {}
  Files = {f1}
  Full = "full"
  Scopes = {"full"}
  Procs = {p1, p2}
  Versions = 2
  MaxEdits = 1

SPECIFICATION IngestSpec
CHECK_DEADLOCK FALSE
SYMMETRY ProcSymmetry

INVARIANTS
  IngestTypeOK
  WriterAlone
  OutcomesAgree
PROPERTIES
  PublishesThePlan
  RefinesGate
