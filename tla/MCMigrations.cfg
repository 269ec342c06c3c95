CONSTANTS
  Lanes = {project, docs}
  NumScripts = 2
  Rerunnable = {}
  Ops = {o1, o2}
  NoOp = NoOp
  NoLane = NoLane
  LaneChoices <- AllLanes
  project = project
  docs = docs
  Writers = {w1}
  MaxEdits = 1

SPECIFICATION MigSpec
CHECK_DEADLOCK FALSE
SYMMETRY Symmetry

INVARIANTS
  MigrationsTypeOK
  LedgerTellsTruth
  MigratesWhatWasPlanned
PROPERTIES
  ReopensOnlyWhole
  TakeoverOnRecord
  RefinesFence
