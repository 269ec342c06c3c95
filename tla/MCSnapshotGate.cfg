CONSTANTS
  NumSnaps = 2
  Operators = {o1, o2}

SPECIFICATION GateSpec
CHECK_DEADLOCK FALSE
SYMMETRY OperatorSymmetry

INVARIANTS
  GateTypeOK
  OneConsumer
PROPERTIES
  ReviewGates
  ConsumedIsFinal
  EndedStaysEnded
