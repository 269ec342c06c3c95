--------------------------- MODULE MCSnapshotGate ---------------------------
EXTENDS SnapshotGate, TLC

OperatorSymmetry == Permutations(Operators)
=============================================================================
