---------------------------- MODULE MCGatedIngest ----------------------------
EXTENDS GatedIngest, TLC

ProcSymmetry == Permutations(Procs)
=============================================================================
