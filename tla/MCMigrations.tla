---------------------------- MODULE MCMigrations ----------------------------
EXTENDS Migrations, TLC

CONSTANTS project, docs

AllLanes == {{project, docs}}
Symmetry == Permutations(Ops) \cup Permutations(Lanes)
=============================================================================
