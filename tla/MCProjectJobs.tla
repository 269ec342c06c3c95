--------------------------- MODULE MCProjectJobs ---------------------------
(* ProjectJobs on a small instance: two rows, two processes, two attempts. *)
EXTENDS ProjectJobs, TLC

\* The processes are interchangeable, and so are the keys.
Symmetry == Permutations(Workers) \cup Permutations(Keys)
=============================================================================
