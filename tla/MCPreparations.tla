--------------------------- MODULE MCPreparations ---------------------------
(* Preparations of two processes over a small tree. *)
EXTENDS Preparations
=============================================================================
