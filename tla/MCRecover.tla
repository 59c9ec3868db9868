----------------------------- MODULE MCRecover ------------------------------
(* The reference client recovering from two or three trustees.                 *)
EXTENDS Recover, TLC

\* Trustees are interchangeable where every set of them the instance names is
\* empty; used for safety only.
Symmetry == Permutations(Trustees)
=============================================================================
