------------------------------ MODULE HxSinksMC ------------------------------
(* Small instances of HxSinks for TLC.                                     *)
EXTENDS HxSinks, TLC

CONSTANTS t1, t2
Symmetry == Permutations(Writer)
=============================================================================
