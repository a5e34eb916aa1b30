------------------------------ MODULE HxCrashMC ------------------------------
(* Small instances of HxCrash for TLC.                                     *)
EXTENDS HxCrash, TLC

CONSTANTS t1, t2
Symmetry == Permutations(Thread)
=============================================================================
