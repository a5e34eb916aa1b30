----------------------------- MODULE HxAsyncMC -----------------------------
(* Small instances of HxAsync for TLC.                                     *)
EXTENDS HxAsync, TLC

\* One configuration per overflow policy; a restart may change it.
MCConfigs == {[capacity |-> 2, batch |-> 2, overflow |-> "DROP_NEW"],
              [capacity |-> 2, batch |-> 1, overflow |-> "DROP_OLD"],
              [capacity |-> 1, batch |-> 2, overflow |-> "BLOCK"]}
MCBlock   == {[capacity |-> 1, batch |-> 1, overflow |-> "BLOCK"],
              [capacity |-> 2, batch |-> 2, overflow |-> "BLOCK"]}

MCBlockOne == {[capacity |-> 1, batch |-> 2, overflow |-> "BLOCK"]}

MCBudget     == [start |-> 2, flush |-> 1, fork |-> 1]
MCNoFork == [start |-> 2, flush |-> 1, fork |-> 0]
Symmetry  == Permutations(Thread)
=============================================================================
