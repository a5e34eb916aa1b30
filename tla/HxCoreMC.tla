------------------------------ MODULE HxCoreMC ------------------------------
(* Small instances of HxCore for TLC.                                      *)
EXTENDS HxCore, TLC

MCBlock   == {[capacity |-> 1, batch |-> 2, overflow |-> "BLOCK"]}
MCBudget  == [start |-> 0, flush |-> 1, fork |-> 0]
NoFlush   == [start |-> 0, flush |-> 0, fork |-> 0]
MCAdmin   == [init |-> 1, reconfigure |-> 1, shutdown |-> 1, callback |-> 1]
MCDown    == [init |-> 1, reconfigure |-> 0, shutdown |-> 1, callback |-> 0]
MCInit    == [init |-> 1, reconfigure |-> 0, shutdown |-> 0, callback |-> 0]
MCLive    == [init |-> 1, reconfigure |-> 1, shutdown |-> 1, callback |-> 0]
MCFatal   == {<<t, 1>> : t \in Producer}
OneFatal  == {<<CHOOSE t \in Producer : TRUE, 1>>}
NoFatal   == {}
Symmetry  == Permutations(Producer)
=============================================================================
