---------------------------- MODULE HxServicesMC ----------------------------
(***************************************************************************)
(* Small instances of four components that share no state: the registry of *)
(* loggers, duplicate suppression, the network sink, and the locks.  One   *)
(* run explores each of them from its initial states while the others      *)
(* rest.                                                                   *)
(***************************************************************************)
EXTENDS HxRegistry, HxDup, HxNet, HxLocks, TLC

\* "a" above "a.b" above "a.b.c"; a name too long to store is cut to the last.
CONSTANTS root, mid, leaf, long, c1, c2, t1, t2, m1, m2, u1, u2

MCName   == {root, mid, leaf, long}
MCAbove  == [n \in MCName |-> CASE n = root -> {}
                               [] n = mid  -> {root}
                               [] n = leaf -> {root, mid}
                               [] n = long -> {root, mid}]
MCStored == [n \in MCName |-> IF n = long THEN leaf ELSE n]

ServicesTypeOK == RegTypeOK /\ DupTypeOK /\ NetTypeOK /\ LocksTypeOK

RegRests   == calls = 0
DupRests   == used = 0 /\ sent = [t \in Caller |-> 0]
NetRests   == proto = "TCP" /\ now = RetrySecs /\ cur = 0 /\ npc = "idle"
LocksRests == uses = 0 /\ todo = [x \in Who |-> <<>>]

ServicesInit == /\ RegInit /\ global = (CHOOSE l \in Level : TRUE)
                /\ DupInit /\ NetInit /\ LocksInit
ServicesNext ==
    \/ DupRests /\ NetRests /\ LocksRests /\ RegNext /\ UNCHANGED <<dupVars, netVars, lockVars>>
    \/ RegRests /\ NetRests /\ LocksRests /\ DupNext /\ UNCHANGED <<regVars, netVars, lockVars>>
    \/ RegRests /\ DupRests /\ LocksRests /\ NetNext /\ UNCHANGED <<regVars, dupVars, lockVars>>
    \/ RegRests /\ DupRests /\ NetRests /\ LocksNext /\ UNCHANGED <<regVars, dupVars, netVars>>
ServicesSpec == ServicesInit /\ [][ServicesNext]_<<regVars, dupVars, netVars, lockVars>>

Symmetry == Permutations(Caller) \cup Permutations(Client) \cup Permutations(User)
=============================================================================
