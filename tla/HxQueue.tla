------------------------------ MODULE HxQueue ------------------------------
(***************************************************************************)
(* What the asynchronous engine promises its callers and the sinks,        *)
(* without ring indices, locks, wait sets or batches: a bounded FIFO       *)
(* channel that can be opened, closed and forked, and that loses a line    *)
(* only where its overflow policy or a failure says so.                    *)
(* HxAsync is shown to implement it.                                       *)
(***************************************************************************)
EXTENDS Integers, Sequences

CONSTANTS Line, Policies,
          MayFail   \* may memory run out or a worker thread fail to start?

VARIABLES phase,    \* "closed", "open" or "closing"
          size,     \* capacity of the channel that is open
          policy,   \* its overflow policy
          pending,  \* accepted lines, oldest first
          inflight, \* the line being delivered, as a sequence of length 0 or 1
          fate      \* what became of each line

vars == <<phase, size, policy, pending, inflight, fate>>

Init == /\ phase = "closed" /\ size = 0 /\ policy = "BLOCK"
        /\ pending = <<>> /\ inflight = <<>>
        /\ fate = [l \in Line |-> "new"]

Become(l, f) == fate' = [fate EXCEPT ![l] = f]
Frame        == UNCHANGED <<phase, size, policy>>

Offer(l) == /\ fate[l] = "new" /\ Become(l, "calling")
            /\ Frame /\ UNCHANGED <<pending, inflight>>

\* The caller keeps a refused line; an open channel refuses none.
Refuse(l) == /\ phase # "open"
             /\ fate[l] = "calling" /\ Become(l, "refused")
             /\ Frame /\ UNCHANGED <<pending, inflight>>

Accept(l) == /\ phase = "open" /\ Len(pending) < size
             /\ fate[l] = "calling" /\ Become(l, "queued")
             /\ pending' = Append(pending, l)
             /\ Frame /\ UNCHANGED inflight

DropNewest(l) == /\ phase = "open"
                 /\ \/ policy = "DROP_NEW" /\ Len(pending) = size
                    \/ MayFail
                 /\ fate[l] = "calling" /\ Become(l, "dropped")
                 /\ Frame /\ UNCHANGED <<pending, inflight>>

\* The oldest line makes room for l; without memory l is lost as well.
DropOldest(l) ==
    /\ phase = "open" /\ policy = "DROP_OLD" /\ Len(pending) = size
    /\ fate[l] = "calling"
    /\ \/ /\ pending' = Append(Tail(pending), l)
          /\ fate' = [fate EXCEPT ![Head(pending)] = "dropped", ![l] = "queued"]
       \/ /\ MayFail
          /\ pending' = Tail(pending)
          /\ fate' = [fate EXCEPT ![Head(pending)] = "dropped", ![l] = "dropped"]
    /\ Frame /\ UNCHANGED inflight

Take == /\ pending # <<>> /\ inflight = <<>>
        /\ inflight' = <<Head(pending)>> /\ pending' = Tail(pending)
        /\ Frame /\ UNCHANGED fate

Skip == /\ MayFail /\ pending # <<>> /\ inflight = <<>>
        /\ Become(Head(pending), "dropped") /\ pending' = Tail(pending)
        /\ Frame /\ UNCHANGED inflight

Deliver == /\ inflight # <<>>
           /\ Become(Head(inflight), "emitted") /\ inflight' = <<>>
           /\ Frame /\ UNCHANGED pending

Open == /\ phase = "closed"
        /\ phase' = "open" /\ size' \in Nat \ {0} /\ policy' \in Policies
        /\ fate' = [l \in Line |-> IF fate[l] = "dropped" THEN "forgotten"
                                                          ELSE fate[l]]
        /\ UNCHANGED <<pending, inflight>>

Close == /\ phase = "open" /\ phase' = "closing"
         /\ UNCHANGED <<size, policy, pending, inflight, fate>>

\* The channel closes only when every accepted line has been delivered.
Closed == /\ phase = "closing" /\ pending = <<>> /\ inflight = <<>>
          /\ phase' = "closed"
          /\ UNCHANGED <<size, policy, pending, inflight, fate>>

\* The channel could not be opened after all.
Abandon == /\ MayFail /\ phase = "open" /\ inflight = <<>>
           /\ phase' = "closed" /\ pending' = <<>>
           /\ fate' = [l \in Line |-> IF fate[l] = "queued" THEN "orphaned"
                                                            ELSE fate[l]]
           /\ UNCHANGED <<size, policy, inflight>>

\* The child of a fork starts with an empty channel: its parent keeps the lines.
Fork == /\ phase # "closing"
        /\ phase' = phase \/ (MayFail /\ phase' = "closed")
        /\ pending' = <<>> /\ inflight' = <<>>
        /\ fate' = [l \in Line |-> IF fate[l] \in {"queued", "calling"}
                                   THEN "parent" ELSE fate[l]]
        /\ UNCHANGED <<size, policy>>

Next == \/ \E l \in Line : \/ Offer(l) \/ Refuse(l) \/ Accept(l)
                           \/ DropNewest(l) \/ DropOldest(l)
        \/ Take \/ Skip \/ Deliver
        \/ Open \/ Close \/ Closed \/ Abandon \/ Fork

Spec == Init /\ [][Next]_vars
=============================================================================
