--------------------------- MODULE HxLocksProofs ---------------------------
(***************************************************************************)
(* Theorems about the locks and the waits of the library, for any number   *)
(* of threads and calls.  A thread's remaining steps are followed by what  *)
(* it holds at each of them: the steps of a call, whatever is put in front *)
(* of them on the way, take the locks in one order and free them all.      *)
(***************************************************************************)
EXTENDS HxLocks, TLAPS

\* The calls that callback sinks may make: the others take init_lock, or wait
\* for the worker, under sink_lock.
QuietCallbacks == Reentrant \subseteq {"sinks", "stats", "loggers"}

-----------------------------------------------------------------------------
(***************************************************************************)
(* What a thread holds, step by step.                                      *)
(***************************************************************************)

\* How often a thread has taken each lock.  A file sink's lock is held under
\* sink_lock only, and no lock but sink_lock twice.
Hold == {h \in [Locks -> Nat] : /\ h["file"] > 0 => h["sink"] > 0
                                /\ \A k \in Locks \ {"sink"} : h[k] <= 1}
Nothing == [k \in Locks |-> 0]

\* The order in which nested locks are taken.
Rank(k) == CASE k = "init"   -> 1 [] k = "sink"  -> 2 [] k = "file" -> 3
             [] k = "stats"  -> 4 [] k = "logger" -> 5 [] k = "async" -> 6
             [] k = "err"    -> 7 [] k = "dup"    -> 8 [] k = "ring"  -> 9

Only(h, K) == \A k \in Locks : h[k] > 0 => k \in K
Below(h, k) == \A j \in Locks : h[j] > 0 => Rank(j) < Rank(k)

\* The worker never takes init_lock, and sink_lock may be taken again.
MayTake(x, h, k) == /\ x = Engine => k # "init"
                    /\ k = "file" => h["sink"] > 0
                    /\ (k = "sink" /\ h["sink"] > 0) \/ Below(h, k)

Waits   == {"room", "empty", "join"}
Calling == {"pending", "dispatch", "flushq", "stop", "start"}
Queued  == {"put", "drain"}

\* What x holds after step p, and when it may come to that step: it waits for
\* the worker with init_lock at most.
After(p, h) == CASE p.do = "take" -> [h EXCEPT ![p.lock] = @ + 1]
                 [] p.do = "free" -> [h EXCEPT ![p.lock] = @ - 1]
                 [] p.do \in Queued -> [h EXCEPT !["async"] = 0]
                 [] OTHER -> h
Allows(x, p, h) ==
    /\ p.do = "take" => MayTake(x, h, p.lock)
    /\ p.do = "free" => h[p.lock] > 0
    /\ p.do = "callback" => h["sink"] > 0 /\ Only(h, {"init", "sink"})
    /\ p.do \in Queued => x # Engine /\ h["async"] = 1 /\ Only(h, {"init", "async"})
    /\ p.do \in Waits \cup Calling => x # Engine /\ Only(h, {"init"})
    /\ p.do = "fork" => \A k \in Locks \ {"file"} : h[k] > 0
Does(x, p, h, g) == Allows(x, p, h) /\ g = After(p, h)

\* The steps of s take x from holding h to holding g.
Along(x, s, H) == \A i \in 1..Len(s) : Does(x, s[i], H[i], H[i + 1])
Runs(x, s, h, g) == /\ s \in Seq(Step)
                    /\ \E H \in [1..Len(s) + 1 -> Hold] :
                          H[1] = h /\ H[Len(s) + 1] = g /\ Along(x, s, H)

\* What x holds is what it will have freed when its steps are done.
Owns(x, h) == /\ \A k \in Locks : holder[k] = x <=> h[k] > 0
              /\ h["sink"] > 0 => depth = h["sink"]
Settled(x) == \E h \in Hold : Runs(x, todo[x], h, Nothing) /\ Owns(x, h)

LocksInv == /\ LocksTypeOK
            /\ holder["sink"] = Nobody => depth = 0
            /\ \A x \in Who : Settled(x)

-----------------------------------------------------------------------------
(***************************************************************************)
(* Steps in a row.                                                         *)
(***************************************************************************)
LEMMA NothingHeld == Nothing \in Hold /\ \A k \in Locks : Nothing[k] = 0
BY DEF Nothing, Hold, Locks

\* No steps change nothing.
LEMMA RunsNone ==
    ASSUME NEW x, NEW h \in Hold
    PROVE  Runs(x, <<>>, h, h)
<1> DEFINE H == [i \in 1..1 |-> h]
<1>1. H \in [1..Len(<<>>) + 1 -> Hold] /\ H[1] = h /\ H[Len(<<>>) + 1] = h
  OBVIOUS
<1>2. Along(x, <<>>, H)
  BY DEF Along
<1>3. <<>> \in Seq(Step)
  OBVIOUS
<1> HIDE DEF H
<1> QED
  BY <1>1, <1>2, <1>3 DEF Runs

\* And that is all they do.
LEMMA RanNone ==
    ASSUME NEW x, NEW h, NEW g, Runs(x, <<>>, h, g)
    PROVE  h = g
BY DEF Runs

\* One step.
LEMMA RunsOne ==
    ASSUME NEW x, NEW p \in Step, NEW h \in Hold, NEW g \in Hold, Does(x, p, h, g)
    PROVE  Runs(x, <<p>>, h, g)
<1> DEFINE s == <<p>>
           H == [i \in 1..2 |-> IF i = 1 THEN h ELSE g]
<1>1. s \in Seq(Step) /\ Len(s) = 1 /\ s[1] = p
  OBVIOUS
<1>2. H \in [1..2 -> Hold] /\ H[1] = h /\ H[2] = g
  OBVIOUS
<1> HIDE DEF s, H
<1>3. Along(x, s, H)
  BY <1>1, <1>2 DEF Along
<1>4. Runs(x, s, h, g)
  BY <1>1, <1>2, <1>3 DEF Runs
<1> QED
  BY <1>4 DEF s

\* Steps after steps.
LEMMA RunsThen ==
    ASSUME NEW x, NEW s, NEW t, NEW h, NEW m, NEW g, Runs(x, s, h, m), Runs(x, t, m, g)
    PROVE  Runs(x, s \o t, h, g)
<1> DEFINE r == s \o t
<1>1. PICK A \in [1..Len(s) + 1 -> Hold] :
         A[1] = h /\ A[Len(s) + 1] = m /\ Along(x, s, A)
  BY DEF Runs
<1>2. PICK B \in [1..Len(t) + 1 -> Hold] :
         B[1] = m /\ B[Len(t) + 1] = g /\ Along(x, t, B)
  BY DEF Runs
<1>3. /\ s \in Seq(Step) /\ t \in Seq(Step)
      /\ Len(s) \in Nat /\ Len(t) \in Nat
  BY DEF Runs
<1>4. /\ r \in Seq(Step) /\ Len(r) = Len(s) + Len(t)
      /\ \A i \in 1..Len(s) : r[i] = s[i]
      /\ \A i \in Len(s) + 1..Len(s) + Len(t) : r[i] = t[i - Len(s)]
  BY <1>3
<1> DEFINE H == [i \in 1..Len(s) + Len(t) + 1 |->
                   IF i <= Len(s) THEN A[i] ELSE B[i - Len(s)]]
<1>5. \A i \in 1..Len(s) + Len(t) + 1 : H[i] \in Hold
  <2> TAKE i \in 1..Len(s) + Len(t) + 1
  <2>1. CASE i <= Len(s)
    BY <2>1, <1>3, <1>1
  <2>2. CASE i > Len(s)
    <3>1. i - Len(s) \in 1..Len(t) + 1
      BY <2>2, <1>3
    <3> QED
      BY <2>2, <3>1, <1>2, <1>3
  <2> QED
    BY <2>1, <2>2, <1>3
<1>6. H \in [1..Len(r) + 1 -> Hold]
  BY <1>4, <1>5
<1>7. \A i \in 1..Len(s) + 1 : H[i] = A[i]
  <2> TAKE i \in 1..Len(s) + 1
  <2>1. CASE i <= Len(s)
    BY <2>1, <1>3
  <2>2. CASE i = Len(s) + 1
    <3>1. i - Len(s) = 1 /\ i \in 1..Len(s) + Len(t) + 1 /\ ~(i <= Len(s))
      BY <2>2, <1>3
    <3> QED
      BY <2>2, <3>1, <1>1, <1>2
  <2> QED
    BY <2>1, <2>2, <1>3
<1>8. \A i \in Len(s) + 1..Len(s) + Len(t) + 1 : H[i] = B[i - Len(s)]
  BY <1>3
<1> HIDE DEF H, r
<1>9. H[1] = h /\ H[Len(r) + 1] = g
  <2>1. 1 \in 1..Len(s) + 1
    BY <1>3
  <2>2. /\ Len(r) + 1 \in Len(s) + 1..Len(s) + Len(t) + 1
        /\ (Len(r) + 1) - Len(s) = Len(t) + 1
    BY <1>3, <1>4
  <2>3. H[1] = A[1]
    BY <2>1, <1>7
  <2>4. H[Len(r) + 1] = B[Len(t) + 1]
    BY <2>2, <1>8
  <2> QED
    BY <2>3, <2>4, <1>1, <1>2
<1>10. Along(x, r, H)
  <2> SUFFICES ASSUME NEW i \in 1..Len(r) PROVE Does(x, r[i], H[i], H[i + 1])
    BY DEF Along
  <2>1. CASE i <= Len(s)
    <3>1. i \in 1..Len(s) /\ i \in 1..Len(s) + 1 /\ i + 1 \in 1..Len(s) + 1
      BY <2>1, <1>3, <1>4
    <3>2. Does(x, s[i], A[i], A[i + 1])
      BY <3>1, <1>1 DEF Along
    <3> QED
      BY <3>1, <3>2, <1>4, <1>7
  <2>2. CASE i > Len(s)
    <3>1. /\ i - Len(s) \in 1..Len(t) /\ (i + 1) - Len(s) = (i - Len(s)) + 1
          /\ i \in Len(s) + 1..Len(s) + Len(t)
          /\ i \in Len(s) + 1..Len(s) + Len(t) + 1
          /\ i + 1 \in Len(s) + 1..Len(s) + Len(t) + 1
      BY <2>2, <1>3, <1>4
    <3>2. Does(x, t[i - Len(s)], B[i - Len(s)], B[(i - Len(s)) + 1])
      BY <3>1, <1>2 DEF Along
    <3>3. r[i] = t[i - Len(s)] /\ H[i] = B[i - Len(s)] /\ H[i + 1] = B[(i - Len(s)) + 1]
      <4>1. r[i] = t[i - Len(s)]
        BY <3>1, <1>4
      <4>2. H[i] = B[i - Len(s)]
        BY <3>1, <1>8
      <4>3. H[i + 1] = B[(i + 1) - Len(s)]
        BY <3>1, <1>8
      <4> QED
        BY <3>1, <4>1, <4>2, <4>3
    <3> QED
      BY <3>2, <3>3
  <2> QED
    BY <2>1, <2>2, <1>3
<1>11. Runs(x, r, h, g)
  BY <1>4, <1>6, <1>9, <1>10 DEF Runs
<1> QED
  BY <1>11 DEF r

\* The first step, and the steps behind it.
LEMMA RunsFirst ==
    ASSUME NEW x, NEW s, NEW h, NEW g, Runs(x, s, h, g), s # <<>>
    PROVE  /\ Head(s) \in Step /\ h \in Hold
           /\ \E m \in Hold : Does(x, Head(s), h, m) /\ Runs(x, Tail(s), m, g)
<1>1. PICK A \in [1..Len(s) + 1 -> Hold] :
         A[1] = h /\ A[Len(s) + 1] = g /\ Along(x, s, A)
  BY DEF Runs
<1>2. s \in Seq(Step) /\ Len(s) \in Nat /\ Len(s) > 0
  BY DEF Runs
<1>3. /\ Head(s) = s[1] /\ s[1] \in Step
      /\ Tail(s) \in Seq(Step) /\ Len(Tail(s)) = Len(s) - 1
      /\ \A i \in 1..Len(s) - 1 : Tail(s)[i] = s[i + 1]
  BY <1>2
<1> DEFINE H == [i \in 1..Len(s) |-> A[i + 1]]
<1>4. /\ H \in [1..Len(s) -> Hold] /\ H[1] = A[1 + 1] /\ H[Len(s)] = g
      /\ \A i \in 1..Len(s) - 1 : H[i] = A[i + 1] /\ H[i + 1] = A[(i + 1) + 1]
  BY <1>1, <1>2
<1> HIDE DEF H
<1>5. Does(x, Head(s), h, A[1 + 1]) /\ A[1 + 1] \in Hold /\ h \in Hold
  <2>1. 1 \in 1..Len(s) /\ 1 + 1 \in 1..Len(s) + 1 /\ 1 \in 1..Len(s) + 1
    BY <1>2
  <2> QED
    BY <2>1, <1>1, <1>3 DEF Along
<1>6. Along(x, Tail(s), H)
  <2> SUFFICES ASSUME NEW i \in 1..Len(s) - 1
               PROVE  Does(x, Tail(s)[i], H[i], H[i + 1])
    BY <1>3 DEF Along
  <2>1. i + 1 \in 1..Len(s)
    BY <1>2
  <2>2. Does(x, s[i + 1], A[i + 1], A[(i + 1) + 1])
    BY <2>1, <1>1 DEF Along
  <2> QED
    BY <2>2, <1>3, <1>4
<1>7. Len(Tail(s)) + 1 = Len(s)
  BY <1>2, <1>3
<1>8. Runs(x, Tail(s), A[1 + 1], g)
  BY <1>3, <1>4, <1>6, <1>7 DEF Runs
<1> QED
  BY <1>3, <1>5, <1>8

-----------------------------------------------------------------------------
(***************************************************************************)
(* What calls are made of.                                                 *)
(***************************************************************************)
LEMMA Ranks ==
    /\ Rank("init") = 1 /\ Rank("sink") = 2 /\ Rank("file") = 3
    /\ Rank("stats") = 4 /\ Rank("logger") = 5 /\ Rank("async") = 6
    /\ Rank("err") = 7 /\ Rank("dup") = 8 /\ Rank("ring") = 9
BY DEF Rank

LEMMA TakeIs ==
    ASSUME NEW k \in Locks
    PROVE  /\ [do |-> "take", lock |-> k] \in Step /\ [do |-> "free", lock |-> k] \in Step
           /\ [do |-> "take", lock |-> k].do = "take"
           /\ [do |-> "take", lock |-> k].lock = k
           /\ [do |-> "free", lock |-> k].do = "free"
           /\ [do |-> "free", lock |-> k].lock = k
BY DEF Step

\* Taking a lock, which then is held.
LEMMA TakeHeld ==
    ASSUME NEW x, NEW h \in Hold, NEW k \in Locks, MayTake(x, h, k)
    PROVE  /\ [h EXCEPT ![k] = @ + 1] \in Hold
           /\ [h EXCEPT ![k] = @ + 1][k] > 0
           /\ Does(x, [do |-> "take", lock |-> k], h, [h EXCEPT ![k] = @ + 1])
           /\ [[h EXCEPT ![k] = @ + 1] EXCEPT ![k] = @ - 1] = h
<1> DEFINE p == [do |-> "take", lock |-> k]
           g == [h EXCEPT ![k] = @ + 1]
<1>1. p.do = "take" /\ p.lock = k
  BY TakeIs
<1>2. h \in [Locks -> Nat] /\ (h["file"] > 0 => h["sink"] > 0)
      /\ \A j \in Locks \ {"sink"} : h[j] <= 1
  BY DEF Hold
<1>3. g \in [Locks -> Nat] /\ g[k] = h[k] + 1 /\ \A j \in Locks : j # k => g[j] = h[j]
  BY <1>2
<1>4. k = "sink" \/ h[k] = 0
  <2>1. CASE Below(h, k)
    <3>1. ~(h[k] > 0)
      <4>1. ~(Rank(k) < Rank(k))
        BY Ranks DEF Locks
      <4> QED
        BY <2>1, <4>1 DEF Below
    <3> QED
      BY <1>2, <3>1
  <2> QED
    BY <2>1 DEF MayTake
<1>5. (g["file"] > 0 => g["sink"] > 0) /\ \A j \in Locks \ {"sink"} : g[j] <= 1
  <2>1. "sink" \in Locks /\ "file" \in Locks
    BY DEF Locks
  <2>2. k = "file" => h["sink"] > 0
    BY DEF MayTake
  <2>3. g["file"] > 0 => g["sink"] > 0
    BY <1>2, <1>3, <2>1, <2>2
  <2>4. \A j \in Locks \ {"sink"} : g[j] <= 1
    BY <1>2, <1>3, <1>4
  <2> QED
    BY <2>3, <2>4
<1>6. [g EXCEPT ![k] = @ - 1] = h
  <2> DEFINE e == [g EXCEPT ![k] = @ - 1]
  <2>1. DOMAIN e = Locks /\ DOMAIN h = Locks
    BY <1>2, <1>3
  <2>2. \A j \in Locks : e[j] = h[j]
    BY <1>2, <1>3
  <2>3. e = [j \in Locks |-> e[j]] /\ h = [j \in Locks |-> h[j]]
    BY <1>2, <1>3
  <2> HIDE DEF e
  <2>4. e = h
    BY <2>2, <2>3
  <2> QED
    BY <2>4 DEF e
<1> HIDE DEF g
<1>7. g \in Hold /\ g[k] > 0
  BY <1>2, <1>3, <1>5 DEF Hold
<1> HIDE DEF p
<1>8. Does(x, p, h, g)
  BY <1>1 DEF Does, After, Allows, Queued, Waits, Calling, g
<1> QED
  BY <1>6, <1>7, <1>8 DEF p, g

\* A lock taken, what is done under it, and the lock freed.
LEMMA RunsWith ==
    ASSUME NEW x, NEW h \in Hold, NEW k \in Locks, MayTake(x, h, k), NEW body,
           Runs(x, body, [h EXCEPT ![k] = @ + 1], [h EXCEPT ![k] = @ + 1])
    PROVE  Runs(x, With(k, body), h, h)
<1> DEFINE g == [h EXCEPT ![k] = @ + 1]
           p == [do |-> "take", lock |-> k]
           q == [do |-> "free", lock |-> k]
<1>1. /\ g \in Hold /\ Does(x, p, h, g) /\ g[k] > 0
      /\ [g EXCEPT ![k] = @ - 1] = h
  BY TakeHeld
<1>2. p \in Step /\ q \in Step /\ q.do = "free" /\ q.lock = k
  BY TakeIs
<1> HIDE DEF g, p, q
<1>3. Does(x, q, g, h)
  BY <1>1, <1>2 DEF Does, After, Allows, Queued, Waits, Calling
<1>4. Runs(x, <<p>>, h, g) /\ Runs(x, <<q>>, g, h)
  BY <1>1, <1>2, <1>3, RunsOne
<1>5. Runs(x, <<p>> \o body, h, g)
  BY <1>4, RunsThen DEF g
<1>6. Runs(x, (<<p>> \o body) \o <<q>>, h, h)
  BY <1>4, <1>5, RunsThen
<1> QED
  BY <1>6 DEF With, Take, Free, p, q

\* A lock taken and freed.
LEMMA RunsVisit ==
    ASSUME NEW x, NEW h \in Hold, NEW k \in Locks, MayTake(x, h, k)
    PROVE  Runs(x, Visit(k), h, h)
<1>1. [h EXCEPT ![k] = @ + 1] \in Hold
  BY TakeHeld
<1> QED
  BY <1>1, RunsNone, RunsWith DEF Visit

\* Any other step.
LEMMA RunsDo ==
    ASSUME NEW x, NEW what \in {"callback", "pending", "dispatch", "put", "room",
              "flushq", "drain", "empty", "stop", "halt", "join", "gone", "start",
              "pop", "exit", "fork", "up", "down"},
           NEW h \in Hold, NEW g \in Hold, Does(x, [do |-> what], h, g)
    PROVE  Runs(x, Do(what), h, g)
<1>1. [do |-> what] \in Step
  BY DEF Step
<1> QED
  BY <1>1, RunsOne DEF Do

\* A step that takes and frees nothing.
LEMMA PlainDo ==
    ASSUME NEW x, NEW h \in Hold,
           NEW what \in {"room", "empty", "join"} \cup {"pending", "dispatch", "flushq", "stop", "start"}
                        \cup {"callback", "halt", "gone", "pop", "exit", "up", "down"},
           what = "callback" => h["sink"] > 0 /\ Only(h, {"init", "sink"}),
           what \in Waits \cup Calling => x # Engine /\ Only(h, {"init"})
    PROVE  Runs(x, Do(what), h, h)
<1> DEFINE p == [do |-> what]
<1>1. p.do = what
  OBVIOUS
<1> HIDE DEF p
<1>2. Does(x, p, h, h)
  BY <1>1 DEF Does, After, Allows, Queued
<1>3. Does(x, [do |-> what], h, h)
  BY <1>2 DEF p
<1> QED
  BY <1>3, RunsDo

\* What may be taken with init_lock at most.
LEMMA UnderInit ==
    ASSUME NEW x, NEW h \in Hold, Only(h, {"init"}), NEW k \in Locks \ {"init", "file"}
    PROVE  /\ MayTake(x, h, k) /\ h[k] = 0
           /\ Only([h EXCEPT ![k] = @ + 1], {"init", k})
<1>1. h \in [Locks -> Nat] /\ \A j \in Locks : h[j] > 0 => j = "init"
  BY DEF Hold, Only
<1>2. Rank("init") < Rank(k)
  BY Ranks DEF Locks
<1> QED
  BY <1>1, <1>2 DEF MayTake, Below, Only

\* A lock of no more than init_lock taken and freed.
LEMMA VisitUnderInit ==
    ASSUME NEW x, NEW h \in Hold, Only(h, {"init"}), NEW k \in Locks \ {"init", "file"}
    PROVE  Runs(x, Visit(k), h, h)
BY UnderInit, RunsVisit

\* What may be taken with the locks of a write.
LEMMA UnderSink ==
    ASSUME NEW x, NEW h \in Hold, h["sink"] > 0, Only(h, {"init", "sink"}),
           NEW k \in {"sink", "file", "stats", "logger"}
    PROVE  /\ MayTake(x, h, k)
           /\ [h EXCEPT ![k] = @ + 1]["sink"] > 0
           /\ Only([h EXCEPT ![k] = @ + 1], {"init", "sink", k})
<1>1. h \in [Locks -> Nat] /\ \A j \in Locks : h[j] > 0 => j \in {"init", "sink"}
      /\ k \in Locks
  BY DEF Hold, Only, Locks
<1>2. k # "sink" => Rank("init") < Rank(k) /\ Rank("sink") < Rank(k)
  BY Ranks
<1> QED
  BY <1>1, <1>2 DEF MayTake, Below, Only

\* A file sink's lock is held when errors are told and rotations are counted.
LEMMA UnderFile ==
    ASSUME NEW x, NEW h \in Hold, Only(h, {"init", "sink", "file"}),
           NEW k \in {"stats", "err"}
    PROVE  Runs(x, Visit(k), h, h)
<1>1. \A j \in Locks : h[j] > 0 => j \in {"init", "sink", "file"}
  BY DEF Only
<1>2. k \in Locks /\ k # "init" /\ k # "file"
      /\ \A j \in {"init", "sink", "file"} : Rank(j) < Rank(k)
  BY Ranks DEF Locks
<1>3. MayTake(x, h, k)
  BY <1>1, <1>2 DEF MayTake, Below
<1> QED
  BY <1>2, <1>3, RunsVisit

-----------------------------------------------------------------------------
(***************************************************************************)
(* The calls free what they take, and take it in order.                    *)
(***************************************************************************)

\* hx_core_write_line_locked's loop over the sinks, and the counters.
LEMMA WriteRuns ==
    ASSUME NEW x, NEW h \in Hold, Only(h, {"init"})
    PROVE  Runs(x, WriteSinks, h, h)
<1> DEFINE s == [h EXCEPT !["sink"] = @ + 1]
           f == [s EXCEPT !["file"] = @ + 1]
<1>0. "sink" \in Locks \ {"init", "file"} /\ "stats" \in Locks \ {"init", "file"}
      /\ "file" \in Locks
  BY DEF Locks
<1>1. MayTake(x, h, "sink") /\ s \in Hold /\ s["sink"] > 0 /\ Only(s, {"init", "sink"})
  BY <1>0, UnderInit, TakeHeld
<1> HIDE DEF s
<1>2. MayTake(x, s, "file") /\ f \in Hold /\ Only(f, {"init", "sink", "file"})
  BY <1>0, <1>1, UnderSink, TakeHeld
<1> HIDE DEF f
<1>3. Runs(x, ReportError, f, f) /\ Runs(x, Visit("stats"), f, f)
  BY <1>2, UnderFile DEF ReportError
<1>4. Runs(x, ReportError \o Visit("stats"), f, f)
  BY <1>3, RunsThen
<1>5. Runs(x, With("file", ReportError \o Visit("stats")), s, s)
  BY <1>0, <1>1, <1>2, <1>4, RunsWith DEF f
<1>6. Runs(x, Do("callback"), s, s)
  BY <1>1, PlainDo DEF Waits, Calling
<1>7. Runs(x, With("file", ReportError \o Visit("stats")) \o Do("callback"), s, s)
  BY <1>5, <1>6, RunsThen
<1>8. Runs(x, With("sink", With("file", ReportError \o Visit("stats"))
                            \o Do("callback")), h, h)
  BY <1>0, <1>1, <1>7, RunsWith DEF s
<1>9. Runs(x, Visit("stats"), h, h)
  BY <1>0, VisitUnderInit
<1> QED
  BY <1>8, <1>9, RunsThen DEF WriteSinks

\* The file sink's lock taken and freed under sink_lock, after nothing else or
\* after sink_lock.
LEMMA VisitFile ==
    ASSUME NEW x, NEW h \in Hold, Only(h, {"init", "sink"}), MayTake(x, h, "sink")
    PROVE  Runs(x, With("sink", Visit("file")), h, h)
<1> DEFINE s == [h EXCEPT !["sink"] = @ + 1]
<1>0. "sink" \in Locks /\ "file" \in Locks
  BY DEF Locks
<1>1. s \in Hold /\ s["sink"] > 0
  BY <1>0, TakeHeld
<1>2. Only(s, {"init", "sink"})
  BY DEF Only, Hold
<1> HIDE DEF s
<1>3. Runs(x, Visit("file"), s, s)
  BY <1>0, <1>1, <1>2, UnderSink, RunsVisit
<1> QED
  BY <1>0, <1>3, RunsWith DEF s

\* A flush of the sinks.
LEMMA FlushRuns ==
    ASSUME NEW x, NEW h \in Hold, Only(h, {"init"})
    PROVE  Runs(x, FlushSinks, h, h)
<1>1. MayTake(x, h, "sink")
  BY UnderInit DEF Locks
<1>2. Only(h, {"init", "sink"})
  BY DEF Only
<1> QED
  BY <1>1, <1>2, VisitFile DEF FlushSinks

\* The calls a callback sink may make, under sink_lock or under no lock.
LEMMA QuietRuns ==
    ASSUME NEW x, NEW h \in Hold,
           (Only(h, {"init"}) \/ (h["sink"] > 0 /\ Only(h, {"init", "sink"}))),
           NEW c \in {"sinks", "stats", "loggers"}
    PROVE  Runs(x, Program(c), h, h)
<1>0. Only(h, {"init", "sink"})
  BY DEF Only
<1>1. /\ "sink" \in Locks \ {"init", "file"} /\ "stats" \in Locks \ {"init", "file"}
      /\ "logger" \in Locks \ {"init", "file"} /\ "async" \in Locks
  BY DEF Locks
<1>2. MayTake(x, h, "sink") /\ MayTake(x, h, "stats") /\ MayTake(x, h, "logger")
  BY <1>0, <1>1, UnderInit, UnderSink
<1>3. CASE c = "sinks"
  BY <1>0, <1>2, <1>3, VisitFile DEF Program
<1>4. CASE c = "loggers"
  BY <1>1, <1>2, <1>4, RunsVisit DEF Program
<1>5. CASE c = "stats"
  <2> DEFINE g == [h EXCEPT !["stats"] = @ + 1]
  <2>1. g \in Hold
    BY <1>1, <1>2, TakeHeld
  <2>2. Only(g, {"init", "sink", "stats"})
    BY <1>0 DEF Only, Hold
  <2> HIDE DEF g
  <2>3. \A j \in {"init", "sink", "stats"} : Rank(j) < Rank("async")
    BY Ranks
  <2>4. MayTake(x, g, "async")
    BY <2>2, <2>3 DEF MayTake, Below, Only
  <2>5. Runs(x, Visit("async"), g, g)
    BY <1>1, <2>1, <2>4, RunsVisit
  <2>6. Runs(x, Visit("async") \o Visit("async"), g, g)
    BY <2>5, RunsThen
  <2>7. Runs(x, With("stats", Visit("async") \o Visit("async")), h, h)
    BY <1>1, <1>2, <2>6, RunsWith DEF g
  <2> QED
    BY <1>5, <2>7 DEF Program
<1> QED
  BY <1>3, <1>4, <1>5

\* The parts of the application's calls, with init_lock at most.
LEMMA PartsRun ==
    ASSUME NEW x, x # Engine, NEW h \in Hold, Only(h, {"init"})
    PROVE  /\ Runs(x, Summary, h, h) /\ Runs(x, Logging, h, h)
           /\ Runs(x, Flushing, h, h) /\ Runs(x, ReplaceSinks, h, h)
           /\ Runs(x, ReportError, h, h)
<1>1. /\ Runs(x, Visit("sink"), h, h) /\ Runs(x, Visit("dup"), h, h)
      /\ Runs(x, Visit("ring"), h, h) /\ Runs(x, Visit("err"), h, h)
  BY VisitUnderInit DEF Locks
<1>2. \A what \in Calling : Runs(x, Do(what), h, h)
  BY PlainDo DEF Calling, Waits
<1>3. Runs(x, Summary, h, h)
  BY <1>1, <1>2, RunsThen DEF Summary, Calling
<1>4. Runs(x, Logging, h, h)
  <2>1. Runs(x, Visit("sink") \o Summary, h, h)
    BY <1>1, <1>3, RunsThen
  <2>2. Runs(x, (Visit("sink") \o Summary) \o Visit("ring"), h, h)
    BY <1>1, <2>1, RunsThen
  <2>3. Runs(x, ((Visit("sink") \o Summary) \o Visit("ring")) \o Visit("sink"), h, h)
    BY <1>1, <2>2, RunsThen
  <2>4. Runs(x, Do("dispatch"), h, h)
    BY <1>2 DEF Calling
  <2> QED
    BY <2>3, <2>4, RunsThen DEF Logging
<1>5. Runs(x, Flushing, h, h)
  <2>1. Runs(x, Do("flushq"), h, h) /\ Runs(x, FlushSinks, h, h)
    BY <1>2, FlushRuns DEF Calling
  <2>2. Runs(x, Summary \o Do("flushq"), h, h)
    BY <1>3, <2>1, RunsThen
  <2> QED
    BY <2>1, <2>2, RunsThen DEF Flushing
<1>6. Runs(x, ReplaceSinks, h, h)
  <2> DEFINE s == [h EXCEPT !["sink"] = @ + 1]
  <2>0. "sink" \in Locks \ {"init", "file"} /\ "file" \in Locks /\ "err" \in Locks
    BY DEF Locks
  <2>1. /\ MayTake(x, h, "sink") /\ s \in Hold /\ s["sink"] > 0
        /\ Only(s, {"init", "sink"})
    BY <2>0, UnderInit, TakeHeld
  <2> HIDE DEF s
  <2>2. Runs(x, Visit("file"), s, s)
    BY <2>0, <2>1, UnderSink, RunsVisit
  <2>3. Runs(x, ReportError, s, s)
    <3>1. Only(s, {"init", "sink", "file"})
      BY <2>1 DEF Only
    <3> QED
      BY <2>1, <3>1, UnderFile DEF ReportError
  <2>4. Runs(x, Visit("file") \o ReportError, s, s)
    BY <2>2, <2>3, RunsThen
  <2>5. Runs(x, With("sink", Visit("file") \o ReportError), h, h)
    BY <2>0, <2>1, <2>4, RunsWith DEF s
  <2>6. Runs(x, Do("stop"), h, h)
    BY <1>2 DEF Calling
  <2> QED
    BY <2>5, <2>6, RunsThen DEF ReplaceSinks
<1> QED
  BY <1>1, <1>3, <1>4, <1>5, <1>6 DEF ReportError

\* The prepare handler takes the locks one by one; the release handlers free
\* them the other way round.
ForkLocks == <<"init", "sink", "stats", "logger", "async", "err", "dup", "ring">>
FirstFew(n) == [k \in Locks |-> IF \E i \in 1..n : k = ForkLocks[i] THEN 1 ELSE 0]

LEMMA ForkLocksAre ==
    /\ ForkOrder = ForkLocks /\ Len(ForkOrder) = 8
    /\ ForkLocks[1] = "init" /\ ForkLocks[2] = "sink" /\ ForkLocks[3] = "stats"
    /\ ForkLocks[4] = "logger" /\ ForkLocks[5] = "async" /\ ForkLocks[6] = "err"
    /\ ForkLocks[7] = "dup" /\ ForkLocks[8] = "ring"
BY DEF ForkOrder, ForkLocks

\* In the order they are taken each lock comes above the ones before it.
LEMMA ForkClimbs ==
    ASSUME NEW i \in 1..8
    PROVE  /\ ForkLocks[i] \in Locks \ {"file"}
           /\ \A j \in 1..8 : j < i => Rank(ForkLocks[j]) < Rank(ForkLocks[i])
           /\ \A j \in 1..8 : j # i => ForkLocks[j] # ForkLocks[i]
<1>1. ForkLocks[i] \in Locks \ {"file"}
  BY ForkLocksAre DEF Locks
<1>2. \A j \in 1..8 : Rank(ForkLocks[j]) = IF j = 1 THEN 1 ELSE IF j = 2 THEN 2 ELSE j + 1
  <2> TAKE j \in 1..8
  <2>1. j = 1 \/ j = 2 \/ j = 3 \/ j = 4 \/ j = 5 \/ j = 6 \/ j = 7 \/ j = 8
    OBVIOUS
  <2> QED
    BY <2>1, Ranks, ForkLocksAre
<1>3. \A j \in 1..8 : j < i => Rank(ForkLocks[j]) < Rank(ForkLocks[i])
  BY <1>2
<1>4. \A j \in 1..8 : j # i => ForkLocks[j] # ForkLocks[i]
  <2>1. \A j \in 1..8 : j # i => Rank(ForkLocks[j]) # Rank(ForkLocks[i])
    BY <1>2
  <2> QED
    BY <2>1
<1> QED
  BY <1>1, <1>3, <1>4

\* What is held after the first n locks were taken.
LEMMA FirstFewHold ==
    /\ \A n \in 0..8 : FirstFew(n) \in Hold
    /\ FirstFew(0) = Nothing
    /\ \A k \in Locks \ {"file"} : FirstFew(8)[k] > 0
<1>1. ASSUME NEW n \in 0..8 PROVE FirstFew(n) \in Hold
  <2>1. FirstFew(n) \in [Locks -> Nat] /\ \A k \in Locks : FirstFew(n)[k] <= 1
    BY DEF FirstFew
  <2>2. \A i \in 1..n : ForkLocks[i] # "file"
    BY ForkClimbs
  <2>3. "file" \in Locks
    BY DEF Locks
  <2>4. FirstFew(n)["file"] = 0
    BY <2>2, <2>3 DEF FirstFew
  <2> QED
    BY <2>1, <2>4 DEF Hold
<1>2. FirstFew(0) = Nothing
  BY DEF FirstFew, Nothing
<1>3. ASSUME NEW k \in Locks \ {"file"} PROVE FirstFew(8)[k] > 0
  <2>1. \E i \in 1..8 : k = ForkLocks[i]
    BY ForkLocksAre DEF Locks
  <2> QED
    BY <2>1 DEF FirstFew
<1> QED
  BY <1>1, <1>2, <1>3

\* One more.
LEMMA OneMore ==
    ASSUME NEW x, x # Engine, NEW n \in 0..7
    PROVE  /\ Does(x, [do |-> "take", lock |-> ForkLocks[n + 1]], FirstFew(n), FirstFew(n + 1))
           /\ Does(x, [do |-> "free", lock |-> ForkLocks[n + 1]], FirstFew(n + 1), FirstFew(n))
<1> DEFINE k == ForkLocks[n + 1]
           f == FirstFew(n)
           g == FirstFew(n + 1)
           p == [do |-> "take", lock |-> k]
           q == [do |-> "free", lock |-> k]
<1>1. n + 1 \in 1..8
  OBVIOUS
<1>2. k \in Locks \ {"file"}
  BY <1>1, ForkClimbs
<1>3. f \in Hold /\ g \in Hold
  BY FirstFewHold
<1>4. \A j \in Locks : f[j] > 0 => \E i \in 1..n : j = ForkLocks[i]
  BY DEF FirstFew
<1>5. Below(f, k)
  <2>1. \A i \in 1..n : i \in 1..8 /\ i < n + 1
    OBVIOUS
  <2>2. \A i \in 1..n : Rank(ForkLocks[i]) < Rank(k)
    BY <1>1, <2>1, ForkClimbs
  <2> QED
    BY <1>4, <2>2 DEF Below
<1>6. \A j \in Locks : j # k => g[j] = f[j]
  <2>1. \A j : (j # k) => ((\E i \in 1..(n + 1) : j = ForkLocks[i])
                            <=> (\E i \in 1..n : j = ForkLocks[i]))
    OBVIOUS
  <2> QED
    BY <2>1 DEF FirstFew
<1>7. g[k] = 1 /\ f[k] = 0
  <2>1. \A i \in 1..n : ForkLocks[i] # k
    <3>1. \A i \in 1..n : i \in 1..8 /\ i # n + 1
      OBVIOUS
    <3> QED
      BY <1>1, <3>1, ForkClimbs
  <2>2. \E i \in 1..(n + 1) : k = ForkLocks[i]
    OBVIOUS
  <2> QED
    BY <1>2, <2>1, <2>2 DEF FirstFew
<1>8. p.do = "take" /\ p.lock = k /\ q.do = "free" /\ q.lock = k
  OBVIOUS
<1> HIDE DEF k, f, g, p, q
<1>9. f \in [Locks -> Nat] /\ g \in [Locks -> Nat]
  BY <1>3 DEF Hold
<1>10. g = [f EXCEPT ![k] = @ + 1] /\ f = [g EXCEPT ![k] = @ - 1]
  <2>1. \A j \in Locks : /\ g[j] = [f EXCEPT ![k] = @ + 1][j]
                         /\ f[j] = [g EXCEPT ![k] = @ - 1][j]
    BY <1>2, <1>6, <1>7, <1>9
  <2>2. /\ g = [j \in Locks |-> g[j]] /\ f = [j \in Locks |-> f[j]]
        /\ [f EXCEPT ![k] = @ + 1] = [j \in Locks |-> [f EXCEPT ![k] = @ + 1][j]]
        /\ [g EXCEPT ![k] = @ - 1] = [j \in Locks |-> [g EXCEPT ![k] = @ - 1][j]]
    BY <1>9
  <2> QED
    BY <2>1, <2>2
<1>11. MayTake(x, f, k)
  BY <1>2, <1>5 DEF MayTake
<1>12. Does(x, p, f, g)
  BY <1>8, <1>10, <1>11 DEF Does, After, Allows, Queued, Waits, Calling
<1>13. Does(x, q, g, f)
  <2>1. f = [g EXCEPT ![k] = @ - 1] /\ g[k] > 0
    BY <1>7, <1>10
  <2> QED
    BY <1>8, <2>1 DEF Does, After, Allows, Queued, Waits, Calling
<1> QED
  BY <1>12, <1>13 DEF f, g, p, q, k

\* Around a fork.
LEMMA ForkRuns ==
    ASSUME NEW x, x # Engine
    PROVE  Runs(x, Program("fork"), Nothing, Nothing)
<1> DEFINE taken == [i \in 1..8 |-> [do |-> "take", lock |-> ForkLocks[i]]]
           freed == [i \in 1..8 |-> [do |-> "free", lock |-> ForkLocks[8 + 1 - i]]]
           H == [i \in 1..9 |-> FirstFew(i - 1)]
           G == [i \in 1..9 |-> FirstFew(9 - i)]
<1>1. Program("fork") = taken \o Do("fork") \o freed
  BY ForkLocksAre DEF Program
<1>2. /\ taken \in Seq(Step) /\ Len(taken) = 8
      /\ freed \in Seq(Step) /\ Len(freed) = 8
  <2>1. \A i \in 1..8 : taken[i] \in Step /\ freed[i] \in Step
    <3> TAKE i \in 1..8
    <3>1. ForkLocks[i] \in Locks /\ ForkLocks[8 + 1 - i] \in Locks
      <4>1. 8 + 1 - i \in 1..8
        OBVIOUS
      <4> QED
        BY <4>1, ForkClimbs
    <3> QED
      BY <3>1, TakeIs
  <2> QED
    BY <2>1
<1>3. H \in [1..9 -> Hold] /\ G \in [1..9 -> Hold]
  <2>1. \A i \in 1..9 : i - 1 \in 0..8 /\ 9 - i \in 0..8
    OBVIOUS
  <2> QED
    BY <2>1, FirstFewHold
<1>4. H[1] = FirstFew(0) /\ H[9] = FirstFew(8) /\ G[1] = FirstFew(8) /\ G[9] = FirstFew(0)
  OBVIOUS
<1>5. Along(x, taken, H)
  <2> SUFFICES ASSUME NEW i \in 1..8 PROVE Does(x, taken[i], H[i], H[i + 1])
    BY <1>2 DEF Along
  <2>1. i - 1 \in 0..7 /\ (i - 1) + 1 = i /\ (i + 1) - 1 = i /\ i + 1 \in 1..9
    OBVIOUS
  <2>2. Does(x, [do |-> "take", lock |-> ForkLocks[i]], FirstFew(i - 1), FirstFew(i))
    BY <2>1, OneMore
  <2>3. H[i] = FirstFew(i - 1) /\ H[i + 1] = FirstFew(i)
    BY <2>1
  <2> QED
    BY <2>2, <2>3
<1>6. Along(x, freed, G)
  <2> SUFFICES ASSUME NEW i \in 1..8 PROVE Does(x, freed[i], G[i], G[i + 1])
    BY <1>2 DEF Along
  <2>1. 8 - i \in 0..7 /\ (8 - i) + 1 = 9 - i /\ 8 + 1 - i = 9 - i /\ 9 - (i + 1) = 8 - i
        /\ i + 1 \in 1..9
    OBVIOUS
  <2>2. Does(x, [do |-> "free", lock |-> ForkLocks[9 - i]], FirstFew(9 - i), FirstFew(8 - i))
    BY <2>1, OneMore
  <2>3. G[i] = FirstFew(9 - i) /\ G[i + 1] = FirstFew(8 - i)
    BY <2>1
  <2> QED
    BY <2>1, <2>2, <2>3
<1> HIDE DEF taken, freed, H, G
<1>7. Runs(x, taken, FirstFew(0), FirstFew(8)) /\ Runs(x, freed, FirstFew(8), FirstFew(0))
  BY <1>2, <1>3, <1>4, <1>5, <1>6 DEF Runs
<1>8. Runs(x, Do("fork"), FirstFew(8), FirstFew(8))
  <2> DEFINE p == [do |-> "fork"]
  <2>1. p.do = "fork"
    OBVIOUS
  <2> HIDE DEF p
  <2>2. Does(x, p, FirstFew(8), FirstFew(8))
    BY <2>1, FirstFewHold DEF Does, After, Allows, Queued, Waits, Calling
  <2>3. FirstFew(8) \in Hold
    BY FirstFewHold
  <2> QED
    BY <2>2, <2>3, RunsDo DEF p
<1>9. Runs(x, taken \o Do("fork"), FirstFew(0), FirstFew(8))
  BY <1>7, <1>8, RunsThen
<1>10. Runs(x, (taken \o Do("fork")) \o freed, FirstFew(0), FirstFew(0))
  BY <1>7, <1>9, RunsThen
<1> QED
  BY <1>1, <1>10, FirstFewHold

\* Every call of the application.
Api == {"log", "fatal", "flush", "sinks", "stats", "loggers", "config",
        "init", "reconfigure", "shutdown", "fork"}

LEMMA ProgramRuns ==
    ASSUME NEW x, x # Engine, NEW c \in Api
    PROVE  Runs(x, Program(c), Nothing, Nothing)
<1> DEFINE g == [Nothing EXCEPT !["init"] = @ + 1]
<1>0. Nothing \in Hold /\ Only(Nothing, {"init"}) /\ "init" \in Locks
  BY NothingHeld DEF Only, Locks
<1>1. MayTake(x, Nothing, "init")
  BY NothingHeld DEF MayTake, Below
<1>2. g \in Hold /\ Only(g, {"init"})
  <2>1. g \in Hold
    BY <1>0, <1>1, TakeHeld
  <2>2. \A k \in Locks : k # "init" => g[k] = Nothing[k]
    BY NothingHeld DEF Hold
  <2> QED
    BY <2>1, <2>2, NothingHeld DEF Only
<1>3. ASSUME NEW body, Runs(x, body, g, g)
      PROVE  Runs(x, With("init", body), Nothing, Nothing)
  BY <1>0, <1>1, <1>3, RunsWith
<1> HIDE DEF g
<1>4. CASE c = "log"
  BY <1>0, <1>4, PartsRun DEF Program
<1>5. CASE c = "fatal"
  <2>1. Runs(x, Logging, Nothing, Nothing) /\ Runs(x, Flushing, Nothing, Nothing)
    BY <1>0, PartsRun
  <2> QED
    BY <1>5, <2>1, RunsThen DEF Program
<1>6. CASE c = "flush"
  BY <1>0, <1>6, PartsRun DEF Program
<1>7. CASE c \in {"sinks", "stats", "loggers"}
  BY <1>0, <1>7, QuietRuns
<1>8. CASE c = "config"
  BY <1>0, <1>1, <1>8, RunsVisit DEF Program
<1>9. \A what \in {"start", "stop", "up", "down"} : Runs(x, Do(what), g, g)
  BY <1>2, PlainDo DEF Waits, Calling
<1>10. CASE c = "init"
  <2>1. Runs(x, ReportError, g, g)
    BY <1>2, PartsRun
  <2>2. Runs(x, ReportError \o Do("start"), g, g)
    BY <1>9, <2>1, RunsThen
  <2>3. Runs(x, ReportError \o Do("start") \o Do("up"), g, g)
    BY <1>9, <2>2, RunsThen
  <2> QED
    BY <1>3, <1>10, <2>3 DEF Program
<1>11. CASE c = "reconfigure"
  <2>1. /\ Runs(x, ReportError, g, g) /\ Runs(x, Flushing, g, g)
        /\ Runs(x, ReplaceSinks, g, g)
    BY <1>2, PartsRun
  <2>2. Runs(x, ReportError \o Flushing, g, g)
    BY <2>1, RunsThen
  <2>3. Runs(x, (ReportError \o Flushing) \o ReplaceSinks, g, g)
    BY <2>1, <2>2, RunsThen
  <2>4. Runs(x, ((ReportError \o Flushing) \o ReplaceSinks) \o Do("start"), g, g)
    BY <1>9, <2>3, RunsThen
  <2> QED
    BY <1>3, <1>11, <2>4 DEF Program
<1>12. CASE c = "shutdown"
  <2>1. Runs(x, Summary, g, g) /\ Runs(x, With("sink", Visit("file")), g, g)
    BY <1>2, PartsRun, FlushRuns DEF FlushSinks
  <2>2. Runs(x, Summary \o Do("down"), g, g)
    BY <1>9, <2>1, RunsThen
  <2>3. Runs(x, (Summary \o Do("down")) \o Do("stop"), g, g)
    BY <1>9, <2>2, RunsThen
  <2>4. Runs(x, ((Summary \o Do("down")) \o Do("stop")) \o With("sink", Visit("file")), g, g)
    BY <2>1, <2>3, RunsThen
  <2> QED
    BY <1>3, <1>12, <2>4 DEF Program
<1>13. CASE c = "fork"
  BY <1>13, ForkRuns
<1> QED
  BY <1>4, <1>5, <1>6, <1>7, <1>8, <1>10, <1>11, <1>12, <1>13 DEF Api

-----------------------------------------------------------------------------
(***************************************************************************)
(* The invariant, step by step.                                            *)
(***************************************************************************)

\* A thread at a step has what the step asks for, and goes on from there.
LEMMA AtStep ==
    ASSUME LocksInv, NEW x \in Who, todo[x] # <<>>
    PROVE  /\ Head(todo[x]) \in Step /\ todo[x] \in Seq(Step)
           /\ \E h \in Hold, m \in Hold :
                 /\ Does(x, Head(todo[x]), h, m) /\ Owns(x, h)
                 /\ Runs(x, Tail(todo[x]), m, Nothing)
<1>1. PICK h \in Hold : Runs(x, todo[x], h, Nothing) /\ Owns(x, h)
  BY DEF LocksInv, Settled
<1>2. Head(todo[x]) \in Step /\ todo[x] \in Seq(Step)
  BY <1>1, RunsFirst DEF Runs
<1>3. PICK m \in Hold : Does(x, Head(todo[x]), h, m) /\ Runs(x, Tail(todo[x]), m, Nothing)
  BY <1>1, RunsFirst
<1> QED
  BY <1>1, <1>2, <1>3

\* A thread with nothing to do holds nothing.
LEMMA Idles ==
    ASSUME LocksInv, NEW x \in Who, todo[x] = <<>>
    PROVE  Owns(x, Nothing)
<1>1. PICK h \in Hold : Runs(x, todo[x], h, Nothing) /\ Owns(x, h)
  BY DEF LocksInv, Settled
<1> QED
  BY <1>1, RanNone

\* What the step of one thread leaves to the others.
LEMMA OthersKeep ==
    ASSUME LocksInv, NEW x \in Who, NEW more, todo' = [todo EXCEPT ![x] = more],
           NEW h \in Hold, Runs(x, more, h, Nothing), Owns(x, h)',
           \A y \in Who \ {x} : /\ \A k \in Locks : holder'[k] = y <=> holder[k] = y
                                /\ holder["sink"] = y => depth' = depth
    PROVE  /\ todo' \in [Who -> Seq(Step)]
           /\ \A y \in Who : Settled(y)'
<1>1. todo \in [Who -> Seq(Step)] /\ more \in Seq(Step)
  BY DEF LocksInv, LocksTypeOK, Runs
<1>2. todo'[x] = more /\ \A y \in Who \ {x} : todo'[y] = todo[y]
  BY <1>1
<1>3. Settled(x)'
  <2>1. Runs(x, todo'[x], h, Nothing)
    BY <1>2
  <2> QED
    BY <2>1 DEF Settled
<1>4. ASSUME NEW y \in Who \ {x} PROVE Settled(y)'
  <2>1. PICK g \in Hold : Runs(y, todo[y], g, Nothing) /\ Owns(y, g)
    BY DEF LocksInv, Settled
  <2>2. "sink" \in Locks
    BY DEF Locks
  <2>3. Owns(y, g)'
    BY <2>1, <2>2 DEF Owns
  <2>4. Runs(y, todo'[y], g, Nothing)
    BY <1>2, <2>1
  <2> QED
    BY <2>3, <2>4 DEF Settled
<1> QED
  BY <1>1, <1>3, <1>4

\* A step that neither takes nor frees a lock.
LEMMA SameStep ==
    ASSUME LocksInv, NEW x \in Who, todo[x] # <<>>, SameLocks, NEW more, GoOn(x, more),
           \A h, m \in Hold : Does(x, Head(todo[x]), h, m) => Runs(x, more, h, m)
    PROVE  /\ todo' \in [Who -> Seq(Step)]
           /\ \A y \in Who : Settled(y)'
<1>1. PICK h \in Hold, m \in Hold :
         /\ Does(x, Head(todo[x]), h, m) /\ Owns(x, h)
         /\ Runs(x, Tail(todo[x]), m, Nothing)
  BY AtStep
<1>2. Runs(x, more \o Tail(todo[x]), h, Nothing)
  BY <1>1, RunsThen
<1>3. todo' = [todo EXCEPT ![x] = more \o Tail(todo[x])]
  BY DEF GoOn
<1>4. Owns(x, h)'
  BY <1>1 DEF Owns, SameLocks
<1> QED
  BY <1>2, <1>3, <1>4, OthersKeep DEF SameLocks

\* The variables but todo.
PlainOK == /\ holder \in [Locks -> Who \cup {Nobody}] /\ depth \in Nat
           /\ up \in BOOLEAN /\ amode \in BOOLEAN /\ full \in BOOLEAN
           /\ engine \in {"off", "running", "stopping", "exited"}
           /\ uses \in 0..MaxUses
           /\ holder["sink"] = Nobody => depth = 0

LEMMA InvParts ==
    LocksInv <=> PlainOK /\ todo \in [Who -> Seq(Step)] /\ \A x \in Who : Settled(x)
BY DEF LocksInv, LocksTypeOK, PlainOK

LEMMA InvAfter ==
    ASSUME PlainOK', todo' \in [Who -> Seq(Step)], \A x \in Who : Settled(x)'
    PROVE  LocksInv'
BY DEF LocksInv, LocksTypeOK, PlainOK

\* Nothing moves.
LEMMA LocksRest == LocksInv /\ UNCHANGED lockVars => LocksInv'
<1> SUFFICES ASSUME LocksInv, UNCHANGED lockVars PROVE LocksInv'
  OBVIOUS
<1>1. PlainOK' /\ todo' \in [Who -> Seq(Step)]
  BY InvParts DEF lockVars, PlainOK
<1>2. ASSUME NEW x \in Who PROVE Settled(x)'
  <2>1. PICK h \in Hold : Runs(x, todo[x], h, Nothing) /\ Owns(x, h)
    BY InvParts DEF Settled
  <2>2. Owns(x, h)' /\ Runs(x, todo'[x], h, Nothing)
    BY <2>1 DEF lockVars, Owns
  <2> QED
    BY <2>2 DEF Settled
<1> QED
  BY <1>1, <1>2, InvAfter

\* The first state.
LEMMA LocksStart == LocksInit => LocksInv
<1> SUFFICES ASSUME LocksInit PROVE LocksInv
  OBVIOUS
<1>1. PlainOK
  <2>1. "sink" \in Locks
    BY DEF Locks
  <2>2. 0 \in 0..MaxUses
    BY LocksAssumption
  <2>3. holder \in [Locks -> Who \cup {Nobody}]
    BY DEF LocksInit
  <2> QED
    BY <2>1, <2>2, <2>3 DEF LocksInit, PlainOK
<1>2. todo \in [Who -> Seq(Step)]
  BY DEF LocksInit
<1>3. ASSUME NEW x \in Who PROVE Settled(x)
  <2>1. todo[x] = <<>>
    BY DEF LocksInit
  <2>2. Owns(x, Nothing)
    BY LocksAssumption, NothingHeld DEF LocksInit, Owns, Who, Locks
  <2>3. Runs(x, <<>>, Nothing, Nothing)
    BY NothingHeld, RunsNone
  <2> QED
    BY <2>1, <2>2, <2>3, NothingHeld DEF Settled
<1> QED
  BY <1>1, <1>2, <1>3, InvParts

\* A call of the application begins, or a round of the worker.
LEMMA BeginStep ==
    ASSUME LocksInv, NEW x \in Who, todo[x] = <<>>, SameLocks, NEW more,
           todo' = [todo EXCEPT ![x] = more], Runs(x, more, Nothing, Nothing)
    PROVE  /\ todo' \in [Who -> Seq(Step)]
           /\ \A y \in Who : Settled(y)'
<1>1. Owns(x, Nothing) /\ Nothing \in Hold
  BY Idles, NothingHeld
<1>2. Owns(x, Nothing)'
  BY <1>1 DEF Owns, SameLocks, Nothing
<1> QED
  BY <1>1, <1>2, OthersKeep DEF SameLocks

LEMMA UseApiStep ==
    ASSUME LocksInv, NEW x \in User, NEW c \in Api, UseApi(x, c)
    PROVE  LocksInv'
<1>1. x \in Who /\ x # Engine
  BY LocksAssumption DEF Who
<1>2. PlainOK'
  BY InvParts, LocksAssumption DEF UseApi, SameLocks, SameEngine, PlainOK
<1>3. Runs(x, Program(c), Nothing, Nothing)
  BY <1>1, ProgramRuns
<1> QED
  BY <1>1, <1>2, <1>3, BeginStep, InvAfter DEF UseApi

LEMMA WorkStep ==
    ASSUME LocksInv, Work
    PROVE  LocksInv'
<1> DEFINE g == [Nothing EXCEPT !["async"] = @ + 1]
<1>0. Engine \in Who /\ "async" \in Locks /\ "async" # "init" /\ "async" # "file"
  BY DEF Who, Locks
<1>1. PlainOK'
  BY InvParts DEF Work, SameLocks, SameEngine, PlainOK
<1>2. Nothing \in Hold /\ MayTake(Engine, Nothing, "async")
  BY <1>0, NothingHeld DEF MayTake, Below
<1>3. g \in Hold
  BY <1>0, <1>2, TakeHeld
<1> HIDE DEF g
<1>4. Runs(Engine, Do("pop"), g, g)
  BY <1>3, PlainDo DEF Waits, Calling
<1>5. Runs(Engine, With("async", Do("pop")), Nothing, Nothing)
  BY <1>0, <1>2, <1>4, RunsWith DEF g
<1>6. todo' = [todo EXCEPT ![Engine] = With("async", Do("pop"))]
  BY DEF Work, With
<1> QED
  BY <1>0, <1>1, <1>5, <1>6, BeginStep, InvAfter DEF Work

\* A lock is taken.
LEMMA TakeStep ==
    ASSUME LocksInv, NEW x \in Who, TakeLock(x)
    PROVE  LocksInv'
<1> DEFINE k == Head(todo[x]).lock
<1>1. PICK h \in Hold, m \in Hold :
         /\ Does(x, Head(todo[x]), h, m) /\ Owns(x, h)
         /\ Runs(x, Tail(todo[x]), m, Nothing)
  BY AtStep DEF TakeLock, At
<1>2. Head(todo[x]).do = "take" /\ Head(todo[x]) \in Step
  BY AtStep DEF TakeLock, At
<1>3. k \in Locks /\ "sink" \in Locks
  BY <1>2 DEF Step, Locks
<1> HIDE DEF k
<1>4. /\ holder[k] = Nobody \/ (k = "sink" /\ holder[k] = x)
      /\ holder' = [holder EXCEPT ![k] = x]
      /\ depth' = IF k = "sink" THEN depth + 1 ELSE depth
      /\ todo' = [todo EXCEPT ![x] = <<>> \o Tail(todo[x])]
      /\ SameEngine /\ UNCHANGED uses
  BY DEF TakeLock, GoOn, k
<1>5. m = [h EXCEPT ![k] = @ + 1]
  BY <1>1, <1>2 DEF Does, After, Queued, k
<1>6. /\ m[k] = h[k] + 1 /\ \A j \in Locks : j # k => m[j] = h[j]
      /\ h \in [Locks -> Nat]
  BY <1>3, <1>5 DEF Hold
<1>7. PlainOK
  BY InvParts
<1>8. holder \in [Locks -> Who \cup {Nobody}] /\ x # Nobody
  BY <1>7, LocksAssumption DEF PlainOK, Who
<1>9. holder'[k] = x /\ \A j \in Locks : j # k => holder'[j] = holder[j]
  BY <1>3, <1>4, <1>8
<1>10. Owns(x, m)'
  <2>1. \A j \in Locks : holder'[j] = x <=> m[j] > 0
    BY <1>1, <1>3, <1>6, <1>9 DEF Owns
  <2>2. m["sink"] > 0 => depth' = m["sink"]
    <3>1. CASE k # "sink"
      BY <1>1, <1>3, <1>4, <1>6, <3>1 DEF Owns
    <3>2. CASE k = "sink" /\ h["sink"] > 0
      BY <1>1, <1>4, <1>6, <3>2 DEF Owns
    <3>3. CASE k = "sink" /\ ~(h["sink"] > 0)
      <4>1. holder["sink"] = Nobody /\ h["sink"] = 0
        BY <1>1, <1>3, <1>4, <1>6, <3>3 DEF Owns
      <4> QED
        BY <1>4, <1>6, <1>7, <3>3, <4>1 DEF PlainOK
    <3> QED
      BY <3>1, <3>2, <3>3
  <2> QED
    BY <2>1, <2>2 DEF Owns
<1>11. PlainOK'
  <2>1. holder' \in [Locks -> Who \cup {Nobody}]
    BY <1>4, <1>8
  <2>2. holder'["sink"] = Nobody => depth' = 0
    BY <1>3, <1>4, <1>7, <1>8, <1>9 DEF PlainOK
  <2> QED
    BY <1>4, <1>7, <2>1, <2>2 DEF PlainOK, SameEngine
<1>12. ASSUME NEW y \in Who \ {x}
       PROVE  /\ \A j \in Locks : holder'[j] = y <=> holder[j] = y
              /\ holder["sink"] = y => depth' = depth
  <2>1. y # Nobody /\ holder[k] # y
    BY <1>4, LocksAssumption DEF Who
  <2> QED
    BY <1>3, <1>4, <1>9, <2>1
<1>13. Runs(x, <<>> \o Tail(todo[x]), m, Nothing)
  BY <1>1, RunsNone, RunsThen
<1> QED
  BY <1>4, <1>10, <1>11, <1>12, <1>13, OthersKeep, InvAfter

\* A lock is freed.
LEMMA FreeStep ==
    ASSUME LocksInv, NEW x \in Who, FreeLock(x)
    PROVE  LocksInv'
<1> DEFINE k == Head(todo[x]).lock
<1>1. PICK h \in Hold, m \in Hold :
         /\ Does(x, Head(todo[x]), h, m) /\ Owns(x, h)
         /\ Runs(x, Tail(todo[x]), m, Nothing)
  BY AtStep DEF FreeLock, At
<1>2. Head(todo[x]).do = "free" /\ Head(todo[x]) \in Step
  BY AtStep DEF FreeLock, At
<1>3. k \in Locks /\ "sink" \in Locks
  BY <1>2 DEF Step, Locks
<1> HIDE DEF k
<1>4. /\ holder' = IF k = "sink" /\ depth > 1 THEN holder
                   ELSE [holder EXCEPT ![k] = Nobody]
      /\ depth' = IF k = "sink" THEN depth - 1 ELSE depth
      /\ todo' = [todo EXCEPT ![x] = <<>> \o Tail(todo[x])]
      /\ SameEngine /\ UNCHANGED uses
  BY DEF FreeLock, GoOn, k
<1>5. m = [h EXCEPT ![k] = @ - 1] /\ h[k] > 0
  BY <1>1, <1>2 DEF Does, After, Allows, Queued, k
<1>6. /\ m[k] = h[k] - 1 /\ \A j \in Locks : j # k => m[j] = h[j]
      /\ h \in [Locks -> Nat] /\ (k # "sink" => h[k] = 1)
  BY <1>3, <1>5 DEF Hold
<1>7. PlainOK
  BY InvParts
<1>8. holder \in [Locks -> Who \cup {Nobody}] /\ x # Nobody
  BY <1>7, LocksAssumption DEF PlainOK, Who
<1>9. holder[k] = x /\ (k = "sink" => depth = h["sink"])
  BY <1>1, <1>3, <1>5 DEF Owns
<1>10. /\ \A j \in Locks : j # k => holder'[j] = holder[j]
       /\ holder'[k] = IF k = "sink" /\ depth > 1 THEN x ELSE Nobody
  BY <1>3, <1>4, <1>8, <1>9
<1>11. Owns(x, m)'
  <2>1. \A j \in Locks : holder'[j] = x <=> m[j] > 0
    <3>1. holder'[k] = x <=> m[k] > 0
      <4>1. CASE k # "sink"
        BY <1>6, <1>8, <1>10, <4>1
      <4>2. CASE k = "sink"
        <5>1. depth = h[k] /\ h[k] \in Nat
          BY <1>3, <1>6, <1>9, <4>2
        <5> QED
          BY <1>6, <1>8, <1>10, <4>2, <5>1
      <4> QED
        BY <4>1, <4>2
    <3> QED
      BY <1>1, <1>6, <1>10, <3>1 DEF Owns
  <2>2. m["sink"] > 0 => depth' = m["sink"]
    <3>1. CASE k # "sink"
      BY <1>1, <1>3, <1>4, <1>6, <3>1 DEF Owns
    <3>2. CASE k = "sink"
      BY <1>4, <1>6, <1>9, <3>2
    <3> QED
      BY <3>1, <3>2
  <2> QED
    BY <2>1, <2>2 DEF Owns
<1>12. PlainOK'
  <2>1. holder' \in [Locks -> Who \cup {Nobody}]
    BY <1>4, <1>8
  <2>2. depth' \in Nat /\ (holder'["sink"] = Nobody => depth' = 0)
    <3>1. CASE k # "sink"
      BY <1>3, <1>4, <1>7, <1>10, <3>1 DEF PlainOK
    <3>2. CASE k = "sink"
      BY <1>4, <1>5, <1>6, <1>8, <1>9, <1>10, <3>2
    <3> QED
      BY <3>1, <3>2
  <2> QED
    BY <1>4, <1>7, <2>1, <2>2 DEF PlainOK, SameEngine
<1>13. ASSUME NEW y \in Who \ {x}
       PROVE  /\ \A j \in Locks : holder'[j] = y <=> holder[j] = y
              /\ holder["sink"] = y => depth' = depth
  <2>1. y # Nobody /\ y # x
    BY LocksAssumption DEF Who
  <2>2. \A j \in Locks : holder'[j] = y <=> holder[j] = y
    BY <1>9, <1>10, <2>1
  <2>3. holder["sink"] = y => depth' = depth
    BY <1>4, <1>9, <2>1
  <2> QED
    BY <2>2, <2>3
<1>14. Runs(x, <<>> \o Tail(todo[x]), m, Nothing)
  BY <1>1, RunsNone, RunsThen
<1> QED
  BY <1>4, <1>11, <1>12, <1>13, <1>14, OthersKeep, InvAfter

\* g_async_lock is let go by a wait.
LEMMA LetGo ==
    ASSUME LocksInv, NEW x \in Who, todo[x] # <<>>, Head(todo[x]).do \in Queued,
           holder' = [holder EXCEPT !["async"] = Nobody], UNCHANGED depth,
           NEW more, GoOn(x, more),
           \A h \in Hold : Only(h, {"init"}) => Runs(x, more, h, h)
    PROVE  /\ todo' \in [Who -> Seq(Step)]
           /\ \A y \in Who : Settled(y)'
           /\ holder' \in [Locks -> Who \cup {Nobody}]
           /\ holder'["sink"] = holder["sink"]
<1>1. PICK h \in Hold, m \in Hold :
         /\ Does(x, Head(todo[x]), h, m) /\ Owns(x, h)
         /\ Runs(x, Tail(todo[x]), m, Nothing)
  BY AtStep
<1>2. /\ h["async"] = 1 /\ Only(h, {"init", "async"})
      /\ m = [h EXCEPT !["async"] = 0]
  BY <1>1 DEF Does, After, Allows, Queued
<1>3. "async" \in Locks /\ "sink" \in Locks
  BY DEF Locks
<1>4. m["async"] = 0 /\ \A j \in Locks : j # "async" => m[j] = h[j]
  BY <1>2, <1>3 DEF Hold
<1>5. Only(m, {"init"})
  BY <1>2, <1>4 DEF Only
<1>6. holder \in [Locks -> Who \cup {Nobody}]
  BY InvParts DEF PlainOK
<1>7. holder'["async"] = Nobody /\ \A j \in Locks : j # "async" => holder'[j] = holder[j]
  BY <1>3, <1>6
<1>8. x # Nobody
  BY LocksAssumption DEF Who
<1>9. Owns(x, m)'
  <2>1. \A j \in Locks : holder'[j] = x <=> m[j] > 0
    BY <1>1, <1>4, <1>7, <1>8 DEF Owns
  <2>2. m["sink"] > 0 => depth' = m["sink"]
    BY <1>1, <1>3, <1>4 DEF Owns
  <2> QED
    BY <2>1, <2>2 DEF Owns
<1>10. ASSUME NEW y \in Who \ {x}
       PROVE  /\ \A j \in Locks : holder'[j] = y <=> holder[j] = y
              /\ holder["sink"] = y => depth' = depth
  <2>1. y # Nobody /\ y # x
    BY LocksAssumption DEF Who
  <2>2. holder["async"] = x
    BY <1>1, <1>2, <1>3 DEF Owns
  <2> QED
    BY <1>7, <2>1, <2>2
<1>11. Runs(x, more \o Tail(todo[x]), m, Nothing)
  BY <1>1, <1>5, RunsThen
<1>12. todo' = [todo EXCEPT ![x] = more \o Tail(todo[x])]
  BY DEF GoOn
<1>13. todo' \in [Who -> Seq(Step)] /\ \A y \in Who : Settled(y)'
  BY <1>9, <1>10, <1>11, <1>12, OthersKeep
<1> QED
  BY <1>3, <1>6, <1>7, <1>13

\* A step that takes and frees nothing leaves what is held, and the calls that
\* may wait for the worker are made with init_lock at most.
LEMMA Unmoved ==
    ASSUME NEW x, NEW p, NEW h, NEW m, Does(x, p, h, m),
           p.do \notin {"take", "free", "put", "drain"}
    PROVE  /\ m = h
           /\ p.do \in Waits \cup Calling => x # Engine /\ Only(h, {"init"})
           /\ p.do = "callback" => h["sink"] > 0 /\ Only(h, {"init", "sink"})
BY DEF Does, After, Allows, Queued

\* g_async_lock and what is done under it.
LEMMA UnderAsync ==
    ASSUME NEW x, NEW h \in Hold, Only(h, {"init"})
    PROVE  \E g \in Hold : /\ g["async"] = 1 /\ Only(g, {"init", "async"})
                           /\ Runs(x, Take("async"), h, g) /\ Runs(x, Free("async"), g, h)
                           /\ [g EXCEPT !["async"] = 0] = h
<1> DEFINE g == [h EXCEPT !["async"] = @ + 1]
           p == [do |-> "take", lock |-> "async"]
           q == [do |-> "free", lock |-> "async"]
<1>0. "async" \in Locks \ {"init", "file"}
  BY DEF Locks
<1>1. MayTake(x, h, "async") /\ h["async"] = 0 /\ Only(g, {"init", "async"})
  BY <1>0, UnderInit
<1>2. /\ g \in Hold /\ g["async"] > 0 /\ Does(x, p, h, g)
      /\ [g EXCEPT !["async"] = @ - 1] = h
  BY <1>0, <1>1, TakeHeld
<1>3. g["async"] = 1
  BY <1>0, <1>1 DEF Hold
<1>4. p \in Step /\ q \in Step /\ q.do = "free" /\ q.lock = "async"
  BY <1>0, TakeIs
<1> HIDE DEF g, p, q
<1>5. Does(x, q, g, h)
  BY <1>2, <1>4 DEF Does, After, Allows, Queued, Waits, Calling
<1>6. Runs(x, <<p>>, h, g) /\ Runs(x, <<q>>, g, h)
  BY <1>2, <1>4, <1>5, RunsOne
<1>7. g["async"] - 1 = 0
  BY <1>3
<1>8. [g EXCEPT !["async"] = 0] = h
  BY <1>2, <1>7
<1> QED
  BY <1>1, <1>2, <1>3, <1>6, <1>8 DEF Take, Free, p, q

\* A line put into the ring, and the look into it that a flush begins with.
LEMMA QueueRuns ==
    ASSUME NEW x, x # Engine, NEW h \in Hold, Only(h, {"init"}), NEW what \in Queued
    PROVE  Runs(x, Take("async") \o Do(what), h, h)
<1>1. PICK g \in Hold : /\ g["async"] = 1 /\ Only(g, {"init", "async"})
                        /\ Runs(x, Take("async"), h, g)
                        /\ [g EXCEPT !["async"] = 0] = h
  BY UnderAsync
<1> DEFINE p == [do |-> what]
<1>2. p.do = what /\ what \in {"put", "drain"}
  BY DEF Queued
<1> HIDE DEF p
<1>3. Does(x, p, g, h)
  BY <1>1, <1>2 DEF Does, After, Allows, Queued, Waits, Calling
<1>4. Runs(x, Do(what), g, h)
  BY <1>2, <1>3, RunsDo DEF p
<1> QED
  BY <1>1, <1>4, RunsThen

\* The worker is told to stop, waited for and let go.
LEMMA StopRuns ==
    ASSUME NEW x, x # Engine, NEW h \in Hold, Only(h, {"init"})
    PROVE  Runs(x, Take("async") \o Do("halt") \o Free("async") \o Do("join")
                   \o Take("async") \o Do("gone") \o Free("async"), h, h)
<1>1. PICK g \in Hold : Runs(x, Take("async"), h, g) /\ Runs(x, Free("async"), g, h)
  BY UnderAsync
<1>2. /\ Runs(x, Do("halt"), g, g) /\ Runs(x, Do("gone"), g, g)
      /\ Runs(x, Do("join"), h, h)
  BY PlainDo DEF Waits, Calling
<1>3. Runs(x, Take("async") \o Do("halt"), h, g)
  BY <1>1, <1>2, RunsThen
<1>4. Runs(x, Take("async") \o Do("halt") \o Free("async"), h, h)
  BY <1>1, <1>3, RunsThen
<1>5. Runs(x, Take("async") \o Do("halt") \o Free("async") \o Do("join"), h, h)
  BY <1>2, <1>4, RunsThen
<1>6. Runs(x, Take("async") \o Do("halt") \o Free("async") \o Do("join")
              \o Take("async"), h, g)
  BY <1>1, <1>5, RunsThen
<1>7. Runs(x, Take("async") \o Do("halt") \o Free("async") \o Do("join")
              \o Take("async") \o Do("gone"), h, g)
  BY <1>2, <1>6, RunsThen
<1> QED
  BY <1>1, <1>7, RunsThen

\* The steps of a call that take and free nothing.
CallStep(x) == \/ Callback(x) \/ Pending(x) \/ Dispatch(x) \/ FlushQueue(x)
               \/ Resume(x) \/ Stop(x) \/ Start(x)

LEMMA CallKeeps ==
    ASSUME QuietCallbacks, LocksInv, NEW x \in Who, CallStep(x)
    PROVE  LocksInv'
<1> DEFINE p == Head(todo[x])
<1>1. PlainOK'
  BY InvParts DEF CallStep, Callback, Pending, Dispatch, FlushQueue, Resume, Stop, Start,
     SameLocks, SameEngine, PlainOK
<1>2. todo[x] # <<>> /\ SameLocks
  BY DEF CallStep, Callback, Pending, Dispatch, FlushQueue, Resume, Stop, Start, At
<1>3. PICK more :
         /\ GoOn(x, more)
         /\ \/ p.do \in Calling \cup Waits \cup {"callback"} /\ more = <<>>
            \/ p.do = "callback" /\ \E c \in Reentrant : more = Program(c)
            \/ p.do = "pending" /\ more = Visit("ring") \o Do("dispatch")
            \/ p.do = "dispatch" /\ (\/ more = Take("async") \o Do("put")
                                     \/ more = WriteSinks)
            \/ p.do = "flushq" /\ more = Take("async") \o Do("drain")
            \/ p.do \in {"empty", "start"} /\ more = Visit("async")
            \/ p.do = "stop" /\ more = Take("async") \o Do("halt") \o Free("async")
                  \o Do("join") \o Take("async") \o Do("gone") \o Free("async")
  <2>1. CASE Callback(x)
    BY <2>1 DEF Callback, At
  <2>2. CASE Pending(x)
    BY <2>2 DEF Pending, At, Calling
  <2>3. CASE Dispatch(x)
    BY <2>3 DEF Dispatch, At
  <2>4. CASE FlushQueue(x)
    BY <2>4 DEF FlushQueue, At, Calling
  <2>5. CASE Resume(x)
    BY <2>5 DEF Resume, At, Waits
  <2>6. CASE Stop(x)
    BY <2>6 DEF Stop, At, Calling
  <2>7. CASE Start(x)
    BY <2>7 DEF Start, At, Calling
  <2> QED
    BY <2>1, <2>2, <2>3, <2>4, <2>5, <2>6, <2>7 DEF CallStep
<1> HIDE DEF p
<1>4. p.do \notin {"take", "free", "put", "drain"}
  BY <1>3 DEF Calling, Waits
<1>5. ASSUME NEW h \in Hold, NEW m \in Hold, Does(x, p, h, m)
      PROVE  Runs(x, more, h, m)
  <2>1. /\ m = h
        /\ p.do \in Waits \cup Calling => x # Engine /\ Only(h, {"init"})
        /\ p.do = "callback" => h["sink"] > 0 /\ Only(h, {"init", "sink"})
    BY <1>4, <1>5, Unmoved
  <2>2. CASE more = <<>>
    BY <2>1, <2>2, RunsNone
  <2>3. CASE p.do = "callback" /\ \E c \in Reentrant : more = Program(c)
    <3>1. \E c \in {"sinks", "stats", "loggers"} : more = Program(c)
      BY <2>3 DEF QuietCallbacks
    <3> QED
      BY <2>1, <2>3, <3>1, QuietRuns
  <2>4. CASE p.do \in Waits \cup Calling
    <3>1. x # Engine /\ Only(h, {"init"})
      BY <2>1, <2>4
    <3>2. /\ Runs(x, Visit("ring"), h, h) /\ Runs(x, Do("dispatch"), h, h)
          /\ Runs(x, Visit("async"), h, h)
      BY <3>1, VisitUnderInit, PlainDo DEF Locks
    <3>3. Runs(x, Visit("ring") \o Do("dispatch"), h, h)
      BY <3>2, RunsThen
    <3>4. /\ Runs(x, Take("async") \o Do("put"), h, h)
          /\ Runs(x, Take("async") \o Do("drain"), h, h)
      BY <3>1, QueueRuns DEF Queued
    <3>5. Runs(x, WriteSinks, h, h)
      BY <3>1, WriteRuns
    <3>6. p.do # "callback"
      BY <2>4 DEF Waits, Calling
    <3> QED
      BY <1>3, <2>1, <2>2, <3>1, <3>2, <3>3, <3>4, <3>5, <3>6, StopRuns
  <2>5. p.do \in Waits \cup Calling \/ p.do = "callback"
    BY <1>3 DEF Waits, Calling
  <2> QED
    BY <1>3, <2>2, <2>3, <2>4, <2>5 DEF Waits, Calling
<1>6. todo' \in [Who -> Seq(Step)] /\ \A y \in Who : Settled(y)'
  BY <1>2, <1>3, <1>5, SameStep DEF p
<1> QED
  BY <1>1, <1>6, InvAfter

\* The steps of one assignment.
FlagStep(x) == Halt(x) \/ Join(x) \/ Gone(x) \/ (x = Engine /\ Exit) \/ Published(x) \/ Forked(x)

LEMMA FlagKeeps ==
    ASSUME LocksInv, NEW x \in Who, FlagStep(x)
    PROVE  LocksInv'
<1> DEFINE p == Head(todo[x])
<1>1. PlainOK'
  <2>1. CASE Published(x)
    <3>1. At(x, "up") \in BOOLEAN
      BY DEF At
    <3>2. up' \in BOOLEAN
      BY <2>1, <3>1 DEF Published
    <3> QED
      BY <2>1, <3>2, InvParts DEF Published, SameLocks, PlainOK
  <2>2. CASE Forked(x)
    BY <2>2, InvParts DEF Forked, SameLocks, SameEngine, PlainOK
  <2>3. CASE Halt(x) \/ Join(x) \/ Gone(x) \/ (x = Engine /\ Exit)
    BY <2>3, InvParts DEF Halt, Join, Gone, Exit, Flag, SameLocks, PlainOK
  <2> QED
    BY <2>1, <2>2, <2>3 DEF FlagStep
<1>2. /\ todo[x] # <<>> /\ SameLocks /\ GoOn(x, <<>>)
      /\ p.do \in {"halt", "join", "gone", "exit", "up", "down", "fork"}
  BY DEF FlagStep, Halt, Join, Gone, Exit, Flag, Published, Forked, At
<1> HIDE DEF p
<1>3. ASSUME NEW h \in Hold, NEW m \in Hold, Does(x, p, h, m)
      PROVE  Runs(x, <<>>, h, m)
  BY <1>2, <1>3, Unmoved, RunsNone
<1>4. todo' \in [Who -> Seq(Step)] /\ \A y \in Who : Settled(y)'
  BY <1>2, <1>3, SameStep DEF p
<1> QED
  BY <1>1, <1>4, InvAfter

\* A line is put into the ring, written when there is no worker, or waits.
LEMMA PutKeeps ==
    ASSUME LocksInv, NEW x \in Who, Put(x) \/ Drain(x)
    PROVE  LocksInv'
<1> DEFINE p == Head(todo[x])
<1>1. todo[x] # <<>> /\ p.do \in Queued
  BY DEF Put, Drain, At, Queued
<1>2. PICK h0 \in Hold, m0 \in Hold : Does(x, p, h0, m0)
  BY <1>1, AtStep
<1>3. x # Engine
  BY <1>1, <1>2 DEF Does, Allows
<1>4. /\ UNCHANGED <<depth, up, amode, engine, uses>>
      /\ full' \in BOOLEAN
  BY InvParts DEF Put, Drain, SameEngine, PlainOK
<1>5. \/ SameLocks /\ (GoOn(x, Free("async") \o WriteSinks) \/ GoOn(x, Free("async")))
      \/ /\ holder' = [holder EXCEPT !["async"] = Nobody]
         /\ \/ GoOn(x, Do("room") \o Take("async") \o Do("put"))
            \/ GoOn(x, Do("empty"))
  <2>1. CASE Put(x)
    BY <2>1 DEF Put, SameLocks
  <2>2. CASE Drain(x)
    BY <2>2 DEF Drain, SameLocks
  <2> QED
    BY <2>1, <2>2
<1>6. CASE SameLocks /\ (GoOn(x, Free("async") \o WriteSinks) \/ GoOn(x, Free("async")))
  <2>1. PICK more \in {Free("async") \o WriteSinks, Free("async")} : GoOn(x, more)
    BY <1>6
  <2>2. ASSUME NEW h \in Hold, NEW m \in Hold, Does(x, p, h, m)
        PROVE  Runs(x, more, h, m)
    <3>1. h["async"] = 1 /\ Only(h, {"init", "async"}) /\ m = [h EXCEPT !["async"] = 0]
      BY <1>1, <2>2 DEF Does, After, Allows, Queued
    <3>2. "async" \in Locks
      BY DEF Locks
    <3>3. Only(m, {"init"})
      BY <3>1, <3>2 DEF Only, Hold
    <3> DEFINE q == [do |-> "free", lock |-> "async"]
    <3>4. q \in Step /\ q.do = "free" /\ q.lock = "async"
      BY <3>2, TakeIs
    <3> HIDE DEF q
    <3>5. m = [h EXCEPT !["async"] = @ - 1]
      <4>1. h["async"] - 1 = 0
        BY <3>1
      <4> QED
        BY <3>1, <4>1
    <3>6. h["async"] > 0
      BY <3>1
    <3>7. Does(x, q, h, m)
      BY <3>4, <3>5, <3>6 DEF Does, After, Allows, Queued, Waits, Calling
    <3>8. Runs(x, Free("async"), h, m)
      BY <3>4, <3>7, RunsOne DEF Free, q
    <3>9. Runs(x, WriteSinks, m, m)
      BY <3>3, WriteRuns
    <3> QED
      BY <2>1, <3>8, <3>9, RunsThen
  <2>3. todo' \in [Who -> Seq(Step)] /\ \A y \in Who : Settled(y)'
    BY <1>1, <1>6, <2>1, <2>2, SameStep
  <2>4. PlainOK'
    BY <1>4, <1>6, InvParts DEF SameLocks, PlainOK
  <2> QED
    BY <2>3, <2>4, InvAfter
<1>7. CASE /\ holder' = [holder EXCEPT !["async"] = Nobody]
           /\ \/ GoOn(x, Do("room") \o Take("async") \o Do("put"))
              \/ GoOn(x, Do("empty"))
  <2>1. PICK more \in {Do("room") \o Take("async") \o Do("put"), Do("empty")} : GoOn(x, more)
    BY <1>7
  <2>2. ASSUME NEW h \in Hold, Only(h, {"init"})
        PROVE  Runs(x, more, h, h)
    <3>1. Runs(x, Do("room"), h, h) /\ Runs(x, Do("empty"), h, h)
      BY <1>3, <2>2, PlainDo DEF Waits, Calling
    <3>2. PICK g \in Hold : /\ g["async"] = 1 /\ Only(g, {"init", "async"})
                            /\ Runs(x, Take("async"), h, g)
                            /\ [g EXCEPT !["async"] = 0] = h
      BY <2>2, UnderAsync
    <3> DEFINE q == [do |-> "put"]
    <3>3. q.do = "put"
      OBVIOUS
    <3> HIDE DEF q
    <3>4. Does(x, q, g, h)
      BY <1>3, <3>2, <3>3 DEF Does, After, Allows, Queued, Waits, Calling
    <3>5. Runs(x, Do("put"), g, h)
      BY <3>4, RunsDo DEF q
    <3>6. Runs(x, Do("room") \o Take("async"), h, g)
      BY <3>1, <3>2, RunsThen
    <3>7. Runs(x, Do("room") \o Take("async") \o Do("put"), h, h)
      BY <3>5, <3>6, RunsThen
    <3> QED
      BY <2>1, <3>1, <3>7
  <2>3. /\ todo' \in [Who -> Seq(Step)] /\ \A y \in Who : Settled(y)'
        /\ holder' \in [Locks -> Who \cup {Nobody}]
        /\ holder'["sink"] = holder["sink"]
    BY <1>1, <1>4, <1>7, <2>1, <2>2, LetGo
  <2>4. PlainOK'
    BY <1>4, <2>3, InvParts DEF PlainOK
  <2> QED
    BY <2>3, <2>4, InvAfter
<1> QED
  BY <1>5, <1>6, <1>7

\* The worker takes a line and writes it, or flushes, and ends when it is told.
LEMMA PoppedKeeps ==
    ASSUME LocksInv, Popped
    PROVE  LocksInv'
<1> DEFINE p == Head(todo[Engine])
           more == IF full THEN WriteSinks
                   ELSE FlushSinks \o (IF engine = "stopping" THEN Do("exit") ELSE <<>>)
<1>1. Engine \in Who /\ todo[Engine] # <<>> /\ p.do = "pop" /\ SameLocks
  BY DEF Who, Popped, At
<1>2. todo' = [todo EXCEPT ![Engine] = Tail(todo[Engine]) \o more]
  BY DEF Popped
<1>3. Nothing \in Hold /\ Only(Nothing, {"init"})
  BY NothingHeld DEF Only
<1>4. Runs(Engine, more, Nothing, Nothing)
  <2>1. /\ Runs(Engine, WriteSinks, Nothing, Nothing)
        /\ Runs(Engine, FlushSinks, Nothing, Nothing)
        /\ Runs(Engine, <<>>, Nothing, Nothing)
    BY <1>3, WriteRuns, FlushRuns, RunsNone
  <2>2. Runs(Engine, Do("exit"), Nothing, Nothing)
    BY <1>3, PlainDo DEF Waits, Calling
  <2>3. /\ Runs(Engine, FlushSinks \o Do("exit"), Nothing, Nothing)
        /\ Runs(Engine, FlushSinks \o <<>>, Nothing, Nothing)
    BY <2>1, <2>2, RunsThen
  <2>4. CASE full
    BY <2>1, <2>4
  <2>5. CASE ~full /\ engine = "stopping"
    BY <2>3, <2>5
  <2>6. CASE ~full /\ engine # "stopping"
    BY <2>3, <2>6
  <2> QED
    BY <2>4, <2>5, <2>6
<1> HIDE DEF p, more
<1>5. PICK h \in Hold, m \in Hold :
         /\ Does(Engine, p, h, m) /\ Owns(Engine, h)
         /\ Runs(Engine, Tail(todo[Engine]), m, Nothing)
  BY <1>1, AtStep DEF p
<1>6. m = h
  BY <1>1, <1>5, Unmoved
<1>7. Runs(Engine, Tail(todo[Engine]) \o more, h, Nothing)
  BY <1>4, <1>5, <1>6, RunsThen
<1>8. Owns(Engine, h)'
  BY <1>1, <1>5 DEF Owns, SameLocks
<1>9. todo' \in [Who -> Seq(Step)] /\ \A y \in Who : Settled(y)'
  BY <1>1, <1>2, <1>7, <1>8, OthersKeep DEF SameLocks
<1>10. PlainOK'
  BY InvParts DEF Popped, SameLocks, PlainOK
<1> QED
  BY <1>9, <1>10, InvAfter

\* Every step.
LEMMA LocksKept == QuietCallbacks /\ LocksInv /\ [LocksNext]_lockVars => LocksInv'
<1> SUFFICES ASSUME QuietCallbacks, LocksInv, [LocksNext]_lockVars PROVE LocksInv'
  OBVIOUS
<1>1. CASE UNCHANGED lockVars
  BY <1>1, LocksRest
<1>2. ASSUME NEW x \in User, NEW c \in Api, UseApi(x, c) PROVE LocksInv'
  BY <1>2, UseApiStep
<1>3. ASSUME NEW x \in Who,
             \/ TakeLock(x) \/ FreeLock(x) \/ Put(x) \/ Drain(x)
             \/ CallStep(x) \/ FlagStep(x)
      PROVE  LocksInv'
  BY <1>3, TakeStep, FreeStep, PutKeeps, CallKeeps, FlagKeeps
<1>4. CASE Work
  BY <1>4, WorkStep
<1>5. CASE Popped
  BY <1>5, PoppedKeeps
<1>6. CASE Exit
  <2>1. Engine \in Who /\ FlagStep(Engine)
    BY <1>6 DEF Who, FlagStep
  <2> QED
    BY <1>3, <2>1
<1>7. ASSUME NEW x \in Who,
             \/ TakeLock(x) \/ FreeLock(x) \/ Callback(x) \/ Pending(x) \/ Dispatch(x)
             \/ Put(x) \/ FlushQueue(x) \/ Drain(x) \/ Resume(x) \/ Stop(x) \/ Halt(x)
             \/ Join(x) \/ Gone(x) \/ Start(x) \/ Published(x) \/ Forked(x)
      PROVE  LocksInv'
  BY <1>3, <1>7 DEF CallStep, FlagStep
<1> QED
  BY <1>1, <1>2, <1>4, <1>5, <1>6, <1>7 DEF LocksNext, Api

-----------------------------------------------------------------------------
(***************************************************************************)
(* The theorems.                                                           *)
(***************************************************************************)

\* Whoever holds a file sink's lock holds sink_lock.
LEMMA FileUnderSink ==
    ASSUME LocksInv, NEW y \in Who, holder["file"] = y
    PROVE  holder["sink"] = y
<1>1. PICK h \in Hold : Owns(y, h)
  BY DEF LocksInv, Settled
<1>2. "file" \in Locks /\ "sink" \in Locks
  BY DEF Locks
<1> QED
  BY <1>1, <1>2 DEF Owns, Hold

\* A forking thread holds what is held.
LEMMA ForkOwns == LocksInv => ForkOwnsTheLocks
<1> SUFFICES ASSUME LocksInv, NEW x \in User, At(x, "fork"), NEW k \in Locks
             PROVE  holder[k] \in {x, Nobody}
  BY DEF ForkOwnsTheLocks
<1>1. x \in Who /\ todo[x] # <<>> /\ Head(todo[x]).do = "fork"
  BY DEF Who, At
<1>2. PICK h \in Hold, m \in Hold : Does(x, Head(todo[x]), h, m) /\ Owns(x, h)
  BY <1>1, AtStep
<1>3. \A j \in Locks \ {"file"} : h[j] > 0
  BY <1>1, <1>2 DEF Does, Allows
<1>4. \A j \in Locks \ {"file"} : holder[j] = x
  BY <1>2, <1>3 DEF Owns
<1>5. CASE k = "file"
  <2>1. holder["sink"] = x
    BY <1>4 DEF Locks
  <2>2. holder["file"] \in Who \cup {Nobody}
    BY InvParts DEF PlainOK, Locks
  <2> QED
    BY <1>5, <2>1, <2>2, FileUnderSink
<1> QED
  BY <1>4, <1>5

\* A thread waits for the holder of a lock that comes above all it holds, or
\* for the worker with init_lock at most.
LEMMA WaitIs ==
    ASSUME LocksInv, NEW x \in Who, NEW y \in WaitsFor(x)
    PROVE  \/ \E k \in Locks : /\ holder[k] = y /\ (x = Engine => k # "init")
                               /\ \A j \in Locks : holder[j] = x => Rank(j) < Rank(k)
           \/ y = Engine /\ x # Engine /\ \A j \in Locks : holder[j] = x => j = "init"
<1>1. At(x, "take") \/ At(x, "room") \/ At(x, "empty") \/ At(x, "join")
  BY DEF WaitsFor
<1>2. todo[x] # <<>>
  BY <1>1 DEF At
<1>3. PICK h \in Hold, m \in Hold : Does(x, Head(todo[x]), h, m) /\ Owns(x, h)
  BY <1>2, AtStep
<1>4. Head(todo[x]) \in Step
  BY <1>2, AtStep
<1>5. CASE At(x, "take")
  <2> DEFINE k == Head(todo[x]).lock
  <2>1. Head(todo[x]).do = "take"
    BY <1>5 DEF At
  <2>2. k \in Locks
    BY <1>4, <2>1 DEF Step
  <2>3. MayTake(x, h, k)
    BY <1>3, <2>1 DEF Does, Allows
  <2>4. /\ y = holder[k]
        /\ ~(holder[k] = Nobody \/ (k = "sink" /\ holder[k] = x))
    <3>1. ~At(x, "room") /\ ~At(x, "empty") /\ ~At(x, "join")
      BY <2>1 DEF At
    <3>2. WaitsFor(x) = IF holder[k] = Nobody \/ (k = "sink" /\ holder[k] = x)
                        THEN {} ELSE {holder[k]}
      BY <1>5, <3>1 DEF WaitsFor
    <3> HIDE DEF k
    <3> QED
      BY <3>2
  <2> HIDE DEF k
  <2>5. ~(k = "sink" /\ h["sink"] > 0)
    BY <1>3, <2>2, <2>4 DEF Owns
  <2>6. Below(h, k) /\ (x = Engine => k # "init")
    BY <2>3, <2>5 DEF MayTake
  <2>7. \A j \in Locks : holder[j] = x => Rank(j) < Rank(k)
    BY <1>3, <2>6 DEF Below, Owns
  <2> QED
    BY <2>2, <2>4, <2>6, <2>7
<1>6. CASE ~At(x, "take")
  <2>1. Head(todo[x]).do \in Waits
    BY <1>1, <1>6 DEF At, Waits
  <2>2. x # Engine /\ Only(h, {"init"})
    BY <1>3, <2>1 DEF Does, Allows
  <2>3. y = Engine
    BY <1>1, <1>6 DEF WaitsFor
  <2>4. \A j \in Locks : holder[j] = x => j = "init"
    BY <1>3, <2>2 DEF Only, Owns
  <2> QED
    BY <2>2, <2>3, <2>4
<1> QED
  BY <1>5, <1>6

\* One of some ranks is the highest.
LEMMA Highest ==
    ASSUME NEW R \in SUBSET (1..9), R # {}
    PROVE  \E r \in R : \A q \in R : q <= r
<1>1. \A q \in R : \/ q = 1 \/ q = 2 \/ q = 3 \/ q = 4 \/ q = 5
                   \/ q = 6 \/ q = 7 \/ q = 8 \/ q = 9
  OBVIOUS
<1>2. CASE 9 \in R
  BY <1>1, <1>2
<1>3. CASE 9 \notin R /\ 8 \in R
  BY <1>1, <1>3
<1>4. CASE {8, 9} \cap R = {} /\ 7 \in R
  BY <1>1, <1>4
<1>5. CASE {7, 8, 9} \cap R = {} /\ 6 \in R
  BY <1>1, <1>5
<1>6. CASE {6, 7, 8, 9} \cap R = {} /\ 5 \in R
  BY <1>1, <1>6
<1>7. CASE {5, 6, 7, 8, 9} \cap R = {} /\ 4 \in R
  BY <1>1, <1>7
<1>8. CASE {4, 5, 6, 7, 8, 9} \cap R = {} /\ 3 \in R
  BY <1>1, <1>8
<1>9. CASE {3, 4, 5, 6, 7, 8, 9} \cap R = {} /\ 2 \in R
  BY <1>1, <1>9
<1>10. CASE {2, 3, 4, 5, 6, 7, 8, 9} \cap R = {} /\ 1 \in R
  BY <1>1, <1>10
<1> QED
  BY <1>1, <1>2, <1>3, <1>4, <1>5, <1>6, <1>7, <1>8, <1>9, <1>10

\* Of threads that wait for each other, the holder of the highest lock waited
\* for would wait for a higher one, or for the worker, which waits for a lock.
LEMMA NoCircle == LocksInv => NobodyWaitsInCircle
<1> SUFFICES ASSUME LocksInv, NEW S \in (SUBSET Who) \ {{}},
                    ~(\E x \in S : WaitsFor(x) \cap S = {})
             PROVE  FALSE
  BY Zenon DEF NobodyWaitsInCircle
<1>0. S \subseteq Who /\ S # {} /\ \A x \in S : WaitsFor(x) \cap S # {}
  OBVIOUS
<1> DEFINE K == {k \in Locks : holder[k] \in S}
           Climbs(x) == \E k \in K : /\ x = Engine => k # "init"
                                     /\ \A j \in Locks : holder[j] = x => Rank(j) < Rank(k)
<1>1. ASSUME NEW x \in S
      PROVE  \/ Climbs(x)
             \/ /\ Engine \in S /\ x # Engine
                /\ \A j \in Locks : holder[j] = x => j = "init"
  <2>1. PICK y \in S : y \in WaitsFor(x)
    BY <1>0
  <2>2. CASE \E k \in Locks : /\ holder[k] = y /\ (x = Engine => k # "init")
                              /\ \A j \in Locks : holder[j] = x => Rank(j) < Rank(k)
    BY <2>2
  <2>3. x \in Who
    BY <1>0
  <2> QED
    BY <2>1, <2>2, <2>3, WaitIs
<1>2. Engine \in S => Climbs(Engine)
  BY <1>1
<1>3. K # {}
  BY <1>0, <1>1, <1>2
<1> DEFINE R == {Rank(k) : k \in K}
<1>4. R \in SUBSET (1..9) /\ R # {}
  <2>1. \A k \in Locks : Rank(k) \in 1..9
    BY Ranks DEF Locks
  <2> QED
    BY <1>3, <2>1
<1>5. PICK r \in R : \A q \in R : q <= r
  BY <1>4, Highest
<1>6. PICK k \in K : Rank(k) = r
  OBVIOUS
<1>7. \A j \in K : Rank(j) \in Int /\ Rank(k) \in Int /\ Rank(j) <= Rank(k)
  BY <1>4, <1>5, <1>6
<1>8. k \in Locks /\ holder[k] \in S
  OBVIOUS
<1>9. ~Climbs(holder[k])
  BY <1>7, <1>8
<1>10. Engine \in S /\ k = "init"
  BY <1>1, <1>8, <1>9
<1>11. PICK j \in K : j # "init"
  BY <1>2, <1>10
<1>12. Rank("init") < Rank(j)
  BY <1>11, Ranks DEF Locks
<1> QED
  BY <1>7, <1>10, <1>12

\* What a thread holds is what its remaining steps free, and they take the
\* locks in one order; this is the inductive invariant of the locks and waits.
THEOREM LocksInvariant == ASSUME QuietCallbacks PROVE LocksSpec => []LocksInv
<1>1. QuietCallbacks
  OBVIOUS
<1> QED
  BY <1>1, LocksStart, LocksKept, PTL DEF LocksSpec

\* Every variable of the locks keeps its type (the lock order documented at
\* core_atfork_prepare, the recursion of sink_lock).
THEOREM LocksTypeCorrect == ASSUME QuietCallbacks PROVE LocksSpec => []LocksTypeOK
<1>1. LocksInv => LocksTypeOK
  BY DEF LocksInv
<1>2. LocksSpec => []LocksInv
  BY LocksInvariant
<1> QED
  BY <1>1, <1>2, PTL

\* At a fork the forking thread holds every lock that is held, so the child
\* inherits no lock of a thread it does not have (core_atfork_prepare).
THEOREM ForkLeavesNoLock == ASSUME QuietCallbacks PROVE LocksSpec => []ForkOwnsTheLocks
<1>1. LocksSpec => []LocksInv
  BY LocksInvariant
<1> QED
  BY <1>1, ForkOwns, PTL

\* No threads wait for each other, for any number of threads and calls, forks
\* and callbacks among them (the order of nested locks, hx_async_stop's join,
\* the waits for space and for an empty ring).
THEOREM NoDeadlock == ASSUME QuietCallbacks PROVE LocksSpec => []NobodyWaitsInCircle
<1>1. LocksSpec => []LocksInv
  BY LocksInvariant
<1> QED
  BY <1>1, NoCircle, PTL

=============================================================================
