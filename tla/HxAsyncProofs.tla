--------------------------- MODULE HxAsyncProofs ---------------------------
(***************************************************************************)
(* Proofs about the asynchronous engine (HxAsync), for every number of     *)
(* threads, lines, configurations and restarts.                            *)
(***************************************************************************)
EXTENDS HxAsync, TLAPS

-----------------------------------------------------------------------------
(***************************************************************************)
(* The index arithmetic of the ring.                                       *)
(***************************************************************************)

\* An index plus less than a full turn wraps at most once.
LEMMA Wrap ==
    ASSUME NEW c \in Nat \ {0}, NEW i \in 0..c - 1, NEW k \in 0..c
    PROVE  /\ (i + k) % c = IF i + k >= c THEN i + k - c ELSE i + k
           /\ (i + k) % c \in 0..c - 1
OBVIOUS

RingTyped == /\ capacity \in Nat \ {0}
             /\ slots \in [0..capacity - 1 -> Line \cup {NoLine}]
             /\ head \in 0..capacity - 1 /\ tail \in 0..capacity - 1
             /\ count \in 0..capacity
             /\ tail = (head + count) % capacity

\* A running engine has slots, and its indices lie in them.
LEMMA RunningRing ==
    ASSUME TypeOK, RingConsistent, running
    PROVE  RingTyped
<1>1. slots \in [0..capacity - 1 -> Line \cup {NoLine}]
  BY DEF TypeOK, RingTypeOK, RingConsistent
<1>2. capacity \in Nat \ {0}
  BY DEF TypeOK, RingTypeOK, RingConsistent
<1>3. head \in 0..capacity - 1 /\ count \in 0..capacity
  BY <1>2 DEF TypeOK, RingTypeOK, RingConsistent
<1>4. tail = (head + count) % capacity /\ tail \in 0..capacity - 1
  BY <1>2, <1>3, Wrap DEF RingConsistent
<1> QED
  BY <1>1, <1>2, <1>3, <1>4 DEF RingTyped

\* The index after i.
LEMMA After ==
    ASSUME NEW c \in Nat \ {0}, NEW i \in 0..c - 1
    PROVE  /\ (i + 1) % c = IF i + 1 = c THEN 0 ELSE i + 1
           /\ (i + 1) % c \in 0..c - 1
OBVIOUS

\* One step after the k-th index from i is the (k+1)-th: what keeps tail, or
\* a reader of the ring, in step with head when a line is added or removed.
LEMMA NextWrap ==
    ASSUME NEW c \in Nat \ {0}, NEW i \in 0..c - 1, NEW k \in 0..c - 1
    PROVE  /\ (((i + k) % c) + 1) % c = (i + (k + 1)) % c
           /\ (((i + 1) % c) + k) % c = (i + (k + 1)) % c
OBVIOUS

\* The oldest line of a ring is at the index head itself.
LEMMA FirstIndex ==
    ASSUME NEW c \in Nat \ {0}, NEW i \in 0..c - 1
    PROVE  (i + 0) % c = i
OBVIOUS

\* An emptied ring has indices in range.
LEMMA ZeroIndex ==
    ASSUME NEW c \in Nat \ {0}, NEW h, NEW n, h = 0, n = 0
    PROVE  (h + n) % c = 0 /\ h \in 0..c - 1 /\ n <= c
OBVIOUS

\* Removing the oldest line keeps the indices of a ring in step.
LEMMA PopKeepsRing ==
    ASSUME RingTyped, count > 0
    PROVE  /\ Next1(head) \in 0..capacity - 1
           /\ count - 1 \in 0..capacity
           /\ tail = (Next1(head) + (count - 1)) % capacity
<1>1. Next1(head) \in 0..capacity - 1
  BY After DEF RingTyped, Next1
<1>2. count - 1 \in 0..capacity - 1
  BY DEF RingTyped
<1>3. (Next1(head) + (count - 1)) % capacity = (head + ((count - 1) + 1)) % capacity
  BY <1>2, NextWrap DEF RingTyped, Next1
<1> QED
  BY <1>1, <1>2, <1>3 DEF RingTyped

\* The line a call holds is a line.
LEMMA CurIsLine ==
    ASSUME TypeOK, ThreadsAgree, NEW t \in Thread,
           call[t] \in {"enq", "blocked", "woken"}
    PROVE  cur(t) \in Line
BY DEF TypeOK, CallTypeOK, ThreadsAgree, CallsHoldLines, cur, Line

-----------------------------------------------------------------------------
(***************************************************************************)
(* Type correctness, one step per action.                                  *)
(***************************************************************************)
LEMMA FlagStep ==
    ASSUME FlagTypeOK, [Next]_vars
    PROVE  FlagTypeOK'
<1> USE DEF FlagTypeOK, vars, engineVars, ringVars, configVars, workerVars, callVars
<1>1. ASSUME NEW t \in Thread, Submit(t) \/ Enqueue(t) \/ SpuriousWakeup(t)
      PROVE  FlagTypeOK'
  BY <1>1 DEF Submit, Enqueue, EnqueueRefuse, EnqueueDropNew, EnqueueBlock,
     EnqueuePush, EnqueueDropOld, EnqueueNoMemory, EnqueueDropOldNoMemory,
     SpuriousWakeup
<1>2. ASSUME NEW t \in Thread,
             FlushBegin(t) \/ FlushReturn(t) \/ ForkChild(t)
      PROVE  FlagTypeOK'
  BY <1>2 DEF FlushBegin, AsyncFlush, FlushReturn, ForkChild
<1>3. CASE Worker
  BY <1>3 DEF Worker, WorkerLoop, WorkerTick, WorkerProceed, WorkerSync,
     WorkerTake, WorkerSkip, WorkerEmit, WorkerRelock, WorkerBatchEnd
<1>4. CASE Control
  BY <1>4 DEF Control, StartBegin, AsyncStart, StartThread, StartFail,
     StopBegin, StopDetach
<1>5. CASE Terminated \/ UNCHANGED vars
  BY <1>5 DEF Terminated
<1> QED
  BY <1>1, <1>2, <1>3, <1>4, <1>5 DEF Next

\* The worker's program counter, scratch line and batch counter keep
\* their types: what it takes from the ring is a line.
LEMMA WorkerTypeStep ==
    ASSUME TypeOK, RingConsistent, ThreadsAgree, [Next]_vars
    PROVE  WorkerTypeOK'
<1> USE DEF TypeOK, WorkerTypeOK, vars, workerVars
<1>1. ASSUME NEW t \in Thread, Submit(t) \/ Enqueue(t) \/ SpuriousWakeup(t)
      PROVE  WorkerTypeOK'
  BY <1>1 DEF Submit, Enqueue, EnqueueRefuse, EnqueueDropNew, EnqueueBlock,
     EnqueuePush, EnqueueDropOld, EnqueueNoMemory, EnqueueDropOldNoMemory,
     SpuriousWakeup, SignalNotEmpty
<1>2. ASSUME NEW t \in Thread,
             FlushBegin(t) \/ FlushReturn(t) \/ ForkChild(t)
      PROVE  WorkerTypeOK'
  BY <1>2 DEF FlushBegin, AsyncFlush, FlushReturn, ForkChild, SignalNotEmpty
<1>3. CASE WorkerTake
  <2>1. RingTyped
    BY <1>3, RunningRing DEF WorkerTake, InBatch, ThreadsAgree, PhasesAgree
  <2>2. Oldest \in Line \cup {NoLine}
    BY <2>1 DEF Oldest, RingTyped
  <2> QED
    BY <1>3, <2>2 DEF WorkerTake
<1>4. CASE Worker /\ ~WorkerTake
  BY <1>4 DEF Worker, WorkerLoop, WorkerTick, WorkerProceed, WorkerSync,
     WorkerSkip, WorkerEmit, WorkerRelock, WorkerBatchEnd
<1>5. CASE Control
  BY <1>5 DEF Control, StartBegin, AsyncStart, StartThread, StartFail,
     StopBegin, StopDetach, SignalNotEmpty
<1>6. CASE Terminated \/ UNCHANGED vars
  BY <1>6 DEF Terminated
<1> QED
  BY <1>1, <1>2, <1>3, <1>4, <1>5, <1>6 DEF Next

\* The calls' states, return codes and line counters keep their types.
LEMMA CallTypeStep ==
    ASSUME TypeOK, ThreadsAgree, [Next]_vars
    PROVE  CallTypeOK'
<1> USE DEF TypeOK, CallTypeOK, vars, callVars, CallStates, Codes
<1>1. ASSUME NEW t \in Thread, Submit(t) PROVE CallTypeOK'
  BY <1>1, MaxLinesAssumption DEF Submit
<1>2. ASSUME NEW t \in Thread, Enqueue(t) \/ SpuriousWakeup(t)
      PROVE  CallTypeOK'
  BY <1>2 DEF Enqueue, EnqueueRefuse, EnqueueDropNew, EnqueueBlock,
     EnqueuePush, EnqueueDropOld, EnqueueNoMemory, EnqueueDropOldNoMemory,
     SpuriousWakeup, Return
<1>3. ASSUME NEW t \in Thread,
             FlushBegin(t) \/ FlushReturn(t) \/ ForkChild(t)
      PROVE  CallTypeOK'
  BY <1>3 DEF FlushBegin, AsyncFlush, FlushReturn, ForkChild
<1>4. CASE Worker
  BY <1>4 DEF Worker, WorkerLoop, WorkerTick, WorkerProceed, WorkerSync,
     WorkerTake, WorkerSkip, WorkerEmit, WorkerRelock, WorkerBatchEnd,
     SignalNotFull, Blocked
<1>5. CASE Control
  BY <1>5 DEF Control, StartBegin, AsyncStart, StartThread, StartFail,
     StopBegin, StopDetach, BroadcastNotFull
<1>6. CASE Terminated \/ UNCHANGED vars
  BY <1>6 DEF Terminated
<1> QED
  BY <1>1, <1>2, <1>3, <1>4, <1>5, <1>6 DEF Next

\* The fates of the lines and the used budget keep their types.
LEMMA HistoryTypeStep ==
    ASSUME TypeOK, NothingLost, [Next]_vars
    PROVE  HistoryTypeOK'
<1> USE DEF TypeOK, HistoryTypeOK, vars, Fates
<1>1. ASSUME NEW t \in Thread, Submit(t) \/ Enqueue(t) \/ SpuriousWakeup(t)
      PROVE  HistoryTypeOK'
  BY <1>1 DEF Submit, Enqueue, EnqueueRefuse, EnqueueDropNew, EnqueueBlock,
     EnqueuePush, EnqueueDropOld, EnqueueNoMemory, EnqueueDropOldNoMemory,
     SpuriousWakeup
<1>2. ASSUME NEW t \in Thread, FlushBegin(t) PROVE HistoryTypeOK'
  <2>1. InRing \subseteq Line
    BY DEF NothingLost, WithFate
  <2> QED
    BY <1>2, <2>1, BudgetAssumption DEF FlushBegin, AsyncFlush, Spend
<1>3. ASSUME NEW t \in Thread, FlushReturn(t) \/ ForkChild(t)
      PROVE  HistoryTypeOK'
  BY <1>3, BudgetAssumption DEF FlushReturn, ForkChild, Spend
<1>4. CASE Worker
  BY <1>4 DEF Worker, WorkerLoop, WorkerTick, WorkerSync, WorkerTake,
     WorkerSkip, WorkerEmit, WorkerRelock, WorkerBatchEnd
<1>5. CASE Control
  BY <1>5, BudgetAssumption DEF Control, StartBegin, AsyncStart, StartThread,
     StartFail, StopBegin, StopDetach, Spend
<1>6. CASE Terminated \/ UNCHANGED vars
  BY <1>6 DEF Terminated
<1> QED
  BY <1>1, <1>2, <1>3, <1>4, <1>5, <1>6 DEF Next

\* The actions that leave the ring, its configuration and running alone.
RingQuiet == UNCHANGED <<ringVars, configVars, running>>

\* Every step takes a line out, puts one in, does both, loses one, opens or
\* closes the engine, restarts it in a child, or leaves the ring alone.
LEMMA RingSteps ==
    ASSUME [Next]_vars
    PROVE  \/ RingQuiet /\ dropped' = dropped
           \/ \E t \in Thread : \/ EnqueuePush(t) \/ EnqueueDropOld(t)
                                \/ EnqueueDropOldNoMemory(t)
                                \/ ForkChild(t)
           \/ RingQuiet /\ CountDrop(1)
           \/ WorkerTake \/ WorkerSkip
           \/ StartBegin \/ StartFail \/ StopDetach
<1> USE DEF RingQuiet, ringVars, configVars
<1>1. ASSUME NEW t \in Thread, Submit(t) \/ EnqueueRefuse(t)
                \/ EnqueueBlock(t) \/ SpuriousWakeup(t) \/ FlushReturn(t)
      PROVE  RingQuiet /\ dropped' = dropped
  BY <1>1 DEF Submit, EnqueueRefuse, EnqueueBlock, SpuriousWakeup,
     FlushReturn, engineVars
<1>2. ASSUME NEW t \in Thread, EnqueueDropNew(t) \/ EnqueueNoMemory(t)
      PROVE  RingQuiet /\ CountDrop(1)
  BY <1>2 DEF EnqueueDropNew, EnqueueNoMemory
<1>3. ASSUME NEW t \in Thread, FlushBegin(t) PROVE RingQuiet /\ dropped' = dropped
  BY <1>3 DEF FlushBegin, AsyncFlush
<1>4. ASSUME WorkerLoop \/ WorkerTick \/ WorkerSync \/ WorkerEmit
                \/ WorkerRelock \/ WorkerBatchEnd
      PROVE  RingQuiet /\ dropped' = dropped
  BY <1>4 DEF WorkerLoop, WorkerTick, WorkerSync, WorkerEmit, WorkerRelock,
     WorkerBatchEnd, engineVars
<1>5. ASSUME StartThread \/ StopBegin \/ Terminated \/ UNCHANGED vars
      PROVE  RingQuiet /\ dropped' = dropped
  BY <1>5 DEF StartThread, StopBegin, Terminated, engineVars, vars
<1> QED
  BY <1>1, <1>2, <1>3, <1>4, <1>5 DEF Next, Enqueue, Worker, Control

\* The steps that only take the oldest line out.
Pops == \/ \E t \in Thread : EnqueueDropOldNoMemory(t)
        \/ WorkerTake \/ WorkerSkip

\* The ring the step leaves behind is typed and its indices agree.
LEMMA RingStep ==
    ASSUME TypeOK, RingConsistent, ThreadsAgree, [Next]_vars
    PROVE  RingTypeOK' /\ RingConsistent'
<1> USE DEF TypeOK, ringVars, configVars
<1>1. CASE RingQuiet /\ (dropped' = dropped \/ CountDrop(1))
  BY <1>1 DEF RingQuiet, RingTypeOK, RingConsistent, CountDrop
<1>2. ASSUME NEW t \in Thread, EnqueuePush(t)
      PROVE  RingTypeOK' /\ RingConsistent'
  <2>1. RingTyped /\ cur(t) \in Line /\ count < capacity
    BY <1>2, RunningRing, CurIsLine
    DEF EnqueuePush, HasRoom, Full, RingTyped
  <2>2. Next1(tail) = (head + (count + 1)) % capacity
    <3>1. count \in 0..capacity - 1
      BY <2>1 DEF RingTyped
    <3> QED
      BY <2>1, <3>1, NextWrap DEF RingTyped, Next1
  <2>3. Next1(tail) \in 0..capacity - 1
    BY <2>1, <2>2, Wrap DEF RingTyped
  <2>4. slots' \in [0..capacity' - 1 -> Line \cup {NoLine}] /\ slots' # NoSlots
    BY <1>2, <2>1 DEF EnqueuePush, Push, RingTyped, NoSlots
  <2> QED
    BY <1>2, <2>1, <2>2, <2>3, <2>4
    DEF EnqueuePush, Push, RingTypeOK, RingTyped, RingConsistent
<1>3. ASSUME NEW t \in Thread, EnqueueDropOld(t)
      PROVE  RingTypeOK' /\ RingConsistent'
  <2>1. RingTyped /\ cur(t) \in Line /\ count = capacity
    BY <1>3, RunningRing, CurIsLine DEF EnqueueDropOld, Full, RingTyped
  <2>2. /\ Next1(head) \in 0..capacity - 1
        /\ tail = (Next1(head) + (count - 1)) % capacity
    BY <2>1, PopKeepsRing DEF RingTyped
  <2>3. Next1(tail) = (Next1(head) + count) % capacity
    <3>1. count - 1 \in 0..capacity - 1
      BY <2>1 DEF RingTyped
    <3>2. Next1(tail) = (Next1(head) + ((count - 1) + 1)) % capacity
      BY <2>1, <2>2, <3>1, NextWrap DEF RingTyped, Next1
    <3> QED
      BY <2>1, <3>2 DEF RingTyped
  <2>4. Next1(tail) \in 0..capacity - 1
    BY <2>1, <2>2, <2>3, Wrap DEF RingTyped
  <2>5. slots' \in [0..capacity' - 1 -> Line \cup {NoLine}] /\ slots' # NoSlots
    BY <1>3, <2>1 DEF EnqueueDropOld, Push, RingTyped, NoSlots
  <2> QED
    BY <1>3, <2>1, <2>2, <2>3, <2>4, <2>5
    DEF EnqueueDropOld, Push, CountDrop, RingTypeOK, RingTyped, RingConsistent
<1>4. ASSUME Pops
      PROVE  RingTypeOK' /\ RingConsistent'
  <2>1. running /\ count > 0
    BY <1>4, RunningRing DEF Pops, EnqueueDropOldNoMemory,
       WorkerTake, WorkerSkip, InBatch, ThreadsAgree, PhasesAgree, Full, RingTyped
  <2>2. RingTyped /\ count > 0
    BY <2>1, RunningRing
  <2>3. /\ Next1(head) \in 0..capacity - 1
        /\ count - 1 \in 0..capacity
        /\ tail = (Next1(head) + (count - 1)) % capacity
    BY <2>2, PopKeepsRing
  <2>4. /\ Pop
        /\ dropped' \in Nat
        /\ UNCHANGED <<slots, tail, high_watermark, configVars, running>>
    BY <1>4 DEF Pops, EnqueueDropOldNoMemory, WorkerTake,
       WorkerSkip, CountDrop, RingTypeOK
  <2> QED
    BY <2>2, <2>3, <2>4 DEF Pop, RingTypeOK, RingTyped, RingConsistent
<1>5. ASSUME NEW t \in Thread, ForkChild(t)
      PROVE  RingTypeOK' /\ RingConsistent'
  BY <1>5 DEF ForkChild, EmptyRing, RingTypeOK, RingConsistent
<1>6. CASE StartBegin
  <2>1. PICK c \in Configs :
               /\ slots' = [i \in 0..c.capacity - 1 |-> NoLine]
               /\ capacity' = c.capacity
               /\ batch_size' = c.batch
               /\ overflow' = c.overflow
    BY <1>6 DEF StartBegin, AsyncStart
  <2>2. capacity' \in Nat \ {0} /\ batch_size' \in Nat /\ overflow' \in Policies
    BY <2>1, ConfigsAssumption
  <2>3. /\ slots' \in [0..capacity' - 1 -> Line \cup {NoLine}]
        /\ slots' # NoSlots
    BY <2>1, <2>2 DEF NoSlots
  <2>4. /\ head' = 0 /\ tail' = 0 /\ count' = 0
        /\ dropped' = 0 /\ high_watermark' = 0
    BY <1>6 DEF StartBegin, AsyncStart, EmptyRing
  <2>5. /\ (head' + count') % capacity' = 0
        /\ head' \in 0..capacity' - 1
    BY <2>2, <2>4, ZeroIndex
  <2>6. RingTypeOK'
    BY <2>2, <2>3, <2>4 DEF RingTypeOK
  <2>7. count' <= high_watermark' /\ high_watermark' <= capacity'
    BY <2>2, <2>4
  <2>8. tail' = (head' + count') % capacity'
    BY <2>4, <2>5
  <2> QED
    BY <2>3, <2>5, <2>6, <2>7, <2>8 DEF RingConsistent
<1>7. CASE StartFail \/ StopDetach
  BY <1>7 DEF StartFail, StopDetach, EmptyRing, RingTypeOK, RingConsistent
<1> QED
  BY <1>1, <1>2, <1>3, <1>4, <1>5, <1>6, <1>7, RingSteps DEF Pops

-----------------------------------------------------------------------------
(***************************************************************************)
(* The worker, the controlling thread and the flags.                       *)
(***************************************************************************)
LEMMA PhasesStep ==
    ASSUME TypeOK, RingConsistent, PhasesAgree, [Next]_vars
    PROVE  PhasesAgree'
<1> USE DEF TypeOK, FlagTypeOK, WorkerTypeOK, CallTypeOK, PhasesAgree
<1>1. ASSUME NEW t \in Thread, Submit(t) \/ EnqueueRefuse(t)
                \/ EnqueueDropNew(t) \/ EnqueueBlock(t)
                \/ EnqueueNoMemory(t) \/ SpuriousWakeup(t)
      PROVE  PhasesAgree'
  BY <1>1 DEF Submit, EnqueueRefuse, EnqueueDropNew, EnqueueBlock,
     EnqueueNoMemory, SpuriousWakeup, engineVars, workerVars, ringVars
<1>2. ASSUME NEW t \in Thread, EnqueuePush(t) \/ EnqueueDropOld(t)
      PROVE  PhasesAgree'
  BY <1>2 DEF EnqueuePush, EnqueueDropOld, HasRoom, SignalNotEmpty
<1>3. ASSUME NEW t \in Thread, EnqueueDropOldNoMemory(t) PROVE PhasesAgree'
  BY <1>3 DEF EnqueueDropOldNoMemory, workerVars
<1>4. ASSUME NEW t \in Thread, FlushBegin(t) \/ FlushReturn(t)
      PROVE  PhasesAgree'
  BY <1>4 DEF FlushBegin, AsyncFlush, FlushReturn, SignalNotEmpty,
     engineVars, workerVars, ringVars
<1>5. ASSUME NEW t \in Thread, ForkChild(t) PROVE PhasesAgree'
  BY <1>5 DEF ForkChild, EmptyRing
<1>6. CASE WorkerLoop \/ WorkerTick
  BY <1>6 DEF WorkerLoop, WorkerTick, WorkerProceed, RingEmpty, ringVars
<1>7. CASE WorkerSync
  BY <1>7 DEF WorkerSync, engineVars
<1>8. CASE WorkerTake \/ WorkerSkip
  BY <1>8 DEF WorkerTake, WorkerSkip, InBatch
<1>9. CASE WorkerEmit \/ WorkerRelock \/ WorkerBatchEnd
  BY <1>9 DEF WorkerEmit, WorkerRelock, WorkerBatchEnd, engineVars, ringVars
<1>10. CASE StartBegin
  BY <1>10 DEF StartBegin, AsyncStart, EmptyRing, workerVars
<1>11. CASE StartThread
  BY <1>11 DEF StartThread, engineVars
<1>12. CASE StartFail
  BY <1>12 DEF StartFail, workerVars
<1>13. CASE StopBegin
  BY <1>13 DEF StopBegin, SignalNotEmpty, ringVars
<1>14. CASE StopDetach
  BY <1>14 DEF StopDetach, EmptyRing, workerVars
<1>15. CASE Terminated \/ UNCHANGED vars
  BY <1>15 DEF Terminated, vars, engineVars, workerVars
<1> QED
  BY <1>1, <1>2, <1>3, <1>4, <1>5, <1>6, <1>7, <1>8, <1>9, <1>10, <1>11,
     <1>12, <1>13, <1>14, <1>15 DEF Next, Enqueue, Worker, Control

-----------------------------------------------------------------------------
(***************************************************************************)
(* The lines: each call keeps its own, and the ring holds what was         *)
(* accepted.                                                               *)
(***************************************************************************)

\* The oldest slot of a ring that is not empty holds a queued line.
LEMMA OldestQueued ==
    ASSUME TypeOK, RingConsistent, NothingLost, running, count > 0
    PROVE  Oldest \in Line /\ fate[Oldest] = "queued" /\ Oldest \in InRing
<1>1. RingTyped
  BY RunningRing
<1>2. (head + 0) % capacity = head
  BY <1>1, FirstIndex DEF RingTyped
<1>3. Oldest = Queued(0) /\ 0 \in 0..count - 1
  BY <1>1, <1>2 DEF Oldest, Queued, RingTyped
<1>4. slots # NoSlots
  BY DEF RingConsistent
<1>5. Oldest \in InRing
  BY <1>3, <1>4 DEF InRing
<1> QED
  BY <1>5 DEF NothingLost, WithFate

\* The n-th line of a thread is a line.
LEMMA LineOf ==
    ASSUME NEW t \in Thread, NEW n \in 1..MaxLines
    PROVE  <<t, n>> \in Line
BY DEF Line

\* A step that starts no call and touches neither the lines that calls in
\* progress hold nor the lines not logged yet.
LEMMA CallsKeep ==
    ASSUME TypeOK, CallsHoldLines, sent' = sent,
           \A t \in Thread : call'[t] \in {"enq", "blocked", "woken"}
                => /\ call[t] \in {"enq", "blocked", "woken"}
                   /\ fate'[cur(t)] = fate[cur(t)],
           \A l \in Line : fate[l] = "new" => fate'[l] = "new"
    PROVE  CallsHoldLines'
<1> SUFFICES ASSUME NEW t \in Thread
             PROVE  /\ call'[t] \in {"enq", "blocked", "woken"}
                          => sent'[t] > 0 /\ fate'[<<t, sent'[t]>>] = "calling"
                    /\ \A n \in 1..MaxLines :
                          n > sent'[t] => fate'[<<t, n>>] = "new"
  BY DEF CallsHoldLines, cur
<1>1. ASSUME call'[t] \in {"enq", "blocked", "woken"}
      PROVE  sent'[t] > 0 /\ fate'[<<t, sent'[t]>>] = "calling"
  BY <1>1 DEF CallsHoldLines, cur
<1>2. ASSUME NEW n \in 1..MaxLines, n > sent'[t]
      PROVE  fate'[<<t, n>>] = "new"
  <2>1. fate[<<t, n>>] = "new"
    BY <1>2 DEF CallsHoldLines
  <2> QED
    BY <2>1, LineOf
<1> QED
  BY <1>1, <1>2

\* Every step leaves each call that has not returned with a line of its own.
LEMMA CallsStep ==
    ASSUME TypeOK, RingConsistent, PhasesAgree, CallsHoldLines, NothingLost,
           [Next]_vars
    PROVE  CallsHoldLines'
<1> DEFINE Held == {"enq", "blocked", "woken"}
<1>1. /\ \A u \in Thread : call[u] \in Held => cur(u) \in Line /\ fate[cur(u)] = "calling"
      /\ call \in [Thread -> CallStates] /\ fate \in [Line -> Fates]
      /\ \A t, u \in Thread : t # u => cur(t) # cur(u)
  BY CurIsLine DEF TypeOK, HistoryTypeOK, CallTypeOK, CallsHoldLines, ThreadsAgree, cur
<1>2. ASSUME NEW t \in Thread, Submit(t) PROVE CallsHoldLines'
  <2>1. sent[t] \in 0..MaxLines /\ sent[t] < MaxLines /\ call[t] = "idle"
    BY <1>2 DEF Submit, TypeOK, CallTypeOK
  <2>2. sent[t] + 1 \in 1..MaxLines
    BY <2>1, MaxLinesAssumption
  <2>3. /\ sent' = [sent EXCEPT ![t] = sent[t] + 1]
        /\ sent \in [Thread -> 0..MaxLines]
    BY <1>2 DEF Submit, TypeOK, CallTypeOK
  <2>4. fate' = [fate EXCEPT ![<<t, sent[t] + 1>>] = "calling"]
    BY <1>2 DEF Submit
  <2>5. ASSUME NEW u \in Thread, call'[u] \in Held
        PROVE  sent'[u] > 0 /\ fate'[<<u, sent'[u]>>] = "calling"
    <3>1. CASE u = t
      BY <1>1, <2>1, <2>2, <2>3, <2>4, <3>1, LineOf
    <3>2. CASE u # t
      <4>1. call[u] \in Held
        BY <1>1, <1>2, <2>5, <3>2 DEF Submit
      <4> QED
        BY <1>1, <2>3, <2>4, <3>2, <4>1 DEF CallsHoldLines, cur
    <3> QED
      BY <3>1, <3>2
  <2>6. ASSUME NEW u \in Thread, NEW n \in 1..MaxLines, n > sent'[u]
        PROVE  fate'[<<u, n>>] = "new"
    <3>1. n > sent[u] /\ <<u, n>> # <<t, sent[t] + 1>>
      BY <2>1, <2>3, <2>6, MaxLinesAssumption
    <3> QED
      BY <1>1, <2>4, <3>1, LineOf DEF CallsHoldLines
  <2> QED
    BY <2>5, <2>6 DEF CallsHoldLines, cur
<1>3. ASSUME NEW t \in Thread,
             EnqueueRefuse(t) \/ EnqueueDropNew(t) \/ EnqueuePush(t)
             \/ EnqueueNoMemory(t)
      PROVE  CallsHoldLines'
  <2>1. /\ call' = [call EXCEPT ![t] = "idle"] /\ sent' = sent
        /\ \E f \in Fates : fate' = [fate EXCEPT ![cur(t)] = f]
        /\ call[t] \in Held
    BY <1>3 DEF EnqueueRefuse, EnqueueDropNew, EnqueuePush, EnqueueNoMemory,
       HasRoom, Return, Fates
  <2> QED
    BY <1>1, <2>1, CallsKeep
<1>4. ASSUME NEW t \in Thread, EnqueueDropOld(t) \/ EnqueueDropOldNoMemory(t)
      PROVE  CallsHoldLines'
  <2>1. RingTyped /\ count > 0
    BY <1>4, RunningRing
    DEF EnqueueDropOld, EnqueueDropOldNoMemory, Full, RingTyped
  <2>2. Oldest \in Line /\ fate[Oldest] = "queued"
    BY <1>4, <2>1, OldestQueued DEF EnqueueDropOld, EnqueueDropOldNoMemory
  <2>3. /\ call' = [call EXCEPT ![t] = "idle"] /\ sent' = sent
        /\ \E f \in Fates :
              fate' = [fate EXCEPT ![Oldest] = "dropped", ![cur(t)] = f]
        /\ call[t] \in Held
    BY <1>4 DEF EnqueueDropOld, EnqueueDropOldNoMemory, Return, Fates
  <2> QED
    BY <1>1, <2>2, <2>3, CallsKeep
<1>5. ASSUME NEW t \in Thread, EnqueueBlock(t) \/ SpuriousWakeup(t)
      PROVE  CallsHoldLines'
  BY <1>1, <1>5, CallsKeep DEF EnqueueBlock, SpuriousWakeup
<1>6. ASSUME NEW t \in Thread, FlushBegin(t) \/ FlushReturn(t)
      PROVE  CallsHoldLines'
  BY <1>1, <1>6, CallsKeep DEF FlushBegin, AsyncFlush, FlushReturn
<1>7. ASSUME NEW t \in Thread, ForkChild(t) PROVE CallsHoldLines'
  BY <1>1, <1>7, CallsKeep DEF ForkChild
<1>8. CASE WorkerLoop \/ WorkerTick \/ WorkerSync \/ WorkerRelock
           \/ WorkerBatchEnd \/ Terminated \/ UNCHANGED vars
  BY <1>8, CallsKeep
  DEF WorkerLoop, WorkerTick, WorkerSync, WorkerRelock, WorkerBatchEnd,
      Terminated, vars, callVars
<1>9. CASE WorkerTake \/ WorkerSkip
  <2>1. running /\ count > 0
    BY <1>9 DEF WorkerTake, WorkerSkip, InBatch, PhasesAgree
  <2>2. Oldest \in Line /\ fate[Oldest] = "queued"
    BY <2>1, OldestQueued
  <2>3. /\ sent' = sent
        /\ \A t \in Thread : call'[t] \in Held => call[t] \in Held
    BY <1>1, <1>9 DEF WorkerTake, WorkerSkip, SignalNotFull, Blocked
  <2>4. fate' = fate \/ fate' = [fate EXCEPT ![Oldest] = "dropped"]
    BY <1>9 DEF WorkerTake, WorkerSkip
  <2> QED
    BY <1>1, <2>2, <2>3, <2>4, CallsKeep
<1>10. CASE WorkerEmit
  <2>1. fate[scratch] = "queued" /\ scratch \in Line
    BY <1>10 DEF WorkerEmit, NothingLost, WithFate, InFlight
  <2> QED
    BY <1>1, <1>10, <2>1, CallsKeep DEF WorkerEmit, callVars
<1>11. CASE Control
  <2>1. CASE StartBegin
    BY <1>1, <2>1, CallsKeep DEF StartBegin, AsyncStart, callVars
  <2>2. CASE StartFail
    <3>1. \A l \in InRing : fate[l] = "queued"
      BY DEF NothingLost, WithFate
    <3> QED
      BY <1>1, <2>2, <3>1, CallsKeep DEF StartFail, callVars
  <2>3. CASE StartThread \/ StopBegin \/ StopDetach
    BY <1>1, <2>3, CallsKeep
    DEF StartThread, StopBegin, StopDetach, BroadcastNotFull, callVars
  <2> QED
    BY <1>11, <2>1, <2>2, <2>3 DEF Control
<1> QED
  BY <1>2, <1>3, <1>4, <1>5, <1>6, <1>7, <1>8, <1>9, <1>10, <1>11
  DEF Next, Enqueue, Worker

-----------------------------------------------------------------------------
(***************************************************************************)
(* The content of a ring with slots s, of capacity c, whose n lines start  *)
(* at h, and what removing the oldest line does to it.                     *)
(***************************************************************************)
Content(s, c, h, n)  == {s[(h + k) % c] : k \in 0..n - 1}
Distinct(s, c, h, n) ==
    \A j, k \in 0..n - 1 : s[(h + j) % c] = s[(h + k) % c] => j = k

\* Two places of the ring are different slots.
LEMMA SlotsDiffer ==
    ASSUME NEW c \in Nat \ {0}, NEW h \in 0..c - 1,
           NEW j \in 0..c - 1, NEW k \in 0..c - 1, j # k
    PROVE  (h + j) % c # (h + k) % c
OBVIOUS

\* Removing the oldest line removes exactly that line from the content.
LEMMA PopContent ==
    ASSUME NEW c \in Nat \ {0}, NEW h \in 0..c - 1, NEW n \in 1..c,
           NEW s, Distinct(s, c, h, n)
    PROVE  /\ Content(s, c, (h + 1) % c, n - 1) = Content(s, c, h, n) \ {s[h]}
           /\ Distinct(s, c, (h + 1) % c, n - 1)
<1>1. \A k \in 0..(n - 1) - 1 :
         /\ (((h + 1) % c) + k) % c = (h + (k + 1)) % c
         /\ k + 1 \in 1..n - 1
  BY NextWrap
<1>2. (h + 0) % c = h
  BY FirstIndex
<1>3. 0 \in 0..n - 1 /\ 0..n - 1 = {0} \cup (1..n - 1)
  OBVIOUS
<1>4. \A k \in 1..n - 1 : s[(h + k) % c] # s[h]
  <2> TAKE k \in 1..n - 1
  <2>1. k \in 0..n - 1 /\ k # 0
    OBVIOUS
  <2> QED
    BY <1>2, <1>3, <2>1 DEF Distinct
<1>5. Content(s, c, h, n) \ {s[h]} = {s[(h + k) % c] : k \in 1..n - 1}
  <2> DEFINE at(k) == s[(h + k) % c]
  <2>1. at(0) = s[h] /\ \A k \in 1..n - 1 : at(k) # s[h]
    BY <1>2, <1>4
  <2> HIDE DEF at
  <2>2. {at(k) : k \in 0..n - 1} \ {s[h]} = {at(k) : k \in 1..n - 1}
    BY <1>3, <2>1
  <2> QED
    BY <2>2 DEF at, Content
<1>6. Content(s, c, (h + 1) % c, n - 1) = {s[(h + k) % c] : k \in 1..n - 1}
  <2> DEFINE at(k) == s[(h + k) % c]
             to(k) == s[(((h + 1) % c) + k) % c]
  <2>1. \A k \in 0..(n - 1) - 1 : to(k) = at(k + 1)
    BY <1>1
  <2> HIDE DEF at, to
  <2>2. /\ \A k \in 0..(n - 1) - 1 : k + 1 \in 1..n - 1
        /\ \A k \in 1..n - 1 : k - 1 \in 0..(n - 1) - 1 /\ (k - 1) + 1 = k
    OBVIOUS
  <2>3. {to(k) : k \in 0..(n - 1) - 1} = {at(k) : k \in 1..n - 1}
    BY <2>1, <2>2
  <2> QED
    BY <2>3 DEF at, to, Content
<1>7. Distinct(s, c, (h + 1) % c, n - 1)
  <2> SUFFICES ASSUME NEW j \in 0..(n - 1) - 1, NEW k \in 0..(n - 1) - 1,
                      s[(((h + 1) % c) + j) % c] = s[(((h + 1) % c) + k) % c]
               PROVE  j = k
    BY DEF Distinct
  <2>1. s[(h + (j + 1)) % c] = s[(h + (k + 1)) % c]
    BY <1>1
  <2>2. j + 1 \in 0..n - 1 /\ k + 1 \in 0..n - 1
    OBVIOUS
  <2>3. j + 1 = k + 1
    BY <2>1, <2>2 DEF Distinct
  <2> QED
    BY <2>3
<1> QED
  BY <1>5, <1>6, <1>7

-----------------------------------------------------------------------------
(***************************************************************************)
(* No line is lost or duplicated.                                          *)
(***************************************************************************)
LEMMA RingContent ==
    ASSUME slots # NoSlots
    PROVE  /\ InRing = Content(slots, capacity, head, count)
           /\ NothingLost => Distinct(slots, capacity, head, count)
BY DEF InRing, Queued, Content, Distinct, NothingLost

\* A ring without slots or without lines has no content.
LEMMA EmptyContent ==
    ASSUME slots = NoSlots \/ count = 0
    PROVE  InRing = {}
BY DEF InRing

\* A step that moves no line.
LEMMA LinesKeep ==
    ASSUME NothingLost, UNCHANGED <<slots, capacity, head, count>>,
           InFlight' = InFlight,
           \A l \in Line : fate'[l] = "queued" <=> fate[l] = "queued"
    PROVE  NothingLost'
BY DEF NothingLost, WithFate, InRing, Queued

\* A step that leaves an engine with nothing in it.
LEMMA LinesGone ==
    ASSUME slots' = NoSlots \/ count' = 0, InFlight' = {},
           \A l \in Line : fate'[l] # "queued"
    PROVE  NothingLost'
BY DEF NothingLost, WithFate, InRing

\* What taking the oldest line out leaves.
LEMMA PopLines ==
    ASSUME RingTyped, count > 0, NothingLost, slots # NoSlots,
           Pop, UNCHANGED <<slots, capacity>>
    PROVE  /\ InRing' = InRing \ {Oldest}
           /\ \A j, k \in 0..count' - 1 : Queued(j)' = Queued(k)' => j = k
<1>1. count \in 1..capacity /\ Distinct(slots, capacity, head, count)
  BY RingContent DEF RingTyped
<1>2. /\ Content(slots, capacity, Next1(head), count - 1)
             = Content(slots, capacity, head, count) \ {slots[head]}
      /\ Distinct(slots, capacity, Next1(head), count - 1)
  BY <1>1, PopContent DEF RingTyped, Next1
<1>3. InRing' = Content(slots, capacity, Next1(head), count - 1)
  BY DEF Pop, InRing, Queued, Content
<1>4. InRing = Content(slots, capacity, head, count)
  BY RingContent
<1>5. \A j, k \in 0..count' - 1 : Queued(j)' = Queued(k)' => j = k
  BY <1>2 DEF Pop, Queued, Distinct
<1> QED
  BY <1>2, <1>3, <1>4, <1>5 DEF Oldest

\* A push of line l behind n lines that start at h.
LEMMA PushLines ==
    ASSUME NEW l \in Line, NEW h \in 0..capacity - 1, NEW n \in 0..capacity - 1,
           RingTyped, slots # NoSlots,
           tail = (h + n) % capacity,
           Distinct(slots, capacity, h, n), l \notin Content(slots, capacity, h, n),
           Push(l, h, n), UNCHANGED capacity
    PROVE  /\ slots' # NoSlots
           /\ InRing' = Content(slots, capacity, h, n) \cup {l}
           /\ \A j, k \in 0..count' - 1 : Queued(j)' = Queued(k)' => j = k
<1>1. /\ slots' = [slots EXCEPT ![(h + n) % capacity] = l]
      /\ DOMAIN slots = 0..capacity - 1
      /\ (h + n) % capacity \in 0..capacity - 1
  BY Wrap DEF Push, RingTyped
<1>2. /\ Content(slots', capacity, h, n + 1) = Content(slots, capacity, h, n) \cup {l}
      /\ Distinct(slots', capacity, h, n + 1)
  <2>1. slots'[(h + n) % capacity] = l
    BY <1>1
  <2>2. \A k \in 0..n - 1 : slots'[(h + k) % capacity] = slots[(h + k) % capacity]
    <3> TAKE k \in 0..n - 1
    <3>1. k \in 0..capacity - 1 /\ k # n /\ capacity \in Nat \ {0}
      BY DEF RingTyped
    <3>2. (h + k) % capacity \in 0..capacity - 1
      BY <3>1, Wrap
    <3>3. (h + k) % capacity # (h + n) % capacity
      BY <3>1, SlotsDiffer
    <3> QED
      BY <1>1, <3>2, <3>3
  <2>3. 0..(n + 1) - 1 = (0..n - 1) \cup {n}
    OBVIOUS
  <2>4. Content(slots', capacity, h, n + 1) = Content(slots, capacity, h, n) \cup {l}
    BY <2>1, <2>2, <2>3 DEF Content
  <2>5. \A k \in 0..n - 1 : slots[(h + k) % capacity] # l
    BY DEF Content
  <2>6. Distinct(slots', capacity, h, n + 1)
    BY <2>1, <2>2, <2>3, <2>5 DEF Distinct
  <2> QED
    BY <2>4, <2>6
<1>3. slots' # NoSlots
  BY <1>1 DEF RingTyped, NoSlots
<1>4. InRing' = Content(slots', capacity, h, n + 1)
  BY <1>3 DEF Push, InRing, Queued, Content
<1>5. \A j, k \in 0..count' - 1 : Queued(j)' = Queued(k)' => j = k
  BY <1>2 DEF Push, Queued, Distinct
<1> QED
  BY <1>2, <1>3, <1>4, <1>5

\* Every step keeps the waiting lines those of the ring and the scratch.
LEMMA LinesStep ==
    ASSUME TypeOK, RingConsistent, PhasesAgree, CallsHoldLines, NothingLost,
           [Next]_vars
    PROVE  NothingLost'
<1>1. \A t \in Thread : call[t] \in {"enq", "blocked", "woken"}
         => cur(t) \in Line /\ fate[cur(t)] = "calling" /\ cur(t) \notin InRing
  BY CurIsLine DEF ThreadsAgree, CallsHoldLines, NothingLost, WithFate
<1>2. fate \in [Line -> Fates]
  BY DEF TypeOK, HistoryTypeOK
<1>3. ASSUME NEW t \in Thread, Submit(t) PROVE NothingLost'
  <2>1. fate[<<t, sent[t] + 1>>] = "new"
    <3>1. sent[t] \in 0..MaxLines /\ sent[t] + 1 \in 1..MaxLines
      BY <1>3, MaxLinesAssumption DEF Submit, TypeOK, CallTypeOK
    <3> QED
      BY <3>1 DEF CallsHoldLines
  <2> QED
    BY <1>2, <1>3, <2>1, LinesKeep DEF Submit, engineVars, workerVars, InFlight
<1>4. ASSUME NEW t \in Thread, EnqueueRefuse(t) \/ EnqueueDropNew(t) \/ EnqueueNoMemory(t)
      PROVE  NothingLost'
  <2>1. \A l \in Line : fate'[l] = "queued" <=> fate[l] = "queued"
    BY <1>1, <1>2, <1>4
    DEF EnqueueRefuse, EnqueueDropNew, EnqueueNoMemory, HasRoom
  <2> QED
    BY <1>4, <2>1, LinesKeep DEF EnqueueRefuse, EnqueueDropNew,
       EnqueueNoMemory, engineVars, ringVars, configVars, workerVars, InFlight
<1>5. ASSUME NEW t \in Thread,
             EnqueueBlock(t) \/ SpuriousWakeup(t) \/ FlushReturn(t)
      PROVE  NothingLost'
  BY <1>5, LinesKeep DEF EnqueueBlock, SpuriousWakeup, FlushReturn,
     engineVars, workerVars, InFlight
<1>6. ASSUME NEW t \in Thread, FlushBegin(t) PROVE NothingLost'
  <2>1. InFlight' = InFlight
    BY <1>6 DEF FlushBegin, AsyncFlush, SignalNotEmpty, InFlight
  <2> QED
    BY <1>6, <2>1, LinesKeep DEF FlushBegin, AsyncFlush, ringVars, configVars
<1>7. ASSUME NEW t \in Thread, EnqueuePush(t) PROVE NothingLost'
  <2>1. RingTyped /\ count \in 0..capacity - 1 /\ slots # NoSlots
    BY <1>7, RunningRing
    DEF EnqueuePush, HasRoom, Full, RingTyped, RingConsistent
  <2>2. cur(t) \in Line /\ fate[cur(t)] = "calling" /\ cur(t) \notin InRing
    BY <1>1, <1>7 DEF EnqueuePush, HasRoom
  <2>3. /\ InRing = Content(slots, capacity, head, count)
        /\ Distinct(slots, capacity, head, count)
    BY <2>1, RingContent
  <2>4. /\ InRing' = InRing \cup {cur(t)}
        /\ \A j, k \in 0..count' - 1 : Queued(j)' = Queued(k)' => j = k
    BY <1>7, <2>1, <2>2, <2>3, PushLines DEF EnqueuePush, RingTyped, configVars
  <2>5. InFlight' = InFlight
    BY <1>7 DEF EnqueuePush, SignalNotEmpty, InFlight
  <2>6. WithFate("queued")' = WithFate("queued") \cup {cur(t)}
    BY <1>2, <1>7, <2>2 DEF EnqueuePush, WithFate
  <2>7. cur(t) \notin InFlight
    BY <2>2 DEF NothingLost, WithFate
  <2> QED
    BY <2>4, <2>5, <2>6, <2>7 DEF NothingLost
<1>8. ASSUME NEW t \in Thread, EnqueueDropOld(t) PROVE NothingLost'
  <2>1. RingTyped /\ count = capacity /\ slots # NoSlots
    BY <1>8, RunningRing DEF EnqueueDropOld, Full, RingTyped, RingConsistent
  <2>2. cur(t) \in Line /\ fate[cur(t)] = "calling" /\ cur(t) \notin InRing
    BY <1>1, <1>8 DEF EnqueueDropOld
  <2>3. Oldest \in Line /\ fate[Oldest] = "queued" /\ Oldest \in InRing
    BY <1>8, <2>1, OldestQueued DEF EnqueueDropOld, RingTyped
  <2>4. /\ InRing = Content(slots, capacity, head, count)
        /\ Distinct(slots, capacity, head, count)
    BY <2>1, RingContent
  <2>5. /\ Content(slots, capacity, Next1(head), count - 1) = InRing \ {Oldest}
        /\ Distinct(slots, capacity, Next1(head), count - 1)
    BY <2>1, <2>4, PopContent DEF RingTyped, Next1, Oldest
  <2>6. /\ Next1(head) \in 0..capacity - 1 /\ count - 1 \in 0..capacity - 1
        /\ tail = (Next1(head) + (count - 1)) % capacity
    BY <2>1, PopKeepsRing DEF RingTyped
  <2>7. /\ InRing' = (InRing \ {Oldest}) \cup {cur(t)}
        /\ \A j, k \in 0..count' - 1 : Queued(j)' = Queued(k)' => j = k
    BY <1>8, <2>1, <2>2, <2>5, <2>6, PushLines DEF EnqueueDropOld, configVars
  <2>8. InFlight' = InFlight
    BY <1>8 DEF EnqueueDropOld, SignalNotEmpty, InFlight
  <2>9. WithFate("queued")' = (WithFate("queued") \ {Oldest}) \cup {cur(t)}
    BY <1>2, <1>8, <2>2, <2>3 DEF EnqueueDropOld, WithFate
  <2>10. cur(t) \notin InFlight /\ Oldest \notin InFlight
    BY <2>2, <2>3 DEF NothingLost, WithFate
  <2> QED
    BY <2>7, <2>8, <2>9, <2>10 DEF NothingLost
<1>9. ASSUME NEW t \in Thread, EnqueueDropOldNoMemory(t) PROVE NothingLost'
  <2>1. RingTyped /\ count > 0 /\ slots # NoSlots
    BY <1>9, RunningRing
    DEF EnqueueDropOldNoMemory, Full, RingTyped, RingConsistent
  <2>2. cur(t) \in Line /\ fate[cur(t)] = "calling"
    BY <1>1, <1>9 DEF EnqueueDropOldNoMemory
  <2>3. Oldest \in Line /\ fate[Oldest] = "queued" /\ Oldest \in InRing
    BY <1>9, <2>1, OldestQueued DEF EnqueueDropOldNoMemory
  <2>4. /\ InRing' = InRing \ {Oldest}
        /\ \A j, k \in 0..count' - 1 : Queued(j)' = Queued(k)' => j = k
    BY <1>9, <2>1, PopLines DEF EnqueueDropOldNoMemory, configVars
  <2>5. WithFate("queued")' = WithFate("queued") \ {Oldest}
    BY <1>2, <1>9, <2>2, <2>3 DEF EnqueueDropOldNoMemory, WithFate
  <2>6. InFlight' = InFlight /\ Oldest \notin InFlight
    BY <1>9, <2>3 DEF EnqueueDropOldNoMemory, workerVars, InFlight, NothingLost
  <2> QED
    BY <2>4, <2>5, <2>6 DEF NothingLost
<1>10. ASSUME NEW t \in Thread, ForkChild(t) PROVE NothingLost'
  <2>1. \A l \in Line : fate'[l] # "queued"
    BY <1>10 DEF ForkChild
  <2> QED
    BY <1>10, <2>1, LinesGone DEF ForkChild, EmptyRing, InFlight
<1>11. CASE WorkerLoop \/ WorkerTick \/ WorkerSync \/ WorkerRelock
            \/ WorkerBatchEnd \/ StartThread \/ StopBegin
            \/ Terminated \/ UNCHANGED vars
  BY <1>11, LinesKeep
  DEF WorkerLoop, WorkerTick, WorkerProceed, WorkerSync, WorkerRelock,
      WorkerBatchEnd, StartThread, StopBegin, SignalNotEmpty, Terminated,
      PhasesAgree, vars, engineVars, workerVars, ringVars, configVars, InFlight
<1>12. CASE WorkerTake \/ WorkerSkip
  <2>1. /\ RingTyped /\ count > 0 /\ slots # NoSlots
        /\ running /\ wpc = "batch"
    BY <1>12, RunningRing
    DEF WorkerTake, WorkerSkip, InBatch, PhasesAgree, RingConsistent
  <2>2. Oldest \in Line /\ fate[Oldest] = "queued" /\ Oldest \in InRing
    BY <2>1, OldestQueued
  <2>3. /\ InRing' = InRing \ {Oldest}
        /\ \A j, k \in 0..count' - 1 : Queued(j)' = Queued(k)' => j = k
    BY <1>12, <2>1, PopLines DEF WorkerTake, WorkerSkip, configVars
  <2>4. InFlight = {}
    BY <2>1 DEF InFlight
  <2>5. CASE WorkerTake
    <3>1. InFlight' = {Oldest} /\ fate' = fate
      BY <2>5 DEF WorkerTake, InFlight
    <3> QED
      BY <2>2, <2>3, <2>4, <3>1 DEF NothingLost, WithFate
  <2>6. CASE WorkerSkip
    <3>1. InFlight' = {}
      BY <2>1, <2>6 DEF WorkerSkip, InFlight
    <3>2. WithFate("queued")' = WithFate("queued") \ {Oldest}
      BY <1>2, <2>2, <2>6 DEF WorkerSkip, WithFate
    <3> QED
      BY <2>2, <2>3, <2>4, <3>1, <3>2 DEF NothingLost
  <2> QED
    BY <1>12, <2>5, <2>6
<1>13. CASE WorkerEmit
  <2>1. InFlight = {scratch} /\ InFlight' = {}
    BY <1>13 DEF WorkerEmit, InFlight
  <2>2. WithFate("queued")' = WithFate("queued") \ {scratch}
    BY <1>2, <1>13 DEF WorkerEmit, WithFate
  <2>3. InRing' = InRing /\ (slots # NoSlots =>
           \A j, k \in 0..count' - 1 : Queued(j)' = Queued(k)' => j = k)
    BY <1>13 DEF WorkerEmit, engineVars, InRing, Queued, NothingLost
  <2>4. slots' = slots
    BY <1>13 DEF WorkerEmit, engineVars
  <2> QED
    BY <2>1, <2>2, <2>3, <2>4 DEF NothingLost
<1>14. CASE StartBegin
  <2>1. InRing = {} /\ InFlight = {}
    BY <1>14, EmptyContent
    DEF StartBegin, AsyncStart, PhasesAgree, InFlight
  <2>2. \A l \in Line : fate'[l] # "queued"
    BY <1>14, <2>1 DEF StartBegin, AsyncStart, NothingLost, WithFate
  <2>3. InFlight' = {}
    BY <1>14, <2>1 DEF StartBegin, AsyncStart, workerVars, InFlight
  <2> QED
    BY <1>14, <2>2, <2>3, LinesGone DEF StartBegin, AsyncStart, EmptyRing
<1>15. CASE StartFail
  <2>1. InFlight = {} /\ InFlight' = {}
    BY <1>15 DEF StartFail, PhasesAgree, workerVars, InFlight
  <2>2. \A l \in Line : fate'[l] # "queued"
    BY <1>15, <2>1 DEF StartFail, NothingLost, WithFate
  <2> QED
    BY <1>15, <2>1, <2>2, LinesGone DEF StartFail
<1>16. CASE StopDetach
  <2>1. InFlight = {} /\ InFlight' = {}
    BY <1>16 DEF StopDetach, workerVars, InFlight
  <2>2. InRing = {}
    BY <1>16, EmptyContent DEF StopDetach, PhasesAgree
  <2>3. \A l \in Line : fate'[l] # "queued"
    BY <1>16, <2>1, <2>2 DEF StopDetach, NothingLost, WithFate
  <2> QED
    BY <1>16, <2>1, <2>3, LinesGone DEF StopDetach
<1> QED
  BY <1>3, <1>4, <1>5, <1>6, <1>7, <1>8, <1>9, <1>10, <1>11, <1>12, <1>13,
     <1>14, <1>15, <1>16 DEF Next, Enqueue, Worker, Control

-----------------------------------------------------------------------------
(***************************************************************************)
(* The inductive invariant and what follows from it.                       *)
(***************************************************************************)
EngineInv == TypeOK /\ RingConsistent /\ ThreadsAgree /\ NothingLost

\* The inductive invariant holds before the first start.
LEMMA EngineInvInit == Init => EngineInv
<1> SUFFICES ASSUME Init PROVE EngineInv
  OBVIOUS
<1>1. TypeOK
  <2>1. RingTypeOK /\ WorkerTypeOK
    BY DEF Init, RingTypeOK, WorkerTypeOK, Policies
  <2>2. FlagTypeOK
    BY DEF Init, FlagTypeOK
  <2>3. CallTypeOK
    BY MaxLinesAssumption DEF Init, CallTypeOK, CallStates, Codes
  <2>4. HistoryTypeOK
    BY DEF Init, HistoryTypeOK, Fates
  <2> QED
    BY <2>1, <2>2, <2>3, <2>4 DEF TypeOK
<1>2. RingConsistent /\ PhasesAgree
  BY DEF Init, RingConsistent, PhasesAgree
<1>3. CallsHoldLines
  BY LineOf DEF Init, CallsHoldLines
<1>4. NothingLost
  BY DEF Init, NothingLost, WithFate, InRing, InFlight
<1> QED
  BY <1>1, <1>2, <1>3, <1>4 DEF EngineInv, ThreadsAgree

\* Every step of the engine preserves the inductive invariant.
LEMMA EngineInvStep == EngineInv /\ [Next]_vars => EngineInv'
<1> SUFFICES ASSUME EngineInv, [Next]_vars PROVE EngineInv'
  OBVIOUS
<1> USE DEF EngineInv, ThreadsAgree
<1>1. RingTypeOK' /\ RingConsistent'
  BY RingStep
<1>2. FlagTypeOK'
  BY FlagStep DEF TypeOK
<1>3. WorkerTypeOK' /\ CallTypeOK' /\ HistoryTypeOK'
  BY WorkerTypeStep, CallTypeStep, HistoryTypeStep
<1>4. PhasesAgree' /\ CallsHoldLines'
  BY PhasesStep, CallsStep
<1>5. NothingLost'
  BY LinesStep
<1> QED
  BY <1>1, <1>2, <1>3, <1>4, <1>5 DEF TypeOK

\* The inductive invariant: types, ring indices, the agreement of worker,
\* controlling thread and calls, and the content of the ring, each of which
\* needs the others (a pop is in range because the slots hold lines, a push
\* queues a line because its call still holds one).
THEOREM EngineInvariant == Spec => []EngineInv
BY EngineInvInit, EngineInvStep, PTL DEF Spec

\* The worker runs exactly while the engine does and exits only from a stopped
\* engine with an empty ring (hx_async_start, worker_main, hx_async_stop), and
\* a call that has not returned still holds the line it will queue.
THEOREM ThreadsDoAgree == Spec => []ThreadsAgree
<1>1. EngineInv => ThreadsAgree
  BY DEF EngineInv
<1> QED
  BY <1>1, EngineInvariant, PTL

\* Every variable of the engine keeps its type: count never goes below zero,
\* head and tail stay numbers, a slot holds a line or nothing.
THEOREM TypeCorrect == Spec => []TypeOK
<1>1. EngineInv => TypeOK
  BY DEF EngineInv
<1> QED
  BY <1>1, EngineInvariant, PTL

\* The ring indices agree whatever the capacity, the policy, the number of
\* producers and the restarts (hx_async_enqueue, worker_main).
THEOREM RingIsConsistent == Spec => []RingConsistent
<1>1. EngineInv => RingConsistent
  BY DEF EngineInv
<1> QED
  BY <1>1, EngineInvariant, PTL

\* No accepted line is lost or duplicated inside the engine.
THEOREM NothingIsLost == Spec => []NothingLost
<1>1. EngineInv => NothingLost
  BY DEF EngineInv
<1> QED
  BY <1>1, EngineInvariant, PTL

\* An engine that is down has delivered or accounted for every line it
\* accepted, and its worker is gone (hx_async_stop drains).
THEOREM StopHasDrained == Spec => []StopDrains
<1>1. EngineInv => StopDrains
  <2> SUFFICES ASSUME EngineInv, ~running PROVE StopDrains
    BY DEF StopDrains
  <2>1. wpc \in {"none", "exited"} /\ (slots = NoSlots \/ count = 0)
    BY DEF EngineInv, TypeOK, WorkerTypeOK, ThreadsAgree, PhasesAgree
  <2>2. InRing = {} /\ InFlight = {}
    BY <2>1, EmptyContent DEF InFlight
  <2> QED
    BY <2>1, <2>2 DEF EngineInv, NothingLost, StopDrains
<1> QED
  BY <1>1, EngineInvariant, PTL

-----------------------------------------------------------------------------
(***************************************************************************)
(* What became of a line is final.                                         *)
(***************************************************************************)
Final == {"emitted", "refused", "forgotten", "orphaned", "parent"}

\* A step changes no final fate, and only forgets what was dropped.
FateStep ==
    \A l \in Line : /\ fate[l] \in Final => fate'[l] = fate[l]
                    /\ fate[l] = "dropped" => fate'[l] \in {"dropped", "forgotten"}

\* Every step of the engine is one: a fate that changes was "new", "calling" or
\* "queued", or the statistics are reset.
LEMMA FatesKeep == EngineInv /\ [Next]_vars => FateStep
<1> SUFFICES ASSUME EngineInv, [Next]_vars PROVE FateStep
  OBVIOUS
<1> USE DEF EngineInv
<1>1. fate \in [Line -> Fates]
  BY DEF TypeOK, HistoryTypeOK
<1>2. \A t \in Thread : call[t] \in {"enq", "blocked", "woken"}
         => cur(t) \in Line /\ fate[cur(t)] = "calling"
  BY CurIsLine DEF ThreadsAgree, CallsHoldLines
<1>3. ASSUME NEW t \in Thread, Submit(t) PROVE FateStep
  <2>1. sent[t] \in 0..MaxLines /\ sent[t] + 1 \in 1..MaxLines
    BY <1>3, MaxLinesAssumption DEF Submit, TypeOK, CallTypeOK
  <2>2. <<t, sent[t] + 1>> \in Line /\ fate[<<t, sent[t] + 1>>] = "new"
    BY <2>1, LineOf DEF ThreadsAgree, CallsHoldLines
  <2>3. \A l \in Line \ {<<t, sent[t] + 1>>} : fate'[l] = fate[l]
    BY <1>1, <1>3 DEF Submit
  <2> QED
    BY <1>1, <2>2, <2>3 DEF FateStep, Final
<1>4. ASSUME NEW t \in Thread,
             EnqueueRefuse(t) \/ EnqueueDropNew(t) \/ EnqueueNoMemory(t) \/ EnqueuePush(t)
      PROVE  FateStep
  <2>1. cur(t) \in Line /\ fate[cur(t)] = "calling"
    BY <1>2, <1>4
    DEF EnqueueRefuse, EnqueueDropNew, EnqueueNoMemory, EnqueuePush, HasRoom
  <2>2. \A l \in Line \ {cur(t)} : fate'[l] = fate[l]
    BY <1>1, <1>4 DEF EnqueueRefuse, EnqueueDropNew, EnqueueNoMemory, EnqueuePush
  <2> QED
    BY <1>1, <2>1, <2>2 DEF FateStep, Final
<1>5. ASSUME NEW t \in Thread, EnqueueDropOld(t) \/ EnqueueDropOldNoMemory(t)
      PROVE  FateStep
  <2>1. RingTyped /\ count > 0
    BY <1>5, RunningRing
    DEF EnqueueDropOld, EnqueueDropOldNoMemory, Full, RingTyped, RingConsistent
  <2>2. Oldest \in Line /\ fate[Oldest] = "queued"
    BY <1>5, <2>1, OldestQueued DEF EnqueueDropOld, EnqueueDropOldNoMemory
  <2>3. cur(t) \in Line /\ fate[cur(t)] = "calling"
    BY <1>2, <1>5 DEF EnqueueDropOld, EnqueueDropOldNoMemory
  <2>4. \A l \in Line \ {Oldest, cur(t)} : fate'[l] = fate[l]
    BY <1>1, <1>5 DEF EnqueueDropOld, EnqueueDropOldNoMemory
  <2> QED
    BY <1>1, <2>2, <2>3, <2>4 DEF FateStep, Final
<1>6. ASSUME NEW t \in Thread, ForkChild(t) PROVE FateStep
  <2>1. \A l \in Line : fate[l] \notin {"queued", "calling"} => fate'[l] = fate[l]
    BY <1>6 DEF ForkChild
  <2> QED
    BY <1>1, <2>1 DEF FateStep, Final
<1>7. CASE StartBegin
  BY <1>1, <1>7 DEF StartBegin, AsyncStart, FateStep, Final
<1>8. CASE StartFail
  <2>1. \A l \in Line : fate[l] # "queued" => fate'[l] = fate[l]
    BY <1>8 DEF StartFail, NothingLost, WithFate
  <2> QED
    BY <1>1, <2>1 DEF FateStep, Final
<1>9. CASE WorkerSkip
  <2>1. RingTyped /\ count > 0 /\ running
    BY <1>9, RunningRing
    DEF WorkerSkip, InBatch, ThreadsAgree, PhasesAgree, RingConsistent
  <2>2. Oldest \in Line /\ fate[Oldest] = "queued"
    BY <2>1, OldestQueued
  <2>3. \A l \in Line \ {Oldest} : fate'[l] = fate[l]
    BY <1>1, <1>9 DEF WorkerSkip
  <2> QED
    BY <1>1, <2>2, <2>3 DEF FateStep, Final
<1>10. CASE WorkerEmit
  <2>1. scratch \in Line /\ fate[scratch] = "queued"
    BY <1>10 DEF WorkerEmit, NothingLost, WithFate, InFlight
  <2>2. \A l \in Line \ {scratch} : fate'[l] = fate[l]
    BY <1>1, <1>10 DEF WorkerEmit
  <2> QED
    BY <1>1, <2>1, <2>2 DEF FateStep, Final
<1>11. ASSUME fate' = fate PROVE FateStep
  BY <1>11 DEF FateStep
<1>12. ASSUME NEW t \in Thread,
              EnqueueBlock(t) \/ SpuriousWakeup(t) \/ FlushBegin(t) \/ FlushReturn(t)
       PROVE  FateStep
  BY <1>11, <1>12 DEF EnqueueBlock, SpuriousWakeup, FlushBegin, AsyncFlush, FlushReturn
<1>13. CASE WorkerLoop \/ WorkerTick \/ WorkerSync \/ WorkerTake \/ WorkerRelock
            \/ WorkerBatchEnd \/ StartThread \/ StopBegin \/ StopDetach
            \/ Terminated \/ UNCHANGED vars
  BY <1>11, <1>13
  DEF WorkerLoop, WorkerTick, WorkerSync, WorkerTake, WorkerRelock, WorkerBatchEnd,
      StartThread, StopBegin, StopDetach, Terminated, vars
<1> QED
  BY <1>3, <1>4, <1>5, <1>6, <1>7, <1>8, <1>9, <1>10, <1>12, <1>13
  DEF Next, Enqueue, Worker, Control

\* What became of a line is final: it is delivered at most once, never after
\* it was reported lost or refused, and never by a forked child if its parent
\* had queued it (worker_main, hx_async_enqueue, hx_async_after_fork_child).
THEOREM FatesNeverChange == Spec => FatesAreFinal
<1>1. EngineInv /\ [Next]_vars
        => [\A l \in Line :
              /\ fate[l] \in {"emitted", "refused", "forgotten", "orphaned", "parent"}
                     => fate'[l] = fate[l]
              /\ fate[l] = "dropped" => fate'[l] \in {"dropped", "forgotten"}]_vars
  BY FatesKeep DEF FateStep, Final
<1> QED
  BY <1>1, EngineInvariant, PTL DEF Spec, FatesAreFinal

-----------------------------------------------------------------------------
(***************************************************************************)
(* The condition variables: no signal is missed.                           *)
(***************************************************************************)
LEMMA WorkerAwakeStep ==
    ASSUME EngineInv, WorkerNotAsleep, [Next]_vars
    PROVE  WorkerNotAsleep'
<1> USE DEF WorkerNotAsleep
<1>1. ASSUME NEW t \in Thread, Submit(t) \/ EnqueueRefuse(t)
                \/ EnqueueDropNew(t) \/ EnqueueBlock(t)
                \/ EnqueueNoMemory(t) \/ SpuriousWakeup(t) \/ FlushReturn(t)
      PROVE  WorkerNotAsleep'
  BY <1>1 DEF Submit, EnqueueRefuse, EnqueueDropNew, EnqueueBlock,
     EnqueueNoMemory, SpuriousWakeup, FlushReturn, engineVars, workerVars,
     ringVars
<1>2. ASSUME NEW t \in Thread,
             EnqueuePush(t) \/ EnqueueDropOld(t) \/ FlushBegin(t)
      PROVE  WorkerNotAsleep'
  BY <1>2 DEF EnqueuePush, EnqueueDropOld, FlushBegin, AsyncFlush,
     SignalNotEmpty, ringVars
<1>3. ASSUME NEW t \in Thread, EnqueueDropOldNoMemory(t)
      PROVE  WorkerNotAsleep'
  <2>1. count > 0
    BY <1>3, RunningRing
    DEF EngineInv, EnqueueDropOldNoMemory, Full, RingTyped
  <2> QED
    BY <1>3, <2>1 DEF EnqueueDropOldNoMemory, workerVars
<1>4. ASSUME NEW t \in Thread, ForkChild(t) PROVE WorkerNotAsleep'
  BY <1>4 DEF ForkChild
<1>5. CASE Worker
  BY <1>5 DEF Worker, WorkerLoop, WorkerTick, WorkerProceed, WorkerSync,
     WorkerTake, WorkerSkip, InBatch, WorkerEmit, WorkerRelock, WorkerBatchEnd,
     ringVars
<1>6. CASE Control
  <2>1. CASE StartBegin \/ StartThread \/ StartFail \/ StopDetach
    BY <2>1 DEF EngineInv, ThreadsAgree, PhasesAgree, StartBegin, AsyncStart,
       StartThread, StartFail, StopDetach, workerVars
  <2>2. CASE StopBegin
    BY <2>2 DEF StopBegin, SignalNotEmpty
  <2> QED
    BY <1>6, <2>1, <2>2 DEF Control
<1>7. CASE Terminated \/ UNCHANGED vars
  BY <1>7 DEF Terminated, vars, engineVars, workerVars
<1> QED
  BY <1>1, <1>2, <1>3, <1>4, <1>5, <1>6, <1>7 DEF Next, Enqueue

\* The worker never sleeps while lines are queued, a flush is requested or a
\* stop has begun: hx_async_enqueue, hx_async_flush and hx_async_stop signal
\* not_empty inside the critical section that gives it work.
THEOREM WorkerIsAwake == Spec => []WorkerNotAsleep
<1>1. Init => WorkerNotAsleep
  BY DEF Init, WorkerNotAsleep
<1>2. EngineInv /\ WorkerNotAsleep /\ [Next]_vars => WorkerNotAsleep'
  BY WorkerAwakeStep
<1> QED
  BY <1>1, <1>2, EngineInvariant, PTL DEF Spec

\* Producers wait on not_full only for an engine that runs and is not stopped.
WaitersAreServed ==
    /\ Blocked # {} => running /\ ~stop
    /\ (\E t \in Thread : call[t] = "woken") => running \/ stop
    /\ NoLostWakeup

\* Without failures, every step keeps the waiting producers served.
LEMMA WakeupStep ==
    ASSUME ~AllocMayFail, ~ThreadMayFail,
           EngineInv, WaitersAreServed, [Next]_vars
    PROVE  WaitersAreServed'
<1> USE DEF WaitersAreServed, NoLostWakeup, Blocked
<1>1. call \in [Thread -> CallStates]
  BY DEF EngineInv, TypeOK, CallTypeOK
<1>2. ASSUME NEW t \in Thread, Submit(t) PROVE WaitersAreServed'
  BY <1>1, <1>2 DEF Submit, engineVars
<1>3. ASSUME NEW t \in Thread, EnqueueRefuse(t) PROVE WaitersAreServed'
  BY <1>1, <1>3 DEF EnqueueRefuse, Return, engineVars
<1>4. ASSUME NEW t \in Thread, EnqueueDropNew(t) PROVE WaitersAreServed'
  BY <1>1, <1>4 DEF EnqueueDropNew, Return, ringVars
<1>5. ASSUME NEW t \in Thread, EnqueueBlock(t) PROVE WaitersAreServed'
  <2>1. running /\ ~stop
    BY <1>5 DEF EnqueueBlock
  <2>2. count > 0
    BY <1>5, <2>1, RunningRing DEF EngineInv, EnqueueBlock, Full, RingTyped
  <2> QED
    BY <1>5, <2>1, <2>2 DEF EnqueueBlock, engineVars
<1>6. ASSUME NEW t \in Thread, EnqueuePush(t) \/ EnqueueDropOld(t)
      PROVE  WaitersAreServed'
  <2>1. running /\ ~stop /\ running' = running /\ stop' = stop
    BY <1>6 DEF EnqueuePush, EnqueueDropOld, HasRoom
  <2>2. count' > 0
    BY <1>6, <2>1, RunningRing
    DEF EngineInv, EnqueuePush, EnqueueDropOld, Push, Full, RingTyped
  <2> QED
    BY <2>1, <2>2
<1>7. ASSUME NEW t \in Thread, SpuriousWakeup(t) PROVE WaitersAreServed'
  BY <1>1, <1>7 DEF SpuriousWakeup, engineVars
<1>8. ASSUME NEW t \in Thread, FlushBegin(t) \/ FlushReturn(t)
      PROVE  WaitersAreServed'
  BY <1>1, <1>8 DEF FlushBegin, AsyncFlush, FlushReturn, engineVars, ringVars
<1>9. ASSUME NEW t \in Thread, ForkChild(t) PROVE WaitersAreServed'
  BY <1>9 DEF ForkChild
<1>10. CASE WorkerTake
  <2>1. running' = running /\ stop' = stop
    BY <1>10 DEF WorkerTake
  <2>2. CASE Blocked = {}
    BY <1>10, <2>1, <2>2 DEF WorkerTake, SignalNotFull
  <2>3. CASE Blocked # {}
    <3>1. PICK t \in Blocked : call' = [call EXCEPT ![t] = "woken"]
      BY <1>10, <2>3 DEF WorkerTake, SignalNotFull
    <3> QED
      BY <1>1, <2>1, <3>1
  <2> QED
    BY <2>2, <2>3
<1>11. CASE Worker /\ ~WorkerTake
  BY <1>11 DEF Worker, WorkerLoop, WorkerTick, WorkerProceed, WorkerSync,
     WorkerSkip, WorkerEmit, WorkerRelock, WorkerBatchEnd, engineVars,
     ringVars, callVars
<1>12. CASE Control
  BY <1>1, <1>12 DEF Control, StartBegin, AsyncStart, StartThread, StartFail,
     StopBegin, BroadcastNotFull, StopDetach, EngineInv, ThreadsAgree,
     PhasesAgree, EmptyRing, engineVars, ringVars, callVars
<1>13. CASE Terminated \/ UNCHANGED vars
  BY <1>13 DEF Terminated, vars, engineVars, callVars
<1> QED
  BY <1>2, <1>3, <1>4, <1>5, <1>6, <1>7, <1>8, <1>9, <1>10, <1>11, <1>12,
     <1>13 DEF Next, Enqueue, EnqueueNoMemory, EnqueueDropOldNoMemory

\* While memory lasts and threads start, no wake-up for space is lost: a
\* producer waits on not_full only beside a queued line whose removal will
\* signal it, or behind a producer already signalled (BLOCK in
\* hx_async_enqueue, the signals of worker_main and hx_async_stop).
THEOREM WakeupsAreNotLost ==
    ASSUME ~AllocMayFail, ~ThreadMayFail
    PROVE  Spec => []NoLostWakeup
<1>1. Init => WaitersAreServed
  BY DEF Init, WaitersAreServed, NoLostWakeup, Blocked
<1>2. EngineInv /\ WaitersAreServed /\ [Next]_vars => WaitersAreServed'
  BY WakeupStep
<1>3. WaitersAreServed => NoLostWakeup
  BY DEF WaitersAreServed
<1> QED
  BY <1>1, <1>2, <1>3, EngineInvariant, PTL DEF Spec

=============================================================================
