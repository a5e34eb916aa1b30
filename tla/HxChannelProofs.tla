-------------------------- MODULE HxChannelProofs --------------------------
(***************************************************************************)
(* The asynchronous engine implements the bounded FIFO channel of HxQueue; *)
(* its lines keep their thread's order, and every loss is counted.  Each   *)
(* result rests on the inductive invariant of HxAsyncProofs.               *)
(***************************************************************************)
EXTENDS HxAsyncProofs, FiniteSetTheorems, Sequences

-----------------------------------------------------------------------------
(***************************************************************************)
(* The ring as a sequence: n lines of the slots s of capacity c, from h.   *)
(***************************************************************************)
Slot            == Line \cup {NoLine}
Run(s, c, h, n) == [k \in 1..n |-> s[(h + (k - 1)) % c]]

\* Of a run of slots, the first is the one at h and the others are the run
\* that starts after h.
LEMMA RunTail ==
    ASSUME NEW c \in Nat \ {0}, NEW s \in [0..c - 1 -> Slot],
           NEW h \in 0..c - 1, NEW n \in 1..c
    PROVE  /\ Run(s, c, h, n) \in Seq(Slot)
           /\ Len(Run(s, c, h, n)) = n
           /\ Head(Run(s, c, h, n)) = s[h]
           /\ Run(s, c, (h + 1) % c, n - 1) = Tail(Run(s, c, h, n))
<1>1. \A k \in 1..n : (h + (k - 1)) % c \in 0..c - 1
  <2> TAKE k \in 1..n
  <2>1. k - 1 \in 0..c
    OBVIOUS
  <2> QED
    BY <2>1, Wrap
<1>2. /\ Run(s, c, h, n) \in Seq(Slot)
      /\ Len(Run(s, c, h, n)) = n
      /\ DOMAIN Run(s, c, h, n) = 1..n
  BY <1>1 DEF Run
<1>3. Head(Run(s, c, h, n)) = s[h]
  <2>1. (h + (1 - 1)) % c = h /\ 1 \in 1..n
    BY FirstIndex
  <2>2. Run(s, c, h, n)[1] = s[h]
    BY <2>1 DEF Run
  <2> QED
    BY <1>2, <2>2
<1>4. \A k \in 1..n - 1 : (((h + 1) % c) + (k - 1)) % c = (h + ((k + 1) - 1)) % c
  <2> TAKE k \in 1..n - 1
  <2>1. k - 1 \in 0..c - 1 /\ (k - 1) + 1 = (k + 1) - 1
    OBVIOUS
  <2> QED
    BY <2>1, NextWrap
<1>5. Tail(Run(s, c, h, n)) = [k \in 1..n - 1 |-> Run(s, c, h, n)[k + 1]]
  BY <1>2
<1>6. \A k \in 1..n - 1 : /\ k + 1 \in 1..n
                          /\ Run(s, c, h, n)[k + 1] = s[(h + ((k + 1) - 1)) % c]
  BY DEF Run
<1> QED
  BY <1>2, <1>3, <1>4, <1>5, <1>6 DEF Run

\* Writing l into the slot behind a run appends l to it.
LEMMA RunAppend ==
    ASSUME NEW c \in Nat \ {0}, NEW s \in [0..c - 1 -> Slot], NEW l,
           NEW h \in 0..c - 1, NEW n \in 0..c - 1
    PROVE  Run([s EXCEPT ![(h + n) % c] = l], c, h, n + 1)
              = Append(Run(s, c, h, n), l)
<1> DEFINE r == [s EXCEPT ![(h + n) % c] = l]
<1>1. \A k \in 1..n : /\ (h + (k - 1)) % c \in 0..c - 1
                      /\ (h + (k - 1)) % c # (h + n) % c
  <2> TAKE k \in 1..n
  <2>1. k - 1 \in 0..c - 1 /\ k - 1 # n /\ k - 1 \in 0..c
    OBVIOUS
  <2> QED
    BY <2>1, Wrap, SlotsDiffer
<1>2. r[(h + n) % c] = l
  <2>1. (h + n) % c \in 0..c - 1
    BY Wrap
  <2> QED
    BY <2>1
<1>3. \A k \in 1..n : r[(h + (k - 1)) % c] = s[(h + (k - 1)) % c]
  BY <1>1
<1> HIDE DEF r
<1>4. /\ Run(s, c, h, n) \in Seq(Slot) /\ Len(Run(s, c, h, n)) = n
      /\ DOMAIN Run(s, c, h, n) = 1..n
  BY <1>1 DEF Run
<1>5. /\ Append(Run(s, c, h, n), l)
            = [k \in 1..n + 1 |-> IF k = n + 1 THEN l ELSE Run(s, c, h, n)[k]]
  BY <1>4
<1>6. \A k \in 1..n + 1 : r[(h + (k - 1)) % c]
                             = IF k = n + 1 THEN l ELSE Run(s, c, h, n)[k]
  <2> TAKE k \in 1..n + 1
  <2>1. CASE k = n + 1
    BY <1>2, <2>1
  <2>2. CASE k # n + 1
    <3>1. k \in 1..n
      BY <2>2
    <3> QED
      BY <1>3, <2>2, <3>1 DEF Run
  <2> QED
    BY <2>1, <2>2
<1>7. Run(r, c, h, n + 1) = Append(Run(s, c, h, n), l)
  BY <1>5, <1>6 DEF Run
<1> QED
  BY <1>7 DEF r

-----------------------------------------------------------------------------
(***************************************************************************)
(* The lines that wait, as the channel sees them.                          *)
(***************************************************************************)
LEMMA PendingIsRun ==
    ASSUME slots # NoSlots
    PROVE  PendingLines = Run(slots, capacity, head, count)
BY DEF PendingLines, Queued, Run

\* Nothing is pending in a ring without slots or without lines.
LEMMA NothingPending ==
    ASSUME slots = NoSlots \/ count = 0
    PROVE  PendingLines = <<>>
BY DEF PendingLines

\* The pending lines of a running engine.
LEMMA RingLines ==
    ASSUME RingTyped, slots # NoSlots
    PROVE  /\ slots \in [0..capacity - 1 -> Slot]
           /\ PendingLines \in Seq(Slot)
           /\ Len(PendingLines) = count
           /\ count > 0 => PendingLines # <<>> /\ Head(PendingLines) = Oldest
<1>1. /\ slots \in [0..capacity - 1 -> Slot]
      /\ capacity \in Nat \ {0} /\ head \in 0..capacity - 1
      /\ count \in 0..capacity
  BY DEF RingTyped, Slot
<1>2. CASE count = 0
  BY <1>1, <1>2, NothingPending
<1>3. CASE count > 0
  <2>1. count \in 1..capacity
    BY <1>1, <1>3
  <2>2. PendingLines = Run(slots, capacity, head, count)
    BY PendingIsRun
  <2>3. Len(PendingLines) = count /\ PendingLines \in Seq(Slot)
        /\ Head(PendingLines) = slots[head]
    BY <1>1, <2>1, <2>2, RunTail
  <2> QED
    BY <1>1, <1>3, <2>3 DEF Oldest
<1> QED
  BY <1>1, <1>2, <1>3

\* Taking the oldest line out leaves the tail of what was pending.
LEMMA PopPending ==
    ASSUME RingTyped, slots # NoSlots, count > 0,
           Pop, UNCHANGED <<slots, capacity>>
    PROVE  PendingLines' = Tail(PendingLines)
<1>1. count \in 1..capacity
  BY DEF RingTyped
<1>2. PendingLines' = Run(slots, capacity, (head + 1) % capacity, count - 1)
  BY DEF PendingLines, Queued, Run, Pop, Next1
<1>3. PendingLines = Run(slots, capacity, head, count)
  BY PendingIsRun
<1>4. /\ capacity \in Nat \ {0} /\ slots \in [0..capacity - 1 -> Slot]
      /\ head \in 0..capacity - 1
  BY DEF RingTyped, Slot
<1>5. Run(slots, capacity, (head + 1) % capacity, count - 1)
         = Tail(Run(slots, capacity, head, count))
  BY <1>1, <1>4, RunTail
<1> QED
  BY <1>2, <1>3, <1>5

\* A push appends its line to the run it is pushed behind.
LEMMA PushPending ==
    ASSUME NEW l \in Line, NEW h \in 0..capacity - 1, NEW n \in 0..capacity - 1,
           RingTyped, slots # NoSlots,
           tail = (h + n) % capacity,
           Push(l, h, n), UNCHANGED capacity
    PROVE  PendingLines' = Append(Run(slots, capacity, h, n), l)
<1>1. slots' = [slots EXCEPT ![(h + n) % capacity] = l]
  BY DEF Push
<1>2. slots' # NoSlots
  BY <1>1 DEF RingTyped, NoSlots
<1>3. PendingLines' = Run(slots', capacity, h, n + 1)
  BY <1>2 DEF PendingLines, Queued, Run, Push
<1>4. capacity \in Nat \ {0} /\ slots \in [0..capacity - 1 -> Slot]
  BY DEF RingTyped, Slot
<1>5. Run([slots EXCEPT ![(h + n) % capacity] = l], capacity, h, n + 1)
         = Append(Run(slots, capacity, h, n), l)
  BY <1>4, RunAppend
<1> QED
  BY <1>1, <1>3, <1>5

\* A step that moves no line leaves the pending lines as they are.
LEMMA PendingKeep ==
    ASSUME UNCHANGED <<slots, capacity, head, count>>
    PROVE  PendingLines' = PendingLines
BY DEF PendingLines, Queued

-----------------------------------------------------------------------------
(***************************************************************************)
(* The refinement, one step per action.                                    *)
(***************************************************************************)

\* Before the first start the channel is closed and empty.
LEMMA ChannelInit == Init => Channel!Init
BY DEF Init, Channel!Init, Phase, PendingLines, InFlightLines

\* A call that still holds its line holds one that waits nowhere.
LEMMA HeldLine ==
    ASSUME EngineInv, NEW t \in Thread,
           call[t] \in {"enq", "blocked", "woken"}
    PROVE  cur(t) \in Line /\ fate[cur(t)] = "calling"
BY CurIsLine DEF EngineInv, ThreadsAgree, CallsHoldLines

\* The ring of a running engine, as the lemmas above want it.
LEMMA EngineRing ==
    ASSUME EngineInv, running
    PROVE  RingTyped /\ slots # NoSlots
BY RunningRing DEF EngineInv, RingConsistent

\* The steps that the channel does not see.
LEMMA ChannelStutter ==
    ASSUME EngineInv,
           \/ \E t \in Thread : \/ EnqueueBlock(t) \/ SpuriousWakeup(t)
                                \/ FlushBegin(t) \/ FlushReturn(t)
           \/ WorkerLoop \/ WorkerTick \/ WorkerSync \/ WorkerRelock
           \/ WorkerBatchEnd \/ StartThread \/ Terminated \/ UNCHANGED vars
    PROVE  UNCHANGED Channel!vars
<1> USE DEF engineVars, ringVars, configVars, workerVars
<1>1. /\ UNCHANGED <<slots, capacity, head, count, overflow, running, stop, fate>>
      /\ \/ wpc # "emit" /\ wpc' # "emit"
         \/ UNCHANGED <<wpc, scratch>>
  <2>1. ASSUME NEW t \in Thread,
               EnqueueBlock(t) \/ SpuriousWakeup(t) \/ FlushReturn(t)
        PROVE  <1>1!:
    BY <2>1 DEF EnqueueBlock, SpuriousWakeup, FlushReturn
  <2>2. ASSUME NEW t \in Thread, FlushBegin(t) PROVE <1>1!:
    BY <2>2 DEF FlushBegin, AsyncFlush, SignalNotEmpty
  <2>3. CASE WorkerLoop \/ WorkerTick \/ WorkerSync \/ WorkerRelock \/ WorkerBatchEnd
    BY <2>3 DEF WorkerLoop, WorkerTick, WorkerProceed, WorkerSync, WorkerRelock,
       WorkerBatchEnd
  <2>4. CASE StartThread
    BY <2>4 DEF StartThread, EngineInv, ThreadsAgree, PhasesAgree
  <2>5. CASE Terminated \/ UNCHANGED vars
    BY <2>5 DEF Terminated, vars
  <2> QED
    BY <2>1, <2>2, <2>3, <2>4, <2>5
<1>2. PendingLines' = PendingLines
  BY <1>1, PendingKeep
<1>3. InFlightLines' = InFlightLines /\ Phase' = Phase
  BY <1>1 DEF InFlightLines, Phase
<1> QED
  BY <1>1, <1>2, <1>3 DEF Channel!vars

\* A caller offers a line; the channel refuses it, accepts it, drops it, or
\* drops its oldest line for it.
LEMMA ChannelEnqueue ==
    ASSUME EngineInv, NEW t \in Thread, Submit(t) \/ Enqueue(t)
    PROVE  [Channel!Next]_(Channel!vars)
<1> USE DEF EngineInv
<1>1. CASE Submit(t)
  <2>1. sent[t] \in 0..MaxLines /\ sent[t] + 1 \in 1..MaxLines
    BY <1>1, MaxLinesAssumption DEF Submit, TypeOK, CallTypeOK
  <2>2. <<t, sent[t] + 1>> \in Line /\ fate[<<t, sent[t] + 1>>] = "new"
    BY <2>1, LineOf DEF ThreadsAgree, CallsHoldLines
  <2>3. Channel!Offer(<<t, sent[t] + 1>>)
    BY <1>1, <2>2, PendingKeep
    DEF Submit, Channel!Offer, Channel!Become, Channel!Frame, engineVars,
        workerVars, InFlightLines, Phase
  <2> QED
    BY <2>2, <2>3 DEF Channel!Next
<1>2. CASE EnqueueRefuse(t)
  <2>1. cur(t) \in Line /\ fate[cur(t)] = "calling"
    BY <1>2, HeldLine DEF EnqueueRefuse
  <2>2. Channel!Refuse(cur(t))
    BY <1>2, <2>1, PendingKeep
    DEF EnqueueRefuse, Channel!Refuse, Channel!Become, Channel!Frame,
        engineVars, workerVars, InFlightLines, Phase
  <2> QED
    BY <2>1, <2>2 DEF Channel!Next
<1>3. CASE EnqueueDropNew(t) \/ EnqueueNoMemory(t)
  <2>1. cur(t) \in Line /\ fate[cur(t)] = "calling"
    BY <1>3, HeldLine DEF EnqueueDropNew, EnqueueNoMemory, HasRoom
  <2>2. RingTyped /\ Len(PendingLines) = count /\ running /\ ~stop
    BY <1>3, EngineRing, RingLines
    DEF EnqueueDropNew, EnqueueNoMemory, HasRoom
  <2>3. PendingLines' = PendingLines /\ InFlightLines' = InFlightLines
        /\ UNCHANGED <<capacity, overflow, running, stop>>
    BY <1>3, PendingKeep
    DEF EnqueueDropNew, EnqueueNoMemory, ringVars, configVars, workerVars,
        InFlightLines
  <2>4. \/ overflow = "DROP_NEW" /\ Len(PendingLines) = capacity
        \/ AllocMayFail
    <3>1. CASE EnqueueDropNew(t)
      BY <2>2, <3>1 DEF EnqueueDropNew, Full, RingTyped
    <3>2. CASE EnqueueNoMemory(t)
      BY <3>2 DEF EnqueueNoMemory
    <3> QED
      BY <1>3, <3>1, <3>2
  <2>5. fate' = [fate EXCEPT ![cur(t)] = "dropped"]
    BY <1>3 DEF EnqueueDropNew, EnqueueNoMemory
  <2>6. Channel!DropNewest(cur(t))
    BY <2>1, <2>2, <2>3, <2>4, <2>5
    DEF Channel!DropNewest, Channel!Become, Channel!Frame, Phase
  <2> QED
    BY <2>1, <2>6 DEF Channel!Next
<1>4. CASE EnqueuePush(t)
  <2>1. cur(t) \in Line /\ fate[cur(t)] = "calling"
    BY <1>4, HeldLine DEF EnqueuePush, HasRoom
  <2>2. RingTyped /\ slots # NoSlots /\ running /\ ~stop /\ count \in 0..capacity - 1
    BY <1>4, EngineRing DEF EnqueuePush, HasRoom, Full, RingTyped
  <2>3. PendingLines' = Append(PendingLines, cur(t))
    BY <1>4, <2>1, <2>2, PushPending, PendingIsRun
    DEF EnqueuePush, RingTyped, configVars
  <2>4. Len(PendingLines) < capacity
    BY <2>2, RingLines DEF RingTyped
  <2>5. InFlightLines' = InFlightLines
    BY <1>4 DEF EnqueuePush, SignalNotEmpty, InFlightLines
  <2>6. Channel!Accept(cur(t))
    BY <1>4, <2>1, <2>2, <2>3, <2>4, <2>5
    DEF EnqueuePush, Channel!Accept, Channel!Become, Channel!Frame, configVars,
        Phase
  <2> QED
    BY <2>1, <2>6 DEF Channel!Next
<1>5. CASE EnqueueDropOld(t) \/ EnqueueDropOldNoMemory(t)
  <2>1. cur(t) \in Line /\ fate[cur(t)] = "calling"
    BY <1>5, HeldLine DEF EnqueueDropOld, EnqueueDropOldNoMemory
  <2>2. /\ RingTyped /\ slots # NoSlots /\ running /\ ~stop
        /\ count = capacity /\ count > 0
    BY <1>5, EngineRing
    DEF EnqueueDropOld, EnqueueDropOldNoMemory, Full, RingTyped
  <2>3. Head(PendingLines) = Oldest /\ Len(PendingLines) = capacity
    BY <2>2, RingLines
  <2>4. /\ UNCHANGED <<capacity, overflow, running, stop>>
        /\ InFlightLines' = InFlightLines
        /\ overflow = "DROP_OLD"
    BY <1>5 DEF EnqueueDropOld, EnqueueDropOldNoMemory, SignalNotEmpty,
       InFlightLines, configVars, workerVars
  <2>5. CASE EnqueueDropOld(t)
    <3>1. /\ Next1(head) \in 0..capacity - 1 /\ count - 1 \in 0..capacity - 1
          /\ tail = (Next1(head) + (count - 1)) % capacity
      BY <2>2, PopKeepsRing DEF RingTyped
    <3>2. PendingLines'
             = Append(Run(slots, capacity, Next1(head), count - 1), cur(t))
      BY <2>1, <2>2, <2>4, <2>5, <3>1, PushPending DEF EnqueueDropOld
    <3>3. Run(slots, capacity, Next1(head), count - 1) = Tail(PendingLines)
      <4>1. capacity \in Nat \ {0} /\ head \in 0..capacity - 1 /\ count \in 1..capacity
        BY <2>2 DEF RingTyped
      <4>2. slots \in [0..capacity - 1 -> Slot]
        BY <2>2, RingLines
      <4>3. Run(slots, capacity, (head + 1) % capacity, count - 1)
               = Tail(Run(slots, capacity, head, count))
        BY <4>1, <4>2, RunTail
      <4>4. PendingLines = Run(slots, capacity, head, count)
        BY <2>2, PendingIsRun
      <4> QED
        BY <4>3, <4>4 DEF Next1
    <3>4. fate' = [fate EXCEPT ![Head(PendingLines)] = "dropped", ![cur(t)] = "queued"]
      BY <2>3, <2>5 DEF EnqueueDropOld
    <3> QED
      BY <2>1, <2>2, <2>3, <2>4, <3>2, <3>3, <3>4
      DEF Channel!DropOldest, Channel!Frame, Channel!Next, Phase
  <2>6. CASE EnqueueDropOldNoMemory(t)
    <3>1. PendingLines' = Tail(PendingLines)
      BY <2>2, <2>4, <2>6, PopPending DEF EnqueueDropOldNoMemory
    <3>2. fate' = [fate EXCEPT ![Head(PendingLines)] = "dropped", ![cur(t)] = "dropped"]
      BY <2>3, <2>6 DEF EnqueueDropOldNoMemory
    <3>3. AllocMayFail
      BY <2>6 DEF EnqueueDropOldNoMemory
    <3> QED
      BY <2>1, <2>2, <2>3, <2>4, <3>1, <3>2, <3>3
      DEF Channel!DropOldest, Channel!Frame, Channel!Next, Phase
  <2> QED
    BY <1>5, <2>5, <2>6
<1>6. CASE EnqueueBlock(t)
  BY <1>6, ChannelStutter
<1> QED
  BY <1>1, <1>2, <1>3, <1>4, <1>5, <1>6 DEF Enqueue

\* The worker takes the oldest line and delivers it, or skips it.
LEMMA ChannelWorker ==
    ASSUME EngineInv, WorkerTake \/ WorkerSkip \/ WorkerEmit
    PROVE  [Channel!Next]_(Channel!vars)
<1> USE DEF EngineInv
<1>1. CASE WorkerTake \/ WorkerSkip
  <2>1. /\ RingTyped /\ slots # NoSlots /\ count > 0 /\ wpc = "batch"
    BY <1>1, EngineRing
    DEF WorkerTake, WorkerSkip, InBatch, ThreadsAgree, PhasesAgree
  <2>2. Head(PendingLines) = Oldest /\ PendingLines # <<>> /\ InFlightLines = <<>>
    BY <2>1, RingLines DEF InFlightLines
  <2>3. UNCHANGED <<capacity, overflow, running, stop>>
    BY <1>1 DEF WorkerTake, WorkerSkip, configVars
  <2>4. PendingLines' = Tail(PendingLines)
    BY <1>1, <2>1, <2>3, PopPending DEF WorkerTake, WorkerSkip
  <2>5. CASE WorkerTake
    <3>1. InFlightLines' = <<Head(PendingLines)>> /\ fate' = fate
      BY <2>2, <2>5 DEF WorkerTake, InFlightLines
    <3> QED
      BY <2>2, <2>3, <2>4, <3>1 DEF Channel!Take, Channel!Frame, Channel!Next, Phase
  <2>6. CASE WorkerSkip
    <3>1. /\ InFlightLines' = <<>> /\ AllocMayFail
          /\ fate' = [fate EXCEPT ![Head(PendingLines)] = "dropped"]
      BY <2>1, <2>2, <2>6 DEF WorkerSkip, InFlightLines
    <3> QED
      BY <2>2, <2>3, <2>4, <3>1
      DEF Channel!Skip, Channel!Become, Channel!Frame, Channel!Next, Phase
  <2> QED
    BY <1>1, <2>5, <2>6
<1>2. CASE WorkerEmit
  <2>1. InFlightLines = <<scratch>> /\ InFlightLines' = <<>>
    BY <1>2 DEF WorkerEmit, InFlightLines
  <2>2. PendingLines' = PendingLines /\ UNCHANGED <<capacity, overflow, running, stop>>
    BY <1>2, PendingKeep DEF WorkerEmit, engineVars
  <2>3. fate' = [fate EXCEPT ![Head(InFlightLines)] = "emitted"]
    BY <1>2, <2>1 DEF WorkerEmit
  <2> QED
    BY <2>1, <2>2, <2>3
    DEF Channel!Deliver, Channel!Become, Channel!Frame, Channel!Next, Phase
<1> QED
  BY <1>1, <1>2

\* The channel is opened, abandoned, closed and forked.
LEMMA ChannelControl ==
    ASSUME EngineInv,
           \/ StartBegin \/ StartFail \/ StopBegin \/ StopDetach
           \/ \E t \in Thread : ForkChild(t)
    PROVE  [Channel!Next]_(Channel!vars)
<1> USE DEF EngineInv, ThreadsAgree, PhasesAgree
<1>1. CASE StartBegin
  <2>1. PICK c \in Configs : capacity' = c.capacity /\ overflow' = c.overflow
    BY <1>1 DEF StartBegin, AsyncStart
  <2>2. capacity' \in Nat \ {0} /\ overflow' \in Policies
    BY <2>1, ConfigsAssumption
  <2>3. PendingLines = <<>> /\ PendingLines' = <<>>
    BY <1>1, NothingPending
    DEF StartBegin, AsyncStart, EmptyRing, PendingLines
  <2>4. InFlightLines' = InFlightLines
    BY <1>1 DEF StartBegin, AsyncStart, workerVars, InFlightLines
  <2>5. Phase = "closed" /\ Phase' = "open"
    BY <1>1 DEF StartBegin, AsyncStart, Phase
  <2>6. fate' = [l \in Line |-> IF fate[l] = "dropped" THEN "forgotten"
                                                       ELSE fate[l]]
    BY <1>1 DEF StartBegin, AsyncStart
  <2> QED
    BY <2>2, <2>3, <2>4, <2>5, <2>6 DEF Channel!Open, Channel!Next
<1>2. CASE StartFail
  <2>1. /\ InFlight = {} /\ InFlightLines = <<>> /\ InFlightLines' = <<>>
        /\ running /\ ~stop /\ ~running' /\ ThreadMayFail
        /\ UNCHANGED <<capacity, overflow>>
    BY <1>2 DEF StartFail, workerVars, InFlight, InFlightLines
  <2>2. PendingLines' = <<>>
    BY <1>2 DEF StartFail, PendingLines
  <2>3. \A l \in Line : l \in InRing <=> fate[l] = "queued"
    BY <2>1 DEF NothingLost, WithFate
  <2>4. fate' = [l \in Line |-> IF fate[l] = "queued" THEN "orphaned" ELSE fate[l]]
    BY <1>2, <2>3 DEF StartFail
  <2>5. Phase = "open" /\ Phase' = "closed"
    BY <2>1 DEF Phase
  <2> QED
    BY <2>1, <2>2, <2>4, <2>5 DEF Channel!Abandon, Channel!Next
<1>3. CASE StopBegin
  <2>1. Phase = "open" /\ Phase' = "closing"
    BY <1>3 DEF StopBegin, Phase
  <2>2. PendingLines' = PendingLines /\ UNCHANGED <<capacity, overflow, fate>>
    BY <1>3, PendingKeep DEF StopBegin, ringVars, configVars
  <2>3. InFlightLines' = InFlightLines
    BY <1>3 DEF StopBegin, SignalNotEmpty, InFlightLines
  <2> QED
    BY <2>1, <2>2, <2>3 DEF Channel!Close, Channel!Next
<1>4. CASE StopDetach
  <2>1. Phase = "closing" /\ Phase' = "closed"
    BY <1>4 DEF StopDetach, Phase
  <2>2. PendingLines = <<>> /\ PendingLines' = <<>>
    BY <1>4, NothingPending DEF StopDetach, PendingLines
  <2>3. InFlightLines = <<>> /\ InFlightLines' = <<>>
    BY <1>4 DEF StopDetach, workerVars, InFlightLines
  <2>4. UNCHANGED <<capacity, overflow, fate>>
    BY <1>4 DEF StopDetach, configVars
  <2> QED
    BY <2>1, <2>2, <2>3, <2>4 DEF Channel!Closed, Channel!Next
<1>5. ASSUME NEW t \in Thread, ForkChild(t)
      PROVE  [Channel!Next]_(Channel!vars)
  <2>1. /\ Phase # "closing"
        /\ Phase' = Phase \/ (ThreadMayFail /\ Phase' = "closed")
    <3>1. /\ ctl = "idle" /\ ~stop'
          /\ running' = running \/ (ThreadMayFail /\ ~running')
      BY <1>5 DEF ForkChild
    <3>2. ctl = "joining" <=> running /\ stop
      BY DEF PhasesAgree
    <3>3. ~(running /\ stop)
      BY <3>1, <3>2
    <3>4. Phase # "closing"
      BY <3>3 DEF Phase
    <3>5. CASE running' = running
      BY <3>1, <3>3, <3>5 DEF Phase
    <3>6. CASE ThreadMayFail /\ ~running'
      BY <3>4, <3>6 DEF Phase
    <3> QED
      BY <3>1, <3>4, <3>5, <3>6
  <2>2. PendingLines' = <<>>
    BY <1>5 DEF ForkChild, EmptyRing, PendingLines
  <2>3. InFlightLines' = <<>>
    BY <1>5 DEF ForkChild, InFlightLines
  <2>4. /\ UNCHANGED <<capacity, overflow>>
        /\ fate' = [l \in Line |-> IF fate[l] \in {"queued", "calling"}
                                   THEN "parent" ELSE fate[l]]
    BY <1>5 DEF ForkChild, configVars
  <2> QED
    BY <2>1, <2>2, <2>3, <2>4 DEF Channel!Fork, Channel!Next
<1> QED
  BY <1>1, <1>2, <1>3, <1>4, <1>5

\* Every step of the engine is a step of the channel or none that it sees.
LEMMA ChannelStep == EngineInv /\ [Next]_vars => [Channel!Next]_(Channel!vars)
<1> SUFFICES ASSUME EngineInv, [Next]_vars
             PROVE  [Channel!Next]_(Channel!vars)
  OBVIOUS
<1>1. ASSUME NEW t \in Thread, Submit(t) \/ Enqueue(t) \/ ForkChild(t)
      PROVE  [Channel!Next]_(Channel!vars)
  BY <1>1, ChannelEnqueue, ChannelControl
<1>2. ASSUME NEW t \in Thread, SpuriousWakeup(t) \/ FlushBegin(t) \/ FlushReturn(t)
      PROVE  [Channel!Next]_(Channel!vars)
  BY <1>2, ChannelStutter
<1>3. CASE Worker
  BY <1>3, ChannelStutter, ChannelWorker DEF Worker
<1>4. CASE Control
  <2>1. CASE StartThread
    BY <2>1, ChannelStutter
  <2>2. CASE Control /\ ~StartThread
    BY <2>2, ChannelControl DEF Control
  <2> QED
    BY <1>4, <2>1, <2>2
<1>5. CASE Terminated \/ UNCHANGED vars
  BY <1>5, ChannelStutter
<1> QED
  BY <1>1, <1>2, <1>3, <1>4, <1>5 DEF Next

\* The engine implements a bounded FIFO channel: lines leave in the order
\* they were accepted, nothing is accepted once a stop has begun, the ring
\* closes empty, and only a lossy policy or a failure loses a line
\* (hx_async_enqueue, worker_main, hx_async_start, hx_async_stop and
\* hx_async_after_fork_child).
THEOREM EngineIsBoundedChannel == Spec => IsBoundedChannel
BY ChannelInit, ChannelStep, EngineInvariant, PTL DEF Spec, IsBoundedChannel, Channel!Spec

-----------------------------------------------------------------------------
(***************************************************************************)
(* What waits in the engine, and how a step changes it.                    *)
(***************************************************************************)

\* The pending lines are those of the ring, all queued; a queued line is
\* pending or in flight.
LEMMA PendingAreQueued ==
    ASSUME EngineInv
    PROVE  /\ PendingLines \in Seq(Line)
           /\ InFlightLines \in Seq(Line)
           /\ InFlightLines = <<>>
                 \/ (Len(InFlightLines) = 1 /\ wpc = "emit" /\ InFlightLines[1] = scratch)
           /\ \A k \in 1..Len(PendingLines) : fate[PendingLines[k]] = "queued"
           /\ \A k \in 1..Len(InFlightLines) : fate[InFlightLines[k]] = "queued"
           /\ \A l \in Line : fate[l] = "queued"
                 => \/ \E k \in 1..Len(PendingLines) : l = PendingLines[k]
                    \/ \E k \in 1..Len(InFlightLines) : l = InFlightLines[k]
           /\ InRing = {PendingLines[k] : k \in 1..Len(PendingLines)}
<1> USE DEF EngineInv
<1>1. /\ PendingLines \in Seq(Line)
      /\ InRing = {PendingLines[k] : k \in 1..Len(PendingLines)}
  <2>1. CASE slots = NoSlots \/ count = 0
    <3>1. PendingLines = <<>> /\ InRing = {}
      BY <2>1, NothingPending, EmptyContent
    <3>2. Len(PendingLines) = 0 /\ 1..0 = {}
      BY <3>1
    <3> QED
      BY <3>1, <3>2
  <2>2. CASE slots # NoSlots /\ count # 0
    <3>1. count \in Nat /\ count > 0
      BY <2>2 DEF TypeOK, RingTypeOK
    <3>2. PendingLines = [k \in 1..count |-> Queued(k - 1)]
      BY <2>2 DEF PendingLines
    <3>3. /\ \A k \in 1..count : k - 1 \in 0..count - 1
          /\ \A k \in 0..count - 1 : k + 1 \in 1..count /\ (k + 1) - 1 = k
      BY <3>1
    <3>4. \A k \in 1..count : Queued(k - 1) \in InRing
      BY <2>2, <3>3 DEF InRing
    <3>5. InRing \subseteq Line
      BY DEF NothingLost, WithFate
    <3>6. PendingLines \in Seq(Line) /\ Len(PendingLines) = count
          /\ \A k \in 1..count : PendingLines[k] = Queued(k - 1)
      BY <3>1, <3>2, <3>4, <3>5
    <3>7. ASSUME NEW l \in InRing PROVE \E k \in 1..count : l = PendingLines[k]
      <4>1. PICK k \in 0..count - 1 : l = Queued(k)
        BY <2>2 DEF InRing
      <4>2. k + 1 \in 1..count /\ PendingLines[k + 1] = Queued(k)
        BY <3>3, <3>6
      <4> QED
        BY <4>1, <4>2
    <3> QED
      BY <3>4, <3>6, <3>7
  <2> QED
    BY <2>1, <2>2
<1>2. /\ InFlightLines \in Seq(Line)
      /\ InFlight = {InFlightLines[k] : k \in 1..Len(InFlightLines)}
      /\ InFlightLines = <<>>
            \/ (Len(InFlightLines) = 1 /\ wpc = "emit" /\ InFlightLines[1] = scratch)
  <2>1. InFlight \subseteq Line
    BY DEF NothingLost, WithFate
  <2>2. CASE wpc = "emit"
    BY <2>1, <2>2 DEF InFlight, InFlightLines
  <2>3. CASE wpc # "emit"
    BY <2>3 DEF InFlight, InFlightLines
  <2> QED
    BY <2>2, <2>3
<1>3. /\ \A l \in InRing \cup InFlight : fate[l] = "queued"
      /\ \A l \in Line : fate[l] = "queued" => l \in InRing \cup InFlight
  BY DEF NothingLost, WithFate
<1> QED
  BY <1>1, <1>2, <1>3

\* A line that is pending after a step was pending before it, or a call held it.
LEMMA PendingGrows ==
    ASSUME EngineInv, [Next]_vars
    PROVE  \A k \in 1..Len(PendingLines') :
              \/ fate[PendingLines'[k]] = "calling"
              \/ \E j \in 1..Len(PendingLines) : PendingLines'[k] = PendingLines[j]
<1> DEFINE p == PendingLines
           q == PendingLines'
           Grown == \A k \in 1..Len(q) : \/ fate[q[k]] = "calling"
                                         \/ \E j \in 1..Len(p) : q[k] = p[j]
<1> SUFFICES Grown
  OBVIOUS
<1>1. p \in Seq(Line) /\ (InFlightLines = <<>> \/ Len(InFlightLines) = 1)
  BY PendingAreQueued
<1>2. [Channel!Next]_(Channel!vars)
  BY ChannelStep
<1> HIDE DEF p, q
<1>3. CASE q = p
  BY <1>3
<1>4. CASE q = <<>>
  <2>1. Len(q) = 0 /\ 1..0 = {}
    BY <1>4
  <2> QED
    BY <2>1
<1>5. CASE p # <<>> /\ q = Tail(p)
  <2>1. Len(q) = Len(p) - 1 /\ \A k \in 1..Len(q) : k + 1 \in 1..Len(p) /\ q[k] = p[k + 1]
    BY <1>1, <1>5
  <2> QED
    BY <2>1
<1>6. ASSUME NEW l \in Line, fate[l] = "calling", q = Append(p, l) PROVE Grown
  <2>1. Len(q) = Len(p) + 1 /\ q[Len(p) + 1] = l /\ \A k \in 1..Len(p) : q[k] = p[k]
    BY <1>1, <1>6
  <2>2. \A k \in 1..Len(p) + 1 : k = Len(p) + 1 \/ k \in 1..Len(p)
    BY <1>1
  <2> QED
    BY <1>6, <2>1, <2>2
<1>7. ASSUME NEW l \in Line, fate[l] = "calling", p # <<>>, q = Append(Tail(p), l)
      PROVE  Grown
  <2>1. /\ Len(q) = Len(p) /\ q[Len(p)] = l
        /\ \A k \in 1..Len(p) - 1 : k + 1 \in 1..Len(p) /\ q[k] = p[k + 1]
    BY <1>1, <1>7
  <2>2. \A k \in 1..Len(p) : k = Len(p) \/ k \in 1..Len(p) - 1
    BY <1>1
  <2> QED
    BY <1>7, <2>1, <2>2
<1>8. ASSUME NEW l \in Line, \/ Channel!Offer(l) \/ Channel!Refuse(l)
                               \/ Channel!Accept(l) \/ Channel!DropNewest(l)
      PROVE  Grown
  BY <1>3, <1>6, <1>8 DEF p, q, Channel!Offer, Channel!Refuse, Channel!Accept,
     Channel!DropNewest
<1>9. ASSUME NEW l \in Line, Channel!DropOldest(l) PROVE Grown
  <2>1. Len(p) = capacity /\ running
    BY <1>9 DEF p, Channel!DropOldest, Phase
  <2>2. capacity \in Nat \ {0}
    BY <2>1, EngineRing DEF RingTyped
  <2>3. p # <<>>
    BY <2>1, <2>2
  <2> QED
    BY <1>5, <1>7, <1>9, <2>3 DEF p, q, Channel!DropOldest
<1>10. CASE Channel!Take \/ Channel!Skip \/ Channel!Deliver
  BY <1>3, <1>5, <1>10 DEF p, q, Channel!Take, Channel!Skip, Channel!Deliver
<1>11. CASE Channel!Open \/ Channel!Close \/ Channel!Closed \/ Channel!Abandon
            \/ Channel!Fork \/ UNCHANGED Channel!vars
  BY <1>3, <1>4, <1>11 DEF p, q, Channel!Open, Channel!Close, Channel!Closed,
     Channel!Abandon, Channel!Fork, Channel!vars
<1> QED
  BY <1>2, <1>8, <1>9, <1>10, <1>11 DEF Channel!Next
-----------------------------------------------------------------------------
(***************************************************************************)
(* The order of the lines of one thread.                                   *)
(***************************************************************************)

\* A line that a call holds is the last one its thread logged.
HeldIsLatest ==
    \A t \in Thread : \A n \in 1..MaxLines :
        fate[<<t, n>>] = "calling"
           => n = sent[t] /\ call[t] \in {"enq", "blocked", "woken"}

\* l does not come after m if both are lines of one thread.
InOrder(l, m) == l[1] = m[1] => l[2] < m[2]

\* The lines that wait are in the order their threads logged them, the one in
\* flight first.
WaitInOrder ==
    /\ \A j, k \in 1..Len(PendingLines) :
          j < k => InOrder(PendingLines[j], PendingLines[k])
    /\ \A i \in 1..Len(InFlightLines) : \A k \in 1..Len(PendingLines) :
          InOrder(InFlightLines[i], PendingLines[k])

OrderInv == HeldIsLatest /\ WaitInOrder /\ ThreadOrder

\* A step after which each line a call holds was held by the same call before.
LEMMA HeldKeep ==
    ASSUME HeldIsLatest, sent' = sent,
           \A t \in Thread : \A n \in 1..MaxLines : fate'[<<t, n>>] = "calling"
              => /\ fate[<<t, n>>] = "calling"
                 /\ call'[t] \in {"enq", "blocked", "woken"}
    PROVE  HeldIsLatest'
BY DEF HeldIsLatest

\* Every step leaves the line of a call the last one its thread logged.
LEMMA HeldStep ==
    ASSUME EngineInv, HeldIsLatest, [Next]_vars
    PROVE  HeldIsLatest'
<1> USE DEF EngineInv
<1>1. /\ fate \in [Line -> Fates] /\ call \in [Thread -> CallStates]
      /\ \A t \in Thread : \A n \in 1..MaxLines : <<t, n>> \in Line
  BY LineOf DEF TypeOK, HistoryTypeOK, CallTypeOK
<1>2. ASSUME NEW t \in Thread, Submit(t) PROVE HeldIsLatest'
  <2>1. sent[t] + 1 \in 1..MaxLines /\ sent \in [Thread -> 0..MaxLines]
    BY <1>2, MaxLinesAssumption DEF Submit, TypeOK, CallTypeOK
  <2>2. /\ sent' = [sent EXCEPT ![t] = sent[t] + 1]
        /\ call' = [call EXCEPT ![t] = "enq"] /\ call[t] = "idle"
        /\ fate' = [fate EXCEPT ![<<t, sent[t] + 1>>] = "calling"]
    BY <1>2 DEF Submit
  <2> SUFFICES ASSUME NEW u \in Thread, NEW n \in 1..MaxLines,
                      fate'[<<u, n>>] = "calling"
               PROVE  n = sent'[u] /\ call'[u] \in {"enq", "blocked", "woken"}
    BY DEF HeldIsLatest
  <2>3. CASE <<u, n>> = <<t, sent[t] + 1>>
    BY <1>1, <2>1, <2>2, <2>3
  <2>4. CASE <<u, n>> # <<t, sent[t] + 1>>
    <3>1. fate[<<u, n>>] = "calling"
      BY <1>1, <2>2, <2>4
    <3>2. n = sent[u] /\ call[u] \in {"enq", "blocked", "woken"} /\ u # t
      BY <2>2, <3>1 DEF HeldIsLatest
    <3> QED
      BY <1>1, <2>1, <2>2, <3>2
  <2> QED
    BY <2>3, <2>4
<1>3. ASSUME NEW t \in Thread,
             EnqueueRefuse(t) \/ EnqueueDropNew(t) \/ EnqueuePush(t)
             \/ EnqueueNoMemory(t)
      PROVE  HeldIsLatest'
  <2>1. PICK f \in Fates \ {"calling"} : fate' = [fate EXCEPT ![cur(t)] = f]
    BY <1>3 DEF EnqueueRefuse, EnqueueDropNew, EnqueuePush, EnqueueNoMemory, Fates
  <2>2. /\ call' = [call EXCEPT ![t] = "idle"] /\ sent' = sent
        /\ cur(t) \in Line
    BY <1>3, HeldLine DEF EnqueueRefuse, EnqueueDropNew, EnqueuePush,
       EnqueueNoMemory, HasRoom, Return
  <2> QED
    BY <1>1, <2>1, <2>2, HeldKeep DEF HeldIsLatest, cur
<1>4. ASSUME NEW t \in Thread, EnqueueDropOld(t) \/ EnqueueDropOldNoMemory(t)
      PROVE  HeldIsLatest'
  <2>1. PICK f \in Fates \ {"calling"} :
           fate' = [fate EXCEPT ![Oldest] = "dropped", ![cur(t)] = f]
    BY <1>4 DEF EnqueueDropOld, EnqueueDropOldNoMemory, Fates
  <2>2. /\ call' = [call EXCEPT ![t] = "idle"] /\ sent' = sent
        /\ cur(t) \in Line
    BY <1>4, HeldLine DEF EnqueueDropOld, EnqueueDropOldNoMemory, Return
  <2> QED
    BY <1>1, <2>1, <2>2, HeldKeep DEF HeldIsLatest, cur
<1>5. ASSUME NEW t \in Thread,
             EnqueueBlock(t) \/ SpuriousWakeup(t) \/ FlushBegin(t) \/ FlushReturn(t)
      PROVE  HeldIsLatest'
  BY <1>1, <1>5, HeldKeep
  DEF EnqueueBlock, SpuriousWakeup, FlushBegin, AsyncFlush, FlushReturn, HeldIsLatest
<1>6. ASSUME NEW t \in Thread, ForkChild(t) PROVE HeldIsLatest'
  BY <1>1, <1>6, HeldKeep DEF ForkChild
<1>7. CASE Worker
  <2>1. /\ sent' = sent
        /\ \A t \in Thread : call[t] \in {"enq", "blocked", "woken"}
              => call'[t] \in {"enq", "blocked", "woken"}
    BY <1>1, <1>7 DEF Worker, WorkerLoop, WorkerTick, WorkerSync, WorkerTake,
       WorkerSkip, WorkerEmit, WorkerRelock, WorkerBatchEnd, SignalNotFull,
       Blocked, callVars
  <2>2. \/ fate' = fate
        \/ \E l \in {Oldest, scratch}, f \in {"dropped", "emitted"} :
              fate' = [fate EXCEPT ![l] = f]
    BY <1>7 DEF Worker, WorkerLoop, WorkerTick, WorkerSync, WorkerTake,
       WorkerSkip, WorkerEmit, WorkerRelock, WorkerBatchEnd
  <2> QED
    BY <1>1, <2>1, <2>2, HeldKeep DEF HeldIsLatest
<1>8. CASE Control
  <2>1. /\ sent' = sent
        /\ \A t \in Thread : call[t] \in {"enq", "blocked", "woken"}
              => call'[t] \in {"enq", "blocked", "woken"}
    BY <1>1, <1>8 DEF Control, StartBegin, AsyncStart, StartThread, StartFail,
       StopBegin, BroadcastNotFull, StopDetach, callVars
  <2>2. \A l \in Line : fate'[l] = "calling" => fate[l] = "calling"
    BY <1>8 DEF Control, StartBegin, AsyncStart, StartThread, StartFail,
       StopBegin, StopDetach
  <2> QED
    BY <1>1, <2>1, <2>2, HeldKeep DEF HeldIsLatest
<1>9. CASE Terminated \/ UNCHANGED vars
  BY <1>9 DEF Terminated, vars, callVars, HeldIsLatest
<1> QED
  BY <1>2, <1>3, <1>4, <1>5, <1>6, <1>7, <1>8, <1>9 DEF Next, Enqueue

\* The line of a call comes after every accepted line of its thread.
LEMMA HeldComesLast ==
    ASSUME EngineInv, HeldIsLatest, NEW l \in Line, NEW m \in Line,
           fate[l] = "calling", fate[m] \notin {"new", "calling"}
    PROVE  InOrder(m, l)
<1> SUFFICES ASSUME l[1] = m[1] PROVE m[2] < l[2]
  BY DEF InOrder
<1>1. /\ l[1] \in Thread /\ l[2] \in 1..MaxLines /\ l = <<l[1], l[2]>>
      /\ m[2] \in 1..MaxLines /\ m = <<l[1], m[2]>>
  BY DEF Line
<1>2. l[2] = sent[l[1]]
  BY <1>1 DEF HeldIsLatest
<1>3. ~(m[2] > sent[l[1]])
  BY <1>1 DEF EngineInv, ThreadsAgree, CallsHoldLines
<1>4. m[2] # l[2]
  BY <1>1
<1> QED
  BY <1>1, <1>2, <1>3, <1>4, MaxLinesAssumption

\* A step that delivers no line and queues only lines that calls held.
LEMMA ThreadOrderKeep ==
    ASSUME EngineInv, HeldIsLatest, ThreadOrder,
           \A l \in Line : /\ fate'[l] = "emitted" => fate[l] = "emitted"
                           /\ fate'[l] = "queued" => fate[l] \in {"queued", "calling"}
    PROVE  ThreadOrder'
<1> SUFFICES ASSUME NEW t \in Thread, NEW m \in 1..MaxLines, NEW n \in 1..MaxLines,
                    m < n, fate'[<<t, n>>] = "emitted", fate'[<<t, m>>] = "queued"
             PROVE  FALSE
  BY DEF ThreadOrder
<1>1. <<t, m>> \in Line /\ <<t, n>> \in Line /\ fate[<<t, n>>] = "emitted"
  BY LineOf
<1>2. CASE fate[<<t, m>>] = "queued"
  BY <1>1, <1>2 DEF ThreadOrder
<1>3. CASE fate[<<t, m>>] = "calling"
  <2>1. InOrder(<<t, n>>, <<t, m>>)
    BY <1>1, <1>3, HeldComesLast
  <2> QED
    BY <2>1 DEF InOrder
<1> QED
  BY <1>1, <1>2, <1>3

\* Every step keeps the waiting and the delivered lines in order.
LEMMA OrderStep ==
    ASSUME EngineInv, OrderInv, [Next]_vars
    PROVE  OrderInv'
<1> USE DEF OrderInv
<1> DEFINE p == PendingLines
           q == PendingLines'
           i == InFlightLines
           j == InFlightLines'
           Sorted(s)   == \A a, b \in 1..Len(s) : a < b => InOrder(s[a], s[b])
           First(r, s) == \A a \in 1..Len(r), b \in 1..Len(s) : InOrder(r[a], s[b])
<1>1. /\ p \in Seq(Line) /\ (i = <<>> \/ Len(i) = 1)
      /\ \A k \in 1..Len(p) : fate[p[k]] = "queued"
      /\ \A k \in 1..Len(i) : i[k] \in Line /\ fate[i[k]] = "queued"
      /\ \A l \in Line : fate[l] = "queued"
            => (\E k \in 1..Len(p) : l = p[k]) \/ (\E k \in 1..Len(i) : l = i[k])
      /\ fate \in [Line -> Fates]
  BY PendingAreQueued DEF EngineInv, TypeOK, HistoryTypeOK
<1>2. Sorted(p) /\ First(i, p)
  BY DEF WaitInOrder
<1>3. [Channel!Next]_(Channel!vars) /\ HeldIsLatest'
  BY ChannelStep, HeldStep
<1> SUFFICES (Sorted(q) /\ First(j, q)) /\ ThreadOrder'
  BY <1>3 DEF WaitInOrder
<1> HIDE DEF p, q, i, j
<1>4. ASSUME q = p, j = i \/ j = <<>> PROVE Sorted(q) /\ First(j, q)
  BY <1>2, <1>4
<1>5. ASSUME q = <<>> PROVE Sorted(q) /\ First(j, q)
  BY <1>5
<1>6. ASSUME NEW l \in Line, fate[l] = "calling", q = Append(p, l), j = i
      PROVE  Sorted(q) /\ First(j, q)
  <2>1. /\ Len(q) = Len(p) + 1 /\ q[Len(p) + 1] = l
        /\ \A k \in 1..Len(p) : q[k] = p[k]
        /\ \A k \in 1..Len(q) : k = Len(p) + 1 \/ k \in 1..Len(p)
        /\ Len(p) \in Nat
    BY <1>1, <1>6
  <2>2. \A k \in 1..Len(p) : InOrder(p[k], l)
    BY <1>1, <1>6, HeldComesLast
  <2>3. \A k \in 1..Len(i) : InOrder(i[k], l)
    BY <1>1, <1>6, HeldComesLast
  <2>4. ASSUME NEW a \in 1..Len(q), NEW b \in 1..Len(q), a < b
        PROVE  InOrder(q[a], q[b])
    <3>1. a \in 1..Len(p)
      BY <2>1, <2>4
    <3> QED
      BY <1>2, <2>1, <2>2, <2>4, <3>1
  <2>5. ASSUME NEW a \in 1..Len(j), NEW b \in 1..Len(q)
        PROVE  InOrder(j[a], q[b])
    BY <1>2, <1>6, <2>1, <2>3
  <2> QED
    BY <2>4, <2>5
<1>7. ASSUME p # <<>>, q = Tail(p), j = i \/ j = <<Head(p)>>
      PROVE  Sorted(q) /\ First(j, q)
  <2>1. /\ Len(q) = Len(p) - 1 /\ 1 \in 1..Len(p) /\ Head(p) = p[1]
        /\ \A k \in 1..Len(q) : k + 1 \in 1..Len(p) /\ q[k] = p[k + 1] /\ 1 < k + 1
        /\ \A a, b \in 1..Len(q) : a < b => a + 1 < b + 1
    BY <1>1, <1>7
  <2>2. Sorted(q)
    BY <1>2, <2>1
  <2>3. CASE j = i
    BY <1>2, <2>1, <2>3
  <2>4. CASE j = <<Head(p)>>
    BY <1>2, <2>1, <2>4
  <2> QED
    BY <1>7, <2>2, <2>3, <2>4
<1>8. ASSUME NEW l \in Line, fate[l] = "calling", p # <<>>,
             q = Append(Tail(p), l), j = i
      PROVE  Sorted(q) /\ First(j, q)
  <2>1. /\ Len(q) = Len(p) /\ q[Len(p)] = l
        /\ \A k \in 1..Len(p) - 1 : k + 1 \in 1..Len(p) /\ q[k] = p[k + 1]
        /\ \A k \in 1..Len(q) : k = Len(p) \/ k \in 1..Len(p) - 1
        /\ Len(p) \in Nat
    BY <1>1, <1>8
  <2>2. \A k \in 1..Len(p) : InOrder(p[k], l)
    BY <1>1, <1>8, HeldComesLast
  <2>3. \A k \in 1..Len(i) : InOrder(i[k], l)
    BY <1>1, <1>8, HeldComesLast
  <2>4. ASSUME NEW a \in 1..Len(q), NEW b \in 1..Len(q), a < b
        PROVE  InOrder(q[a], q[b])
    <3>1. a \in 1..Len(p) - 1 /\ a + 1 \in 1..Len(p) /\ a + 1 < b + 1
      BY <2>1, <2>4
    <3> QED
      BY <1>2, <2>1, <2>2, <2>4, <3>1
  <2>5. ASSUME NEW a \in 1..Len(j), NEW b \in 1..Len(q)
        PROVE  InOrder(j[a], q[b])
    BY <1>2, <1>8, <2>1, <2>3
  <2> QED
    BY <2>4, <2>5
<1> HIDE DEF Sorted, First
<1>9. ASSUME NEW l \in Line, \/ Channel!Offer(l) \/ Channel!Refuse(l)
                             \/ Channel!Accept(l) \/ Channel!DropNewest(l)
      PROVE  (Sorted(q) /\ First(j, q)) /\ ThreadOrder'
  <2>1. Sorted(q) /\ First(j, q)
    BY <1>4, <1>6, <1>9 DEF p, q, i, j, Channel!Offer, Channel!Refuse,
       Channel!Accept, Channel!DropNewest
  <2>2. \A m \in Line : /\ fate'[m] = "emitted" => fate[m] = "emitted"
                        /\ fate'[m] = "queued" => fate[m] \in {"queued", "calling"}
    BY <1>1, <1>9 DEF Channel!Offer, Channel!Refuse, Channel!Accept,
       Channel!DropNewest, Channel!Become
  <2> QED
    BY <2>1, <2>2, ThreadOrderKeep
<1>10. ASSUME NEW l \in Line, Channel!DropOldest(l)
       PROVE  (Sorted(q) /\ First(j, q)) /\ ThreadOrder'
  <2>1. Len(p) = capacity /\ running
    BY <1>10 DEF p, Channel!DropOldest, Phase
  <2>2. capacity \in Nat \ {0}
    BY <2>1, EngineRing DEF RingTyped
  <2>3. p # <<>> /\ Head(p) \in Line
    BY <1>1, <2>1, <2>2
  <2>4. Sorted(q) /\ First(j, q)
    BY <1>7, <1>8, <1>10, <2>3 DEF p, q, i, j, Channel!DropOldest
  <2>5. \A m \in Line : /\ fate'[m] = "emitted" => fate[m] = "emitted"
                        /\ fate'[m] = "queued" => fate[m] \in {"queued", "calling"}
    BY <1>1, <1>10, <2>3 DEF p, Channel!DropOldest
  <2> QED
    BY <2>4, <2>5, ThreadOrderKeep
<1>11. CASE Channel!Take \/ Channel!Skip
  <2>1. Sorted(q) /\ First(j, q) /\ p # <<>> /\ Head(p) \in Line
    BY <1>1, <1>7, <1>11 DEF p, q, i, j, Channel!Take, Channel!Skip
  <2>2. \A m \in Line : /\ fate'[m] = "emitted" => fate[m] = "emitted"
                        /\ fate'[m] = "queued" => fate[m] \in {"queued", "calling"}
    BY <1>1, <1>11, <2>1 DEF p, Channel!Take, Channel!Skip, Channel!Become
  <2> QED
    BY <2>1, <2>2, ThreadOrderKeep
<1>12. CASE Channel!Deliver
  <2>1. /\ q = p /\ j = <<>> /\ Len(i) = 1 /\ i[1] \in Line
        /\ fate' = [fate EXCEPT ![i[1]] = "emitted"]
    BY <1>1, <1>12 DEF p, q, i, j, Channel!Deliver, Channel!Become
  <2>2. Sorted(q) /\ First(j, q)
    BY <1>4, <2>1
  <2>3. ThreadOrder'
    <3> SUFFICES ASSUME NEW t \in Thread, NEW m \in 1..MaxLines,
                        NEW n \in 1..MaxLines, m < n,
                        fate'[<<t, n>>] = "emitted", fate'[<<t, m>>] = "queued"
                 PROVE  FALSE
      BY DEF ThreadOrder
    <3>1. /\ <<t, m>> \in Line /\ <<t, n>> \in Line
          /\ fate[<<t, m>>] = "queued" /\ <<t, m>> # i[1]
      BY <1>1, <2>1, LineOf
    <3>2. CASE <<t, n>> = i[1]
      <4>1. PICK k \in 1..Len(p) : <<t, m>> = p[k]
        BY <1>1, <2>1, <3>1
      <4>2. InOrder(<<t, n>>, <<t, m>>)
        BY <1>2, <2>1, <3>2, <4>1 DEF First
      <4> QED
        BY <4>2 DEF InOrder
    <3>3. CASE <<t, n>> # i[1]
      <4>1. fate[<<t, n>>] = "emitted"
        BY <1>1, <2>1, <3>1, <3>3
      <4> QED
        BY <3>1, <4>1 DEF ThreadOrder
    <3> QED
      BY <3>2, <3>3
  <2> QED
    BY <2>2, <2>3
<1>13. CASE Channel!Open \/ Channel!Close \/ Channel!Closed \/ Channel!Abandon
            \/ Channel!Fork \/ UNCHANGED Channel!vars
  <2>1. Sorted(q) /\ First(j, q)
    BY <1>4, <1>5, <1>13 DEF p, q, i, j, Channel!Open, Channel!Close,
       Channel!Closed, Channel!Abandon, Channel!Fork, Channel!vars
  <2>2. \A m \in Line : /\ fate'[m] = "emitted" => fate[m] = "emitted"
                        /\ fate'[m] = "queued" => fate[m] \in {"queued", "calling"}
    BY <1>1, <1>13 DEF Channel!Open, Channel!Close, Channel!Closed,
       Channel!Abandon, Channel!Fork, Channel!vars
  <2> QED
    BY <2>1, <2>2, ThreadOrderKeep
<1> QED
  BY <1>3, <1>9, <1>10, <1>11, <1>12, <1>13 DEF Channel!Next

\* Lines of one thread reach the sinks in the order it logged them, however
\* producers, worker, drops and restarts interleave (hx_async_enqueue,
\* worker_main).
THEOREM ThreadOrderHolds == Spec => []ThreadOrder
<1>1. Init => OrderInv
  <2> SUFFICES ASSUME Init PROVE OrderInv
    OBVIOUS
  <2>1. \A l \in Line : fate[l] = "new"
    BY DEF Init
  <2>2. PendingLines = <<>> /\ InFlightLines = <<>>
    BY DEF Init, PendingLines, InFlightLines
  <2> QED
    BY <2>1, <2>2, LineOf DEF OrderInv, HeldIsLatest, WaitInOrder, ThreadOrder
<1>2. EngineInv /\ OrderInv /\ [Next]_vars => OrderInv'
  BY OrderStep
<1>3. OrderInv => ThreadOrder
  BY DEF OrderInv
<1> QED
  BY <1>1, <1>2, <1>3, EngineInvariant, PTL DEF Spec

-----------------------------------------------------------------------------
(***************************************************************************)
(* The count of the lines that were dropped.                               *)
(***************************************************************************)

\* There are finitely many lines.
LEMMA LinesAreFinite == IsFiniteSet(Line) /\ \A f : IsFiniteSet(WithFate(f))
<1>1. IsFiniteSet(1..MaxLines)
  BY FS_Interval, MaxLinesAssumption
<1>2. IsFiniteSet(Line)
  BY <1>1, FS_Product, ThreadAssumption DEF Line
<1>3. \A f : WithFate(f) \in SUBSET Line
  BY DEF WithFate
<1> QED
  BY <1>2, <1>3, FS_Subset

\* A step that drops the one line l, and counts one.
LEMMA CountOne ==
    ASSUME DropsCounted, NEW l, l \notin WithFate("dropped"),
           WithFate("dropped")' = WithFate("dropped") \cup {l},
           dropped' = dropped + 1
    PROVE  DropsCounted'
<1>1. Cardinality(WithFate("dropped") \cup {l}) = Cardinality(WithFate("dropped")) + 1
  BY FS_AddElement, LinesAreFinite
<1> QED
  BY <1>1 DEF DropsCounted

\* A step that drops no line, and counts none.
LEMMA CountNone ==
    ASSUME DropsCounted, dropped' = dropped,
           \A l \in Line : fate'[l] = "dropped" <=> fate[l] = "dropped"
    PROVE  DropsCounted'
BY DEF DropsCounted, WithFate

\* Every step counts the lines it drops.
LEMMA CountStep ==
    ASSUME EngineInv, DropsCounted, [Next]_vars
    PROVE  DropsCounted'
<1> USE DEF EngineInv
<1>1. fate \in [Line -> Fates]
  BY DEF TypeOK, HistoryTypeOK
<1>2. \A t \in Thread : call[t] \in {"enq", "blocked", "woken"}
         => cur(t) \in Line /\ fate[cur(t)] = "calling"
  BY HeldLine
<1>3. ASSUME NEW t \in Thread, Submit(t) PROVE DropsCounted'
  <2>1. sent[t] \in 0..MaxLines /\ sent[t] + 1 \in 1..MaxLines
    BY <1>3, MaxLinesAssumption DEF Submit, TypeOK, CallTypeOK
  <2>2. <<t, sent[t] + 1>> \in Line /\ fate[<<t, sent[t] + 1>>] = "new"
    BY <2>1, LineOf DEF ThreadsAgree, CallsHoldLines
  <2> QED
    BY <1>1, <1>3, <2>2, CountNone DEF Submit, engineVars
<1>4. ASSUME NEW t \in Thread, EnqueueRefuse(t) \/ EnqueuePush(t)
      PROVE  DropsCounted'
  <2>1. /\ cur(t) \in Line /\ fate[cur(t)] = "calling" /\ dropped' = dropped
        /\ fate' \in {[fate EXCEPT ![cur(t)] = "refused"],
                      [fate EXCEPT ![cur(t)] = "queued"]}
    BY <1>2, <1>4 DEF EnqueueRefuse, EnqueuePush, HasRoom, engineVars
  <2> QED
    BY <1>1, <2>1, CountNone
<1>5. ASSUME NEW t \in Thread, EnqueueDropNew(t) \/ EnqueueNoMemory(t)
      PROVE  DropsCounted'
  <2>1. /\ cur(t) \in Line /\ fate[cur(t)] = "calling" /\ dropped' = dropped + 1
        /\ fate' = [fate EXCEPT ![cur(t)] = "dropped"]
    BY <1>2, <1>5 DEF EnqueueDropNew, EnqueueNoMemory, HasRoom, CountDrop
  <2>2. WithFate("dropped")' = WithFate("dropped") \cup {cur(t)}
        /\ cur(t) \notin WithFate("dropped")
    BY <1>1, <2>1 DEF WithFate
  <2> QED
    BY <2>1, <2>2, CountOne
<1>6. ASSUME NEW t \in Thread, EnqueueDropOld(t) \/ EnqueueDropOldNoMemory(t)
      PROVE  DropsCounted'
  <2>1. running /\ count > 0
    BY <1>6, EngineRing
    DEF EnqueueDropOld, EnqueueDropOldNoMemory, Full, RingTyped
  <2>2. /\ Oldest \in Line /\ fate[Oldest] = "queued"
        /\ cur(t) \in Line /\ fate[cur(t)] = "calling"
    BY <1>2, <1>6, <2>1, OldestQueued DEF EnqueueDropOld, EnqueueDropOldNoMemory
  <2>3. CASE EnqueueDropOld(t)
    <3>1. dropped' = dropped + 1 /\ Oldest # cur(t)
          /\ fate' = [fate EXCEPT ![Oldest] = "dropped", ![cur(t)] = "queued"]
      BY <2>2, <2>3 DEF EnqueueDropOld, CountDrop
    <3>2. WithFate("dropped")' = WithFate("dropped") \cup {Oldest}
          /\ Oldest \notin WithFate("dropped")
      BY <1>1, <2>2, <3>1 DEF WithFate
    <3> QED
      BY <3>1, <3>2, CountOne
  <2>4. CASE EnqueueDropOldNoMemory(t)
    <3>1. /\ dropped' = dropped + 2 /\ Oldest # cur(t)
          /\ fate' = [fate EXCEPT ![Oldest] = "dropped", ![cur(t)] = "dropped"]
      BY <2>2, <2>4 DEF EnqueueDropOldNoMemory, CountDrop
    <3> DEFINE D == WithFate("dropped")
    <3>2. D' = (D \cup {Oldest}) \cup {cur(t)}
          /\ Oldest \notin D /\ cur(t) \notin D \cup {Oldest}
      BY <1>1, <2>2, <3>1 DEF WithFate
    <3>3. IsFiniteSet(D)
      BY LinesAreFinite
    <3> HIDE DEF D
    <3>4. /\ IsFiniteSet(D \cup {Oldest})
          /\ Cardinality(D \cup {Oldest}) = Cardinality(D) + 1
      BY <3>2, <3>3, FS_AddElement
    <3>5. Cardinality((D \cup {Oldest}) \cup {cur(t)}) = Cardinality(D) + 1 + 1
      BY <3>2, <3>4, FS_AddElement
    <3>6. dropped = Cardinality(D) /\ dropped \in Nat
      BY DEF D, DropsCounted, TypeOK, RingTypeOK
    <3>7. dropped' = Cardinality(D')
      BY <3>1, <3>2, <3>5, <3>6
    <3> QED
      BY <3>7 DEF D, DropsCounted
  <2> QED
    BY <1>6, <2>3, <2>4
<1>7. ASSUME NEW t \in Thread,
             EnqueueBlock(t) \/ SpuriousWakeup(t) \/ FlushBegin(t) \/ FlushReturn(t)
      PROVE  DropsCounted'
  BY <1>7, CountNone DEF EnqueueBlock, SpuriousWakeup, FlushBegin, AsyncFlush,
     FlushReturn, engineVars
<1>8. ASSUME NEW t \in Thread, ForkChild(t) PROVE DropsCounted'
  BY <1>1, <1>8, CountNone DEF ForkChild
<1>9. CASE WorkerSkip
  <2>1. running /\ count > 0
    BY <1>9 DEF WorkerSkip, InBatch, ThreadsAgree, PhasesAgree
  <2>2. Oldest \in Line /\ fate[Oldest] = "queued"
    BY <2>1, OldestQueued
  <2>3. WithFate("dropped")' = WithFate("dropped") \cup {Oldest}
        /\ Oldest \notin WithFate("dropped")
    BY <1>1, <1>9, <2>2 DEF WorkerSkip, WithFate
  <2> QED
    BY <1>9, <2>3, CountOne DEF WorkerSkip, CountDrop
<1>10. CASE WorkerEmit
  <2>1. scratch \in Line /\ fate[scratch] = "queued"
    BY <1>10 DEF WorkerEmit, NothingLost, WithFate, InFlight
  <2> QED
    BY <1>1, <1>10, <2>1, CountNone DEF WorkerEmit, engineVars
<1>11. CASE Worker /\ ~WorkerSkip /\ ~WorkerEmit
  BY <1>11, CountNone DEF Worker, WorkerLoop, WorkerTick, WorkerSync, WorkerTake,
     WorkerRelock, WorkerBatchEnd, engineVars
<1>12. CASE StartBegin
  <2>1. dropped' = 0 /\ \A l \in Line : fate'[l] # "dropped"
    BY <1>12 DEF StartBegin, AsyncStart
  <2>2. WithFate("dropped")' = {}
    BY <2>1 DEF WithFate
  <2> QED
    BY <2>1, <2>2, FS_EmptySet DEF DropsCounted
<1>13. CASE StartFail
  <2>1. \A l \in InRing : fate[l] = "queued"
    BY DEF NothingLost, WithFate
  <2> QED
    BY <1>13, <2>1, CountNone DEF StartFail
<1>14. CASE StartThread \/ StopBegin \/ StopDetach \/ Terminated \/ UNCHANGED vars
  BY <1>14, CountNone DEF StartThread, StopBegin, StopDetach, Terminated, vars,
     engineVars
<1> QED
  BY <1>3, <1>4, <1>5, <1>6, <1>7, <1>8, <1>9, <1>10, <1>11, <1>12, <1>13, <1>14
  DEF Next, Enqueue, Control

\* g_async.dropped is the number of lines this engine lost since it started,
\* whichever of the five places that drop counted them and whatever the order
\* in which producers, worker and restarts reach them.
THEOREM DropsAreCounted == Spec => []DropsCounted
<1>1. Init => DropsCounted
  <2> SUFFICES ASSUME Init PROVE DropsCounted
    OBVIOUS
  <2>1. dropped = 0 /\ WithFate("dropped") = {}
    BY DEF Init, WithFate
  <2> QED
    BY <2>1, FS_EmptySet DEF DropsCounted
<1>2. EngineInv /\ DropsCounted /\ [Next]_vars => DropsCounted'
  BY CountStep
<1> QED
  BY <1>1, <1>2, EngineInvariant, PTL DEF Spec

-----------------------------------------------------------------------------
(***************************************************************************)
(* The flush call.                                                         *)
(***************************************************************************)

\* What a flush waits for has been accepted, and is out of the ring once the
\* flush request is served.
FlushInv ==
    \A t \in Thread :
       /\ \A l \in due[t] : fate[l] \notin {"new", "calling"}
       /\ call[t] = "fwait" /\ ~flush_request
             => \A k \in 1..Len(PendingLines) : PendingLines[k] \notin due[t]

\* A step that starts no flush, and serves a request only with nothing left.
LEMMA FlushKeep ==
    ASSUME EngineInv, FlushInv, [Next]_vars,
           \A t \in Thread : call'[t] = "fwait" => call[t] = "fwait",
           \A t \in Thread : due'[t] \in {due[t], {}},
           flush_request' = flush_request \/ PendingLines' = <<>>,
           \A l \in Line : fate'[l] \in {"new", "calling"}
                              => fate[l] \in {"new", "calling"}
    PROVE  FlushInv'
<1>1. \A t \in Thread : due[t] \in SUBSET Line
  BY DEF EngineInv, TypeOK, HistoryTypeOK
<1> SUFFICES ASSUME NEW t \in Thread
             PROVE  /\ \A l \in due'[t] : fate'[l] \notin {"new", "calling"}
                    /\ call'[t] = "fwait" /\ ~flush_request'
                          => \A k \in 1..Len(PendingLines') : PendingLines'[k] \notin due'[t]
  BY DEF FlushInv
<1>2. \A l \in due[t] : fate[l] \notin {"new", "calling"}
  BY DEF FlushInv
<1>3. \A l \in due'[t] : fate'[l] \notin {"new", "calling"}
  BY <1>1, <1>2
<1>4. ASSUME call'[t] = "fwait", ~flush_request', NEW k \in 1..Len(PendingLines')
      PROVE  PendingLines'[k] \notin due'[t]
  <2>1. CASE PendingLines' = <<>>
    BY <1>4, <2>1
  <2>2. CASE flush_request' = flush_request
    <3>1. \A j \in 1..Len(PendingLines) : PendingLines[j] \notin due[t]
      BY <1>4, <2>2 DEF FlushInv
    <3> QED
      BY <1>2, <1>4, <3>1, PendingGrows
  <2> QED
    BY <2>1, <2>2
<1> QED
  BY <1>3, <1>4

\* Every step keeps it.
LEMMA FlushStep ==
    ASSUME EngineInv, FlushInv, [Next]_vars
    PROVE  FlushInv'
<1> USE DEF EngineInv
<1>1. /\ fate \in [Line -> Fates] /\ call \in [Thread -> CallStates]
      /\ due \in [Thread -> SUBSET Line] /\ flush_request \in BOOLEAN
  BY DEF TypeOK, HistoryTypeOK, CallTypeOK, FlagTypeOK
<1>2. \A t \in Thread : call[t] \in {"enq", "blocked", "woken"}
         => cur(t) \in Line /\ fate[cur(t)] = "calling"
  BY HeldLine
<1>3. ASSUME NEW t \in Thread, FlushBegin(t) PROVE FlushInv'
  <2>1. InRing = {PendingLines[k] : k \in 1..Len(PendingLines)}
    BY PendingAreQueued
  <2>2. \A l \in InRing : fate[l] = "queued"
    BY DEF NothingLost, WithFate
  <2>3. CASE UNCHANGED <<flush_request, call, due>>
    BY <1>3, <2>3, FlushKeep DEF FlushBegin, AsyncFlush
  <2>4. CASE flush_request' = TRUE /\ due' = [due EXCEPT ![t] = InRing]
    <3>1. \A u \in Thread : \A l \in due'[u] : fate[l] \notin {"new", "calling"}
      BY <1>1, <2>2, <2>4 DEF FlushInv
    <3> QED
      BY <1>3, <2>4, <3>1 DEF FlushInv, FlushBegin, AsyncFlush
  <2> QED
    BY <1>3, <2>3, <2>4 DEF FlushBegin, AsyncFlush
<1>4. ASSUME NEW t \in Thread, Submit(t) PROVE FlushInv'
  <2>1. sent[t] \in 0..MaxLines /\ sent[t] + 1 \in 1..MaxLines
    BY <1>4, MaxLinesAssumption DEF Submit, TypeOK, CallTypeOK
  <2>2. <<t, sent[t] + 1>> \in Line /\ fate[<<t, sent[t] + 1>>] = "new"
    BY <2>1, LineOf DEF ThreadsAgree, CallsHoldLines
  <2> QED
    BY <1>1, <1>4, <2>2, FlushKeep DEF Submit, engineVars
<1>5. ASSUME NEW t \in Thread, Enqueue(t) PROVE FlushInv'
  <2>1. /\ due' = due /\ flush_request' = flush_request
        /\ \A u \in Thread : call'[u] = "fwait" => call[u] = "fwait"
    BY <1>1, <1>5 DEF Enqueue, EnqueueRefuse, EnqueueDropNew, EnqueueBlock,
       EnqueuePush, EnqueueDropOld, EnqueueNoMemory, EnqueueDropOldNoMemory,
       Return, engineVars
  <2>2. \/ fate' = fate
        \/ \E f \in Fates \ {"new", "calling"} :
              \/ fate' = [fate EXCEPT ![cur(t)] = f]
              \/ fate' = [fate EXCEPT ![Oldest] = "dropped", ![cur(t)] = f]
    BY <1>5 DEF Enqueue, EnqueueRefuse, EnqueueDropNew, EnqueueBlock,
       EnqueuePush, EnqueueDropOld, EnqueueNoMemory, EnqueueDropOldNoMemory, Fates
  <2>3. \A l \in Line : fate'[l] \in {"new", "calling"} => fate[l] \in {"new", "calling"}
    BY <1>1, <2>2
  <2> QED
    BY <2>1, <2>3, FlushKeep
<1>6. ASSUME NEW t \in Thread, SpuriousWakeup(t) \/ FlushReturn(t)
      PROVE  FlushInv'
  <2>1. /\ flush_request' = flush_request /\ fate' = fate
        /\ \A u \in Thread : due'[u] \in {due[u], {}}
        /\ \A u \in Thread : call'[u] = "fwait" => call[u] = "fwait"
    BY <1>1, <1>6 DEF SpuriousWakeup, FlushReturn, engineVars
  <2> QED
    BY <2>1, FlushKeep
<1>7. ASSUME NEW t \in Thread, ForkChild(t) PROVE FlushInv'
  BY <1>7 DEF ForkChild, FlushInv
<1>8. CASE Worker
  <2>1. /\ due' = due
        /\ \A u \in Thread : call'[u] = "fwait" => call[u] = "fwait"
    BY <1>1, <1>8 DEF Worker, WorkerLoop, WorkerTick, WorkerSync, WorkerTake,
       WorkerSkip, WorkerEmit, WorkerRelock, WorkerBatchEnd, SignalNotFull,
       Blocked, callVars
  <2>2. \A l \in Line : fate'[l] \in {"new", "calling"} => fate[l] \in {"new", "calling"}
    <3>1. \/ fate' = fate
          \/ \E l \in {Oldest, scratch}, f \in {"dropped", "emitted"} :
                fate' = [fate EXCEPT ![l] = f]
      BY <1>8 DEF Worker, WorkerLoop, WorkerTick, WorkerSync, WorkerTake,
         WorkerSkip, WorkerEmit, WorkerRelock, WorkerBatchEnd
    <3> QED
      BY <1>1, <3>1
  <2>3. flush_request' = flush_request \/ PendingLines' = <<>>
    <3>1. CASE WorkerSync \/ WorkerTake \/ WorkerSkip \/ WorkerEmit \/ WorkerRelock
      BY <3>1 DEF WorkerSync, WorkerTake, WorkerSkip, WorkerEmit, WorkerRelock, engineVars
    <3>2. CASE WorkerLoop \/ WorkerTick
      BY <3>2 DEF WorkerLoop, WorkerTick, WorkerProceed, RingEmpty, ringVars, PendingLines
    <3>3. CASE WorkerBatchEnd
      <4>1. CASE count = 0
        BY <3>3, <4>1 DEF WorkerBatchEnd, ringVars, PendingLines
      <4>2. CASE count # 0
        BY <1>1, <3>3, <4>2 DEF WorkerBatchEnd, FlushServed
      <4> QED
        BY <4>1, <4>2
    <3> QED
      BY <1>8, <3>1, <3>2, <3>3 DEF Worker
  <2> QED
    BY <2>1, <2>2, <2>3, FlushKeep
<1>9. CASE Control
  <2>1. /\ due' = due
        /\ \A u \in Thread : call'[u] = "fwait" => call[u] = "fwait"
    BY <1>1, <1>9 DEF Control, StartBegin, AsyncStart, StartThread, StartFail,
       StopBegin, BroadcastNotFull, StopDetach, callVars
  <2>2. \A l \in Line : fate'[l] \in {"new", "calling"} => fate[l] \in {"new", "calling"}
    BY <1>1, <1>9 DEF Control, StartBegin, AsyncStart, StartThread, StartFail,
       StopBegin, StopDetach
  <2>3. flush_request' = flush_request \/ PendingLines' = <<>>
    <3>1. CASE StartBegin
      BY <3>1 DEF StartBegin, AsyncStart, EmptyRing, PendingLines
    <3>2. CASE StartThread \/ StartFail \/ StopBegin \/ StopDetach
      BY <3>2 DEF StartThread, StartFail, StopBegin, StopDetach, engineVars
    <3> QED
      BY <1>9, <3>1, <3>2 DEF Control
  <2> QED
    BY <2>1, <2>2, <2>3, FlushKeep
<1>10. CASE Terminated \/ UNCHANGED vars
  BY <1>10, FlushKeep DEF Terminated, vars, callVars, engineVars
<1> QED
  BY <1>3, <1>4, <1>5, <1>6, <1>7, <1>8, <1>9, <1>10 DEF Next

\* When hx_async_flush returns and no stop (nor a fork) cut it short, every
\* line that was in the ring when it was called has left the ring, however
\* many other threads flush and log meanwhile.
THEOREM FlushHasDrained == Spec => FlushDrains
<1>1. Init => FlushInv
  BY DEF Init, FlushInv
<1>2. EngineInv /\ FlushInv /\ [Next]_vars => FlushInv'
  BY FlushStep
<1>3. EngineInv /\ FlushInv /\ [Next]_vars
        => [\A t \in Thread :
              call[t] = "fwait" /\ call'[t] = "idle" /\ running /\ ~stop
                                /\ used' = used
                 => due[t] \cap InRing = {}]_vars
  <2> SUFFICES ASSUME EngineInv, FlushInv, Next, NEW t \in Thread,
                      call[t] = "fwait", call'[t] = "idle", running, ~stop,
                      used' = used
               PROVE  due[t] \cap InRing = {}
    OBVIOUS
  <2>1. call \in [Thread -> CallStates] /\ used \in [{"start", "flush", "fork"} -> Nat]
    BY DEF EngineInv, TypeOK, CallTypeOK, HistoryTypeOK
  <2>2. FlushReturn(t)
    <3>1. \A u \in Thread : ~ForkChild(u)
      <4> SUFFICES ASSUME Spend("fork") PROVE FALSE
        BY DEF ForkChild
      <4>1. used["fork"] \in Nat
        BY <2>1
      <4>2. used'["fork"] = used["fork"] + 1
        BY <2>1 DEF Spend
      <4> QED
        BY <4>1, <4>2
    <3>2. ASSUME NEW u \in Thread, Submit(u) \/ Enqueue(u) \/ SpuriousWakeup(u)
                    \/ FlushBegin(u)
          PROVE  call'[t] # "idle"
      BY <2>1, <3>2 DEF Submit, Enqueue, EnqueueRefuse, EnqueueDropNew,
         EnqueueBlock, EnqueuePush, EnqueueDropOld, EnqueueNoMemory,
         EnqueueDropOldNoMemory, SpuriousWakeup, FlushBegin, AsyncFlush,
         HasRoom, Return
    <3>3. ASSUME NEW u \in Thread, FlushReturn(u) PROVE u = t
      BY <2>1, <3>3 DEF FlushReturn
    <3>4. ASSUME Worker PROVE call'[t] # "idle"
      BY <2>1, <3>4 DEF Worker, WorkerLoop, WorkerTick, WorkerSync, WorkerTake,
         WorkerSkip, WorkerEmit, WorkerRelock, WorkerBatchEnd, SignalNotFull,
         Blocked, callVars
    <3>5. ASSUME Control \/ Terminated PROVE call'[t] # "idle"
      BY <2>1, <3>5 DEF Control, StartBegin, AsyncStart, StartThread, StartFail,
         StopBegin, BroadcastNotFull, StopDetach, Terminated, vars, callVars
    <3> QED
      BY <3>1, <3>2, <3>3, <3>4, <3>5 DEF Next
  <2>3. CASE count = 0
    BY <2>3, EmptyContent
  <2>4. CASE ~flush_request
    BY <2>4, PendingAreQueued DEF FlushInv
  <2> QED
    BY <2>2, <2>3, <2>4 DEF FlushReturn
<1> QED
  BY <1>1, <1>2, <1>3, EngineInvariant, PTL DEF Spec, FlushDrains

=============================================================================
