---------------------------- MODULE HxCoreProofs ----------------------------
(***************************************************************************)
(* Proofs about the core (HxCore): the write path, the lifecycle and the   *)
(* engine between them.                                                    *)
(***************************************************************************)
EXTENDS HxCore, HxAsyncProofs

-----------------------------------------------------------------------------
(***************************************************************************)
(* The inductive invariant, in parts.                                      *)
(***************************************************************************)
Held  == {"enq", "blocked", "woken"}
Live  == running /\ ~stop /\ wpc \notin {"none", "exited"}
Unwritten(l) == \A s \in Sink : received[l][s] = 0

\* Only Admin runs the lifecycle, and it never logs; a start or a stop of the
\* engine is in progress exactly while Admin waits for it.
PcsAgree ==
    /\ pc[Admin] \in {"out"} \cup FlushPcs \cup AdminPcs
    /\ \A t \in Producer : pc[t] \notin AdminPcs
    /\ ctl = "starting" <=> pc[Admin] \in {"i_wait", "r_wait"}
    /\ ctl = "joining" <=> pc[Admin] \in {"r_join", "s_join"}

\* A thread is inside an engine call only where the core makes that call.
CallsAgree ==
    \A t \in Thread : /\ call[t] \in Held => pc[t] = "engine"
                      /\ call[t] = "fwait" => pc[t] = "fengine"

\* The lifecycle steps before the library is initialized or after it is down,
\* and those of a reconfigure that has withdrawn the asynchronous mode.
Downs == {"i_sinks", "i_start", "i_wait", "i_publish", "s_stop", "s_join", "s_close"}
Swaps == {"r_stop", "r_join", "r_swap", "r_start", "r_wait", "r_publish"}

\* The lifecycle knows at each step whether the library is initialized, which
\* mode is published and whether the engine is live.
LifecycleAgrees ==
    /\ PublishedModeHasEngine
    /\ pc[Admin] \in Downs => ~initialized
    /\ pc[Admin] \in FlushPcs \cup {"r_mode"} \cup Swaps => initialized
    /\ pc[Admin] = "i_sinks" => mode = want
    /\ pc[Admin] \in {"i_start", "i_wait"} => mode = "ASYNC"
    /\ pc[Admin] \in Swaps => mode = "SYNC"
    /\ pc[Admin] = "i_publish" /\ mode = "ASYNC" => Live
    /\ pc[Admin] = "r_publish" => Live

\* The engine is down where the lifecycle replaces the sinks or starts it.
EngineDown ==
    /\ pc[Admin] \in {"i_sinks", "i_start", "r_swap", "r_start", "s_close"} => ~running
    /\ pc[Admin] \in {"out", "r_mode", "i_publish"} \cup FlushPcs
          /\ mode = "SYNC" => ~running
    /\ pc[Admin] = "out" /\ ~initialized => ~running

\* A running engine, and an initialized library, have a sink to write to.
SinksOpen ==
    running \/ initialized \/ pc[Admin] \in {"i_start", "i_publish"} => sinks # {}

\* t has a line that no sink has yet and that only t can still write or queue.
Writing(t) == \/ pc[t] \in {"checked", "direct"}
              \/ pc[t] = "engine" /\ (call[t] # "idle" \/ FallsBack(t))

\* What the threads know of the lines they are logging.
LinesAgree ==
    /\ \A l \in Line : fate[l] \in {"new", "queued"} => Unwritten(l)
    /\ \A t \in Thread :
         /\ pc[t] \in WritePcs => sent[t] > 0
         /\ Writing(t) => Unwritten(cur(t)) /\ fate[cur(t)] \in {"calling", "refused"}
         /\ pc[t] = "checked" => fate[cur(t)] = "calling"
         /\ pc[t] = "engine" /\ ~Writing(t)
               => fate[cur(t)] \notin {"new", "calling", "refused"}

Delivered == NoDoubleDelivery /\ DrainReachesSinks

CoreInv == /\ EngineInv /\ CoreTypeOK /\ PcsAgree /\ CallsAgree
           /\ LifecycleAgrees /\ EngineDown /\ SinksOpen /\ LinesAgree
           /\ Delivered

-----------------------------------------------------------------------------
(***************************************************************************)
(* The engine's invariant under the steps of the core that are not steps   *)
(* of the engine alone.                                                    *)
(***************************************************************************)

\* hx_async_start, called by init or reconfigure.
LEMMA CoreStartKeeps ==
    ASSUME EngineInv, AsyncStart, UNCHANGED used
    PROVE  EngineInv'
<1> USE DEF EngineInv, AsyncStart, ThreadsAgree, TypeOK
<1>1. RingTypeOK' /\ RingConsistent'
  <2>1. PICK c \in Configs :
               /\ slots' = [i \in 0..c.capacity - 1 |-> NoLine]
               /\ capacity' = c.capacity
               /\ batch_size' = c.batch
               /\ overflow' = c.overflow
    OBVIOUS
  <2>2. capacity' \in Nat \ {0} /\ batch_size' \in Nat /\ overflow' \in Policies
    BY <2>1, ConfigsAssumption
  <2>3. /\ slots' \in [0..capacity' - 1 -> Line \cup {NoLine}]
        /\ slots' # NoSlots
    BY <2>1, <2>2 DEF NoSlots
  <2>4. /\ head' = 0 /\ tail' = 0 /\ count' = 0
        /\ dropped' = 0 /\ high_watermark' = 0
    BY DEF EmptyRing
  <2>5. (head' + count') % capacity' = 0 /\ head' \in 0..capacity' - 1
    BY <2>2, <2>4, ZeroIndex
  <2>6. RingTypeOK'
    BY <2>2, <2>3, <2>4 DEF RingTypeOK
  <2>7. count' <= high_watermark' /\ high_watermark' <= capacity'
    BY <2>2, <2>4
  <2>8. tail' = (head' + count') % capacity'
    BY <2>4, <2>5
  <2> QED
    BY <2>3, <2>5, <2>6, <2>7, <2>8 DEF RingConsistent
<1>2. FlagTypeOK'
  BY DEF FlagTypeOK, workerVars
<1>3. WorkerTypeOK' /\ CallTypeOK'
  BY DEF WorkerTypeOK, CallTypeOK, workerVars, callVars
<1>4. HistoryTypeOK'
  BY DEF HistoryTypeOK, Fates
<1>5. PhasesAgree'
  BY DEF PhasesAgree, FlagTypeOK, WorkerTypeOK, EmptyRing, workerVars
<1>6. CallsHoldLines'
  <2>1. \A t \in Thread : call[t] \in {"enq", "blocked", "woken"}
           => cur(t) \in Line /\ fate[cur(t)] = "calling"
    BY CurIsLine DEF CallsHoldLines
  <2> QED
    BY <2>1, CallsKeep DEF callVars
<1>7. NothingLost'
  <2>1. InRing = {} /\ InFlight = {}
    BY EmptyContent DEF PhasesAgree, InFlight
  <2>2. \A l \in Line : fate'[l] # "queued"
    BY <2>1 DEF NothingLost, WithFate
  <2>3. InFlight' = {}
    BY <2>1 DEF workerVars, InFlight
  <2> QED
    BY <2>2, <2>3, LinesGone DEF EmptyRing
<1> QED
  BY <1>1, <1>2, <1>3, <1>4, <1>5, <1>6, <1>7

\* hx_async_flush, called by hx_clog_flush.
LEMMA CoreFlushKeeps ==
    ASSUME EngineInv, NEW t \in Thread, AsyncFlush(t), UNCHANGED used
    PROVE  EngineInv'
<1> USE DEF EngineInv, AsyncFlush, ThreadsAgree, TypeOK, ringVars, configVars
<1>1. RingTypeOK' /\ RingConsistent'
  BY DEF RingTypeOK, RingConsistent
<1>2. FlagTypeOK'
  BY DEF FlagTypeOK
<1>3. WorkerTypeOK' /\ CallTypeOK'
  BY DEF WorkerTypeOK, CallTypeOK, SignalNotEmpty, CallStates
<1>4. HistoryTypeOK'
  <2>1. InRing \subseteq Line
    BY DEF NothingLost, WithFate
  <2> QED
    BY <2>1 DEF HistoryTypeOK
<1>5. PhasesAgree'
  BY DEF PhasesAgree, SignalNotEmpty
<1>6. CallsHoldLines'
  BY CallsKeep DEF CallTypeOK
<1>7. NothingLost'
  <2>1. InFlight' = InFlight
    BY DEF SignalNotEmpty, InFlight
  <2> QED
    BY <2>1, LinesKeep
<1> QED
  BY <1>1, <1>2, <1>3, <1>4, <1>5, <1>6, <1>7

\* The write path takes a new line, before or after its call of the engine.
LEMMA CoreWriteKeeps ==
    ASSUME CoreInv, NEW t \in Thread, WriteBegin(t) \/ WriteReadMode(t)
    PROVE  EngineInv'
<1> USE DEF CoreInv, EngineInv, ThreadsAgree, TypeOK, engineVars, workerVars
<1>1. sent[t] \in 0..MaxLines /\ call \in [Thread -> CallStates]
      /\ fate \in [Line -> Fates]
  BY DEF CallTypeOK, HistoryTypeOK
<1>2. UNCHANGED <<engineVars, workerVars, ctl>>
  BY DEF WriteBegin, WriteReadMode
<1>3. /\ RingTypeOK' /\ RingConsistent' /\ PhasesAgree' /\ WorkerTypeOK'
      /\ FlagTypeOK'
  <2>1. RingTypeOK' /\ WorkerTypeOK'
    BY <1>2 DEF RingTypeOK, WorkerTypeOK
  <2>2. RingConsistent' /\ PhasesAgree'
    BY <1>2 DEF RingConsistent, PhasesAgree
  <2>3. FlagTypeOK'
    BY <1>2 DEF FlagTypeOK
  <2> QED
    BY <2>1, <2>2, <2>3
<1>4. CASE WriteBegin(t)
  <2>1. /\ sent[t] + 1 \in 1..MaxLines /\ pc[t] = "out"
        /\ sent' = [sent EXCEPT ![t] = sent[t] + 1]
        /\ fate' = [fate EXCEPT ![<<t, sent[t] + 1>>] = "calling"]
        /\ UNCHANGED <<call, rc, ctl, due, used>>
    BY <1>1, <1>4, MaxLinesAssumption DEF WriteBegin, At
  <2>2. <<t, sent[t] + 1>> \in Line /\ fate[<<t, sent[t] + 1>>] = "new"
    BY <1>1, <2>1, LineOf DEF CallsHoldLines
  <2>3. CallTypeOK' /\ HistoryTypeOK'
    <3>1. sent[t] + 1 \in 0..MaxLines
      BY <2>1, MaxLinesAssumption
    <3>2. CallTypeOK'
      BY <1>2, <2>1, <3>1 DEF CallTypeOK
    <3>3. HistoryTypeOK'
      BY <2>1 DEF HistoryTypeOK, Fates
    <3> QED
      BY <3>2, <3>3
  <2>4. CallsHoldLines'
    <3>1. ASSUME NEW u \in Thread, call'[u] \in Held
          PROVE  sent'[u] > 0 /\ fate'[<<u, sent'[u]>>] = "calling"
      <4>1. u # t /\ call[u] \in Held
        BY <2>1, <3>1 DEF CallsAgree
      <4>2. sent[u] > 0 /\ fate[<<u, sent[u]>>] = "calling"
        BY <4>1 DEF CallsHoldLines, cur, Held
      <4> QED
        BY <1>1, <2>1, <2>2, <4>1, <4>2 DEF CallTypeOK
    <3>2. ASSUME NEW u \in Thread, NEW n \in 1..MaxLines, n > sent'[u]
          PROVE  fate'[<<u, n>>] = "new"
      <4>1. n > sent[u] /\ <<u, n>> # <<t, sent[t] + 1>>
        BY <1>1, <2>1, <3>2, MaxLinesAssumption DEF CallTypeOK
      <4> QED
        BY <1>1, <2>1, <4>1, LineOf DEF CallsHoldLines
    <3> QED
      BY <3>1, <3>2 DEF CallsHoldLines, cur, Held
  <2>5. NothingLost'
    BY <1>1, <1>4, <2>1, <2>2, LinesKeep DEF WriteBegin, InFlight
  <2> QED
    BY <1>2, <1>3, <2>3, <2>4, <2>5
<1>5. CASE WriteReadMode(t)
  <2>1. /\ UNCHANGED <<sent, fate, rc, ctl, due, used>> /\ pc[t] = "checked"
        /\ call' = [call EXCEPT ![t] = "enq"] \/ call' = call
    BY <1>5 DEF WriteReadMode, At
  <2>2. CallTypeOK' /\ HistoryTypeOK'
    BY <2>1 DEF CallTypeOK, HistoryTypeOK, CallStates
  <2>3. sent[t] > 0 /\ fate[cur(t)] = "calling"
    BY <2>1 DEF LinesAgree, WritePcs
  <2>4. CallsHoldLines'
    BY <1>1, <2>1, <2>3 DEF CallsHoldLines, cur
  <2>5. NothingLost'
    BY <1>5, <2>1, LinesKeep DEF WriteReadMode, InFlight
  <2> QED
    BY <1>2, <1>3, <2>2, <2>4, <2>5
<1> QED
  BY <1>4, <1>5

\* Every step of the core keeps the engine's invariant.
LEMMA CoreEngineStep ==
    ASSUME CoreInv, [CoreNext]_allVars
    PROVE  EngineInv'
<1>1. EngineInv
  BY DEF CoreInv
<1>2. ASSUME [Next]_vars PROVE EngineInv'
  BY <1>1, <1>2, EngineInvStep
<1>3. ASSUME NEW t \in Thread, WriteBegin(t) \/ Write(t) PROVE EngineInv'
  <2>1. CASE WriteBegin(t) \/ WriteReadMode(t)
    BY <2>1, CoreWriteKeeps
  <2>2. CASE WriteEnqueue(t)
    BY <1>2, <2>2 DEF WriteEnqueue, Next
  <2>3. CASE WriteEngineReturned(t) \/ WriteDirect(t)
    BY <1>2, <2>3 DEF WriteEngineReturned, WriteDirect
  <2> QED
    BY <1>3, <2>1, <2>2, <2>3 DEF Write
<1>4. ASSUME NEW t \in Thread, FlushCall(t) PROVE EngineInv'
  <2>1. UNCHANGED <<engineVars, workerVars, callVars, ctl, fate, due>>
        /\ used' \in [{"start", "flush", "fork"} -> Nat]
    BY <1>1, <1>4, BudgetAssumption
    DEF FlushCall, Spend, EngineInv, TypeOK, HistoryTypeOK
  <2>2. TypeOK'
    <3>1. RingTypeOK' /\ WorkerTypeOK' /\ CallTypeOK' /\ HistoryTypeOK'
      BY <1>1, <2>1 DEF EngineInv, TypeOK, RingTypeOK, WorkerTypeOK, CallTypeOK,
         HistoryTypeOK, engineVars, workerVars, callVars
    <3>2. FlagTypeOK'
      BY <1>1, <2>1 DEF EngineInv, TypeOK, FlagTypeOK, engineVars, workerVars
    <3> QED
      BY <3>1, <3>2 DEF TypeOK
  <2>3. RingConsistent' /\ ThreadsAgree'
    BY <1>1, <2>1 DEF EngineInv, RingConsistent, ThreadsAgree, PhasesAgree,
       CallsHoldLines, cur, engineVars, workerVars, callVars
  <2>4. NothingLost'
    BY <1>1, <2>1, LinesKeep DEF EngineInv, InFlight, engineVars, workerVars
  <2> QED
    BY <2>2, <2>3, <2>4 DEF EngineInv
<1>5. ASSUME NEW t \in Thread, Flush(t) PROVE EngineInv'
  <2>1. CASE FlushEngine(t)
    BY <1>1, <2>1, CoreFlushKeeps DEF FlushEngine
  <2>2. CASE FlushEngineReturn(t)
    BY <1>2, <2>2 DEF FlushEngineReturn, Next
  <2>3. CASE FlushReadFlags(t) \/ FlushEngineReturned(t) \/ FlushSinksStep(t)
    BY <1>2, <2>3 DEF FlushReadFlags, FlushEngineReturned, FlushSinksStep
  <2> QED
    BY <1>5, <2>1, <2>2, <2>3 DEF Flush
<1>6. ASSUME NEW t \in Thread, AddCallbackSink(t) \/ CoreWakeup(t) PROVE EngineInv'
  BY <1>2, <1>6 DEF AddCallbackSink, CoreWakeup, Next
<1>7. CASE CoreWorker
  BY <1>2, <1>7 DEF CoreWorker, Worker, Next
<1>8. CASE InitStart \/ ReconfigureStart
  BY <1>1, <1>2, <1>8, CoreStartKeeps DEF InitStart, ReconfigureStart, StartEngine
<1>9. CASE InitStarted \/ ReconfigureStarted
  BY <1>2, <1>9 DEF InitStarted, ReconfigureStarted, EngineStarted, Control, Next
<1>10. CASE ReconfigureStop \/ ShutdownStop \/ ReconfigureStopped \/ ShutdownStopped
  BY <1>2, <1>10 DEF ReconfigureStop, ShutdownStop, StopEngine,
     ReconfigureStopped, ShutdownStopped, EngineStopped, Control, Next
<1>11. CASE InitSinks \/ InitPublish \/ ReconfigureMode \/ ReconfigureSwap
            \/ ReconfigurePublish \/ ShutdownClose \/ AdminCall
  BY <1>2, <1>11 DEF InitSinks, InitPublish, ReconfigureMode, ReconfigureSwap,
     ReconfigurePublish, ShutdownClose, AdminCall, InitBegin, ReconfigureBegin,
     ShutdownBegin
<1>12. CASE CoreTerminated \/ UNCHANGED allVars
  BY <1>2, <1>12 DEF CoreTerminated, allVars
<1> QED
  BY <1>3, <1>4, <1>5, <1>6, <1>7, <1>8, <1>9, <1>10, <1>11, <1>12
  DEF CoreNext, AdminStep

-----------------------------------------------------------------------------
(***************************************************************************)
(* Where the threads are.                                                  *)
(***************************************************************************)

\* The steps by which Admin runs the lifecycle; the others leave the control
\* of the engine alone, and Admin's place unless it flushes.
Lifecycle == AdminStep \/ AdminCall

\* A step of a producer, of Admin's flush, or of the worker.
LEMMA OrdinarySteps ==
    ASSUME CoreInv, [CoreNext]_allVars, ~Lifecycle
    PROVE  /\ UNCHANGED <<initialized, mode, want, running, stop, ctl>>
           /\ sinks \subseteq sinks'
           /\ Live => Live'
           /\ \/ pc'[Admin] = pc[Admin]
              \/ pc[Admin] \in FlushPcs /\ pc'[Admin] \in FlushPcs \cup {"r_mode"}
           /\ \A t \in Producer : pc'[t] \notin AdminPcs
<1> USE DEF At, Go, stateVars, Live
<1>1. /\ pc \in [Thread -> {"out"} \cup WritePcs \cup FlushPcs \cup AdminPcs]
      /\ Admin \in Thread /\ Producer \subseteq Thread /\ Admin \notin Producer
      /\ pc[Admin] \in {"out"} \cup FlushPcs \cup AdminPcs
      /\ \A t \in Producer : pc[t] \notin AdminPcs
  BY AdminAssumption DEF CoreInv, CoreTypeOK, PcsAgree, Producer
<1> USE DEF WritePcs, FlushPcs, AdminPcs
<1>2. ASSUME NEW t \in Thread, WriteBegin(t)
      PROVE  /\ UNCHANGED <<stateVars, running, stop, ctl, wpc>>
             /\ pc' = [pc EXCEPT ![t] = "checked"] /\ t \in Producer
  BY <1>2 DEF WriteBegin, engineVars, workerVars
<1>3. ASSUME NEW t \in Thread, WriteReadMode(t) \/ WriteEngineReturned(t) \/ WriteDirect(t)
      PROVE  /\ UNCHANGED <<stateVars, running, stop, ctl, wpc>>
             /\ t \in Producer
             /\ \E q \in {"engine", "direct", "flush", "out"} : pc' = [pc EXCEPT ![t] = q]
  <2>1. pc[t] \in WritePcs
    BY <1>3 DEF WriteReadMode, WriteEngineReturned, WriteDirect
  <2>2. t \in Producer
    BY <1>1, <2>1 DEF Producer
  <2> QED
    BY <1>3, <2>2 DEF WriteReadMode, WriteEngineReturned, WriteDirect, AfterWrite,
       vars, engineVars, workerVars
<1>4. ASSUME NEW t \in Thread, WriteEnqueue(t) \/ CoreWakeup(t) \/ FlushEngineReturn(t)
      PROVE  UNCHANGED <<stateVars, running, stop, ctl, pc>> /\ (Live => Live')
  BY <1>4 DEF WriteEnqueue, CoreWakeup, FlushEngineReturn, Enqueue,
     EnqueueRefuse, EnqueueDropNew, EnqueueBlock, EnqueuePush, EnqueueDropOld,
     EnqueueNoMemory, EnqueueDropOldNoMemory, SpuriousWakeup, FlushReturn,
     SignalNotEmpty, coreVars, engineVars, workerVars
<1>5. ASSUME NEW t \in Thread, FlushCall(t) \/ AddCallbackSink(t)
      PROVE  /\ UNCHANGED <<initialized, mode, want, running, stop, ctl, wpc>>
             /\ sinks \subseteq sinks'
             /\ pc' = pc \/ (pc' = [pc EXCEPT ![t] = "flush"] /\ t \in Producer)
  BY <1>5 DEF FlushCall, AddCallbackSink, vars, engineVars, workerVars
<1>6. ASSUME NEW t \in Thread,
             \/ FlushReadFlags(t) \/ FlushEngine(t) \/ FlushEngineReturned(t)
             \/ FlushSinksStep(t)
      PROVE  /\ UNCHANGED <<stateVars, running, stop, ctl>> /\ (Live => Live')
             /\ pc[t] \in FlushPcs
             /\ \E q \in FlushPcs \cup {IF t = Admin THEN "r_mode" ELSE "out"} :
                   pc' = [pc EXCEPT ![t] = q]
  BY <1>6 DEF FlushReadFlags, FlushEngine, AsyncFlush, FlushEngineReturned,
     FlushSinksStep, AfterFlush, SignalNotEmpty, vars, engineVars, workerVars
<1>7. CASE CoreWorker
  <2>1. UNCHANGED <<stateVars, pc>>
    BY <1>7 DEF CoreWorker, coreVars
  <2>2. UNCHANGED <<running, stop, ctl>>
    BY <1>7 DEF CoreWorker, WorkerLoop, WorkerTick, WorkerProceed, WorkerTake,
       WorkerSkip, WorkerRelock, WorkerBatchEnd, WorkerEmit, WorkerSync, engineVars
  <2>3. wpc = "sync" /\ should_exit => stop
    BY DEF CoreInv, EngineInv, ThreadsAgree, PhasesAgree
  <2>4. Live => Live'
    BY <1>7, <2>2, <2>3 DEF CoreWorker, WorkerLoop, WorkerTick, WorkerProceed,
       WorkerTake, WorkerSkip, WorkerRelock, WorkerBatchEnd, WorkerEmit, WorkerSync
  <2> QED
    BY <1>1, <2>1, <2>2, <2>4
<1>8. CASE CoreTerminated \/ UNCHANGED allVars
  BY <1>1, <1>8 DEF CoreTerminated, allVars, coreVars, vars, engineVars, workerVars
<1> QED
  BY <1>1, <1>2, <1>3, <1>4, <1>5, <1>6, <1>7, <1>8
  DEF CoreNext, Lifecycle, Write, Flush

\* Every step of the lifecycle is taken by Admin alone.
LEMMA LifecycleSteps ==
    ASSUME CoreInv, Lifecycle
    PROVE  /\ pc \in [Thread -> {"out"} \cup WritePcs \cup FlushPcs \cup AdminPcs]
           /\ \E q \in {"out", "flush"} \cup AdminPcs : pc' = [pc EXCEPT ![Admin] = q]
           /\ pc'[Admin] \in {"out", "flush"} \cup AdminPcs
           /\ \A t \in Producer : pc'[t] = pc[t]
           /\ pc[Admin] \in {"out"} \cup AdminPcs
<1>1. /\ pc \in [Thread -> {"out"} \cup WritePcs \cup FlushPcs \cup AdminPcs]
      /\ Admin \in Thread /\ Producer \subseteq Thread /\ Admin \notin Producer
  BY AdminAssumption DEF CoreInv, CoreTypeOK, Producer
<1> USE DEF At, Go, AdminPcs
<1>2. CASE AdminCall
  BY <1>1, <1>2 DEF AdminCall, InitBegin, ReconfigureBegin, ShutdownBegin, BeginOp
<1>3. CASE InitSinks \/ InitPublish \/ ReconfigureMode \/ ReconfigureSwap
           \/ ReconfigurePublish \/ ShutdownClose
  BY <1>1, <1>3 DEF InitSinks, InitPublish, ReconfigureMode, ReconfigureSwap,
     ReconfigurePublish, ShutdownClose
<1>4. CASE InitStart \/ ReconfigureStart \/ InitStarted \/ ReconfigureStarted
  BY <1>1, <1>4 DEF InitStart, ReconfigureStart, StartEngine, InitStarted,
     ReconfigureStarted, EngineStarted
<1>5. CASE ReconfigureStop \/ ShutdownStop \/ ReconfigureStopped \/ ShutdownStopped
  BY <1>1, <1>5 DEF ReconfigureStop, ShutdownStop, StopEngine,
     ReconfigureStopped, ShutdownStopped, EngineStopped
<1> QED
  BY <1>2, <1>3, <1>4, <1>5 DEF Lifecycle, AdminStep

\* Every step leaves the threads where their operations are, and every engine
\* start and stop to the Admin step that waits for it.
LEMMA PcsStep ==
    ASSUME CoreInv, [CoreNext]_allVars
    PROVE  PcsAgree'
<1>1. PcsAgree
  BY DEF CoreInv
<1>2. CASE ~Lifecycle
  BY <1>1, <1>2, OrdinarySteps DEF PcsAgree, FlushPcs, AdminPcs
<1>3. CASE Lifecycle
  <2>1. /\ pc'[Admin] \in {"out"} \cup FlushPcs \cup AdminPcs
        /\ \A t \in Producer : pc'[t] \notin AdminPcs
    BY <1>1, <1>3, LifecycleSteps DEF PcsAgree, FlushPcs
  <2>2. /\ pc \in [Thread -> {"out"} \cup WritePcs \cup FlushPcs \cup AdminPcs]
        /\ Admin \in Thread
    BY AdminAssumption DEF CoreInv, CoreTypeOK
  <2> USE DEF At, Go
  <2>3. /\ ctl' = "starting" <=> pc'[Admin] \in {"i_wait", "r_wait"}
        /\ ctl' = "joining" <=> pc'[Admin] \in {"r_join", "s_join"}
    <3>1. CASE AdminCall
      BY <1>1, <2>2, <3>1 DEF PcsAgree, AdminCall, InitBegin, ReconfigureBegin,
         ShutdownBegin, BeginOp, vars
    <3>2. CASE InitSinks \/ InitPublish \/ ReconfigureMode \/ ReconfigureSwap
               \/ ReconfigurePublish \/ ShutdownClose
      BY <1>1, <2>2, <3>2 DEF PcsAgree, InitSinks, InitPublish, ReconfigureMode,
         ReconfigureSwap, ReconfigurePublish, ShutdownClose, vars
    <3>3. CASE InitStart \/ ReconfigureStart
      BY <1>1, <2>2, <3>3 DEF PcsAgree, InitStart, ReconfigureStart, StartEngine,
         AsyncStart, vars
    <3>4. CASE InitStarted \/ ReconfigureStarted
      BY <1>1, <2>2, <3>4 DEF PcsAgree, InitStarted, ReconfigureStarted,
         EngineStarted, StartThread, StartFail
    <3>5. CASE ReconfigureStop \/ ShutdownStop
      BY <1>1, <2>2, <3>5 DEF PcsAgree, ReconfigureStop, ShutdownStop, StopEngine,
         StopBegin, vars
    <3>6. CASE ReconfigureStopped \/ ShutdownStopped
      BY <1>1, <2>2, <3>6 DEF PcsAgree, ReconfigureStopped, ShutdownStopped,
         EngineStopped, StopDetach
    <3> QED
      BY <1>3, <3>1, <3>2, <3>3, <3>4, <3>5, <3>6 DEF Lifecycle, AdminStep
  <2> QED
    BY <2>1, <2>3 DEF PcsAgree
<1> QED
  BY <1>2, <1>3


\* A thread stays inside an engine call only where the core waits for it.
LEMMA CoreCallsStep ==
    ASSUME CoreInv, [CoreNext]_allVars
    PROVE  CallsAgree'
<1>1. /\ pc \in [Thread -> {"out"} \cup WritePcs \cup FlushPcs \cup AdminPcs]
      /\ call \in [Thread -> CallStates] /\ Admin \in Thread
      /\ CallsAgree
  BY AdminAssumption DEF CoreInv, CoreTypeOK, TypeOK, CallTypeOK
<1> USE DEF CallsAgree, Held, At, Go
<1>2. ASSUME NEW t \in Thread, WriteBegin(t) \/ WriteReadMode(t)
      PROVE  CallsAgree'
  BY <1>1, <1>2 DEF WriteBegin, WriteReadMode
<1>3. ASSUME NEW t \in Thread, WriteEnqueue(t) PROVE CallsAgree'
  <2>1. pc' = pc /\ pc[t] = "engine"
    BY <1>3 DEF WriteEnqueue, coreVars
  <2>2. \E c \in {"idle", "blocked"} : call' = [call EXCEPT ![t] = c]
    BY <1>3 DEF WriteEnqueue, Enqueue, EnqueueRefuse, EnqueueDropNew,
       EnqueueBlock, EnqueuePush, EnqueueDropOld, EnqueueNoMemory,
       EnqueueDropOldNoMemory, Return
  <2> QED
    BY <1>1, <2>1, <2>2
<1>4. ASSUME NEW t \in Thread, WriteEngineReturned(t) \/ WriteDirect(t)
      PROVE  CallsAgree'
  <2>1. UNCHANGED call /\ call[t] \notin Held \cup {"fwait"}
        /\ \E q \in {"direct", "flush", "out"} : pc' = [pc EXCEPT ![t] = q]
    BY <1>1, <1>4 DEF WriteEngineReturned, WriteDirect, AfterWrite, vars, callVars
  <2> QED
    BY <1>1, <2>1
<1>5. ASSUME NEW t \in Thread,
             \/ FlushCall(t) \/ AddCallbackSink(t) \/ FlushReadFlags(t)
             \/ FlushEngineReturned(t) \/ FlushSinksStep(t)
      PROVE  CallsAgree'
  <2>1. UNCHANGED call /\ call[t] \notin Held \cup {"fwait"}
        /\ (pc' = pc \/ \E q \in {"flush", "fmode", "fsinks", "r_mode", "out"} :
                           pc' = [pc EXCEPT ![t] = q])
    BY <1>1, <1>5 DEF FlushCall, AddCallbackSink, FlushReadFlags,
       FlushEngineReturned, FlushSinksStep, AfterFlush, vars, callVars
  <2> QED
    BY <1>1, <2>1
<1>6. ASSUME NEW t \in Thread, FlushEngine(t) \/ FlushEngineReturn(t) \/ CoreWakeup(t)
      PROVE  CallsAgree'
  BY <1>1, <1>6 DEF FlushEngine, AsyncFlush, FlushEngineReturn, FlushReturn,
     CoreWakeup, SpuriousWakeup, coreVars
<1>7. CASE CoreWorker
  <2>1. pc' = pc
    BY <1>7 DEF CoreWorker, coreVars
  <2>2. \A t \in Thread : \/ call'[t] = call[t]
                          \/ call[t] = "blocked" /\ call'[t] = "woken"
    BY <1>1, <1>7 DEF CoreWorker, WorkerLoop, WorkerTick, WorkerProceed, WorkerTake,
       WorkerSkip, WorkerRelock, WorkerBatchEnd, WorkerEmit, WorkerSync,
       SignalNotFull, Blocked, callVars
  <2> QED
    BY <1>1, <2>1, <2>2
<1>8. CASE Lifecycle
  <2>1. /\ \A t \in Producer : pc'[t] = pc[t]
        /\ call[Admin] \notin Held \cup {"fwait"}
    BY <1>1, <1>8, LifecycleSteps DEF FlushPcs, AdminPcs
  <2>2. \A t \in Thread : \/ call'[t] = call[t]
                          \/ call[t] = "blocked" /\ call'[t] = "woken"
    <3>1. CASE AdminCall
      BY <3>1 DEF AdminCall, InitBegin, ReconfigureBegin, ShutdownBegin, vars, callVars
    <3>2. CASE InitSinks \/ InitPublish \/ ReconfigureMode \/ ReconfigureSwap
               \/ ReconfigurePublish \/ ShutdownClose
      BY <3>2 DEF InitSinks, InitPublish, ReconfigureMode, ReconfigureSwap,
         ReconfigurePublish, ShutdownClose, vars, callVars
    <3>3. CASE InitStart \/ ReconfigureStart \/ InitStarted \/ ReconfigureStarted
      BY <3>3 DEF InitStart, ReconfigureStart, StartEngine, AsyncStart, InitStarted,
         ReconfigureStarted, EngineStarted, StartThread, StartFail, vars, callVars
    <3>4. CASE ReconfigureStop \/ ShutdownStop \/ ReconfigureStopped \/ ShutdownStopped
      BY <1>1, <3>4 DEF ReconfigureStop, ShutdownStop, StopEngine, StopBegin,
         BroadcastNotFull, ReconfigureStopped, ShutdownStopped, EngineStopped,
         StopDetach, vars, callVars
    <3> QED
      BY <1>8, <3>1, <3>2, <3>3, <3>4 DEF Lifecycle, AdminStep
  <2> QED
    BY <1>1, <2>1, <2>2 DEF Producer
<1>9. CASE CoreTerminated \/ UNCHANGED allVars
  BY <1>1, <1>9 DEF CoreTerminated, allVars, coreVars, vars, callVars
<1> QED
  BY <1>2, <1>3, <1>4, <1>5, <1>6, <1>7, <1>8, <1>9
  DEF CoreNext, Lifecycle, Write, Flush

-----------------------------------------------------------------------------
(***************************************************************************)
(* What the lifecycle knows of the engine and the sinks.                   *)
(***************************************************************************)
Phases == LifecycleAgrees /\ EngineDown /\ SinksOpen

\* Init, reconfigure and shutdown start and stop the engine, publish and
\* withdraw the mode and replace the sinks in an order that keeps the three.
LEMMA LifecyclePhases ==
    ASSUME CoreInv, Lifecycle
    PROVE  Phases'
<1>1. /\ pc \in [Thread -> {"out"} \cup WritePcs \cup FlushPcs \cup AdminPcs]
      /\ Admin \in Thread /\ mode \in Mode
      /\ LifecycleAgrees /\ EngineDown /\ SinksOpen /\ PcsAgree /\ PhasesAgree
  BY AdminAssumption DEF CoreInv, CoreTypeOK, EngineInv, ThreadsAgree
<1> USE DEF Phases, LifecycleAgrees, EngineDown, SinksOpen, PublishedModeHasEngine,
            Live, Downs, Swaps, FlushPcs, At, Go, Mode
<1>2. CASE AdminCall
  <2>1. CASE \E m \in Mode : InitBegin(m)
    BY <1>1, <2>1 DEF InitBegin, BeginOp, vars, engineVars, workerVars
  <2>2. CASE \E m \in Mode : ReconfigureBegin(m)
    BY <1>1, <2>2 DEF ReconfigureBegin, BeginOp, vars, engineVars, workerVars
  <2>3. CASE ShutdownBegin
    BY <1>1, <2>3 DEF ShutdownBegin, BeginOp, vars, engineVars, workerVars
  <2> QED
    BY <1>2, <2>1, <2>2, <2>3 DEF AdminCall
<1>3. CASE InitSinks
  BY <1>1, <1>3 DEF InitSinks, vars, engineVars, workerVars
<1>4. CASE InitPublish
  BY <1>1, <1>4 DEF InitPublish, vars, engineVars, workerVars
<1>5. CASE ReconfigureMode
  BY <1>1, <1>5 DEF ReconfigureMode, vars, engineVars, workerVars
<1>6. CASE ReconfigureSwap
  BY <1>1, <1>6 DEF ReconfigureSwap, vars, engineVars, workerVars
<1>7. CASE ReconfigurePublish
  BY <1>1, <1>7 DEF ReconfigurePublish, vars, engineVars, workerVars
<1>8. CASE ShutdownClose
  BY <1>1, <1>8 DEF ShutdownClose, vars, engineVars, workerVars
<1>9. CASE InitStart
  BY <1>1, <1>9 DEF InitStart, StartEngine, AsyncStart, vars, engineVars, workerVars
<1>10. CASE ReconfigureStart
  BY <1>1, <1>10
  DEF ReconfigureStart, StartEngine, AsyncStart, vars, engineVars, workerVars
<1>11. CASE InitStarted \/ ReconfigureStarted
  <2>1. running /\ ~stop
    BY <1>1, <1>11 DEF InitStarted, ReconfigureStarted, EngineStarted, PcsAgree,
       PhasesAgree
  <2>2. CASE StartThread
    <3>1. ~StartFail /\ UNCHANGED <<running, stop>> /\ wpc' = "loop"
      BY <2>1, <2>2 DEF StartThread, StartFail, engineVars
    <3>2. UNCHANGED <<initialized, sinks, mode>>
      BY <1>11, <3>1 DEF InitStarted, ReconfigureStarted, EngineStarted
    <3>3. \/ pc[Admin] = "i_wait" /\ pc'[Admin] = "i_publish"
          \/ pc[Admin] = "r_wait" /\ pc'[Admin] = "r_publish"
      BY <1>1, <1>11, <3>1 DEF InitStarted, ReconfigureStarted, EngineStarted
    <3> QED
      BY <1>1, <2>1, <3>1, <3>2, <3>3
  <2>3. CASE StartFail
    <3>1. ~StartThread /\ ~running'
      BY <2>1, <2>3 DEF StartThread, StartFail, engineVars
    <3>2. UNCHANGED <<initialized, sinks>> /\ mode' = "SYNC"
      BY <1>11, <3>1 DEF InitStarted, ReconfigureStarted, EngineStarted
    <3>3. \/ pc[Admin] = "i_wait" /\ pc'[Admin] = "i_publish"
          \/ pc[Admin] = "r_wait" /\ pc'[Admin] = "out"
      BY <1>1, <1>11, <3>1 DEF InitStarted, ReconfigureStarted, EngineStarted
    <3> QED
      BY <1>1, <2>1, <3>1, <3>2, <3>3
  <2> QED
    BY <1>11, <2>2, <2>3 DEF InitStarted, ReconfigureStarted, EngineStarted
<1>12. CASE ReconfigureStop \/ ShutdownStop
  BY <1>1, <1>12 DEF ReconfigureStop, ShutdownStop, StopEngine, StopBegin,
     stateVars, vars, engineVars, workerVars
<1>13. CASE ReconfigureStopped \/ ShutdownStopped
  BY <1>1, <1>13 DEF ReconfigureStopped, ShutdownStopped, EngineStopped,
     StopDetach, stateVars
<1> QED
  BY <1>2, <1>3, <1>4, <1>5, <1>6, <1>7, <1>8, <1>9, <1>10, <1>11, <1>12, <1>13
  DEF Lifecycle, AdminStep

\* The other steps leave the engine running and the sinks open.
LEMMA PhasesKept ==
    ASSUME CoreInv, [CoreNext]_allVars
    PROVE  Phases'
<1>1. CASE ~Lifecycle
  BY <1>1, OrdinarySteps DEF CoreInv, Phases, LifecycleAgrees, EngineDown, SinksOpen,
     PublishedModeHasEngine, Live, Downs, Swaps, FlushPcs
<1> QED
  BY <1>1, LifecyclePhases

-----------------------------------------------------------------------------
(***************************************************************************)
(* The lines: who still holds one, and which sinks have it.                *)
(***************************************************************************)

\* What thread t knows of its latest line.
LineAgrees(t) ==
    /\ pc[t] \in WritePcs => sent[t] > 0
    /\ Writing(t) => Unwritten(cur(t)) /\ fate[cur(t)] \in {"calling", "refused"}
    /\ pc[t] = "checked" => fate[cur(t)] = "calling"
    /\ pc[t] = "engine" /\ ~Writing(t)
          => fate[cur(t)] \notin {"new", "calling", "refused"}

\* A line that no thread and no queue holds may go on as it likes; the others
\* keep their fate and no sink gets them.
Settles(l) ==
    \/ fate'[l] = fate[l] /\ received'[l] = received[l]
    \/ /\ fate[l] \notin {"calling", "refused"}
       /\ fate'[l] \notin {"new", "queued", "calling", "refused"}

\* A step that leaves t's write where it is, and its line alone.
LEMMA LineKept ==
    ASSUME CoreInv, NEW t \in Thread, sent'[t] = sent[t],
           pc'[t] \in WritePcs =>
              /\ pc'[t] = pc[t] /\ rc'[t] = rc[t] /\ Settles(cur(t))
              /\ (call'[t] = "idle" <=> call[t] = "idle")
    PROVE  LineAgrees(t)'
<1>1. LineAgrees(t)
  BY DEF CoreInv, LinesAgree, LineAgrees
<1>2. cur(t)' = cur(t)
  BY DEF cur
<1>3. CASE pc'[t] \notin WritePcs
  BY <1>3 DEF LineAgrees, Writing, WritePcs
<1>4. CASE pc'[t] \in WritePcs
  BY <1>1, <1>2, <1>4 DEF LineAgrees, Writing, WritePcs, FallsBack, Unwritten, Settles
<1> QED
  BY <1>3, <1>4

\* The lines of a step in which every write stays where it is.
LEMMA LinesKept ==
    ASSUME CoreInv, sent' = sent, \A l \in Line : Settles(l),
           \A t \in Thread : pc'[t] \in WritePcs =>
              /\ pc'[t] = pc[t] /\ rc'[t] = rc[t]
              /\ (call'[t] = "idle" <=> call[t] = "idle")
    PROVE  LinesAgree'
<1>1. \A l \in Line : fate'[l] \in {"new", "queued"} => Unwritten(l)'
  BY DEF CoreInv, LinesAgree, Unwritten, Settles
<1>2. ASSUME NEW t \in Thread PROVE LineAgrees(t)'
  <2>1. pc[t] \in WritePcs => cur(t) \in Line
    BY DEF CoreInv, LinesAgree, EngineInv, TypeOK, CallTypeOK, cur, Line
  <2> QED
    BY <1>2, <2>1, LineKept
<1> QED
  BY <1>1, <1>2 DEF LinesAgree, LineAgrees

\* A thread in the write path holds a line; a direct write, a line no sink has.
LEMMA WriterHasLine ==
    ASSUME CoreInv, NEW t \in Thread, pc[t] \in WritePcs
    PROVE  /\ cur(t) \in Line
           /\ \A u \in Thread : cur(u) = cur(t) => u = t
           /\ LineAgrees(t)
<1>1. LineAgrees(t)
  BY DEF CoreInv, LinesAgree, LineAgrees
<1>2. sent[t] \in 1..MaxLines
  BY <1>1, MaxLinesAssumption DEF LineAgrees, CoreInv, EngineInv, TypeOK, CallTypeOK
<1> QED
  BY <1>1, <1>2 DEF cur, Line

\* A new line: nobody has it but its thread.
LEMMA BeginLines ==
    ASSUME CoreInv, NEW t \in Thread, WriteBegin(t)
    PROVE  LinesAgree'
<1> DEFINE l == <<t, sent[t] + 1>>
<1>1. /\ sent[t] + 1 \in 1..MaxLines /\ sent[t] + 1 > 0
      /\ sent' = [sent EXCEPT ![t] = sent[t] + 1]
      /\ pc' = [pc EXCEPT ![t] = "checked"]
      /\ fate' = [fate EXCEPT ![l] = "calling"]
      /\ UNCHANGED <<call, rc, received>>
  BY MaxLinesAssumption
  DEF WriteBegin, Go, lineVars, CoreInv, EngineInv, TypeOK, CallTypeOK
<1>2. sent'[t] = sent[t] + 1 /\ pc'[t] = "checked"
      /\ \A u \in Thread \ {t} : sent'[u] = sent[u] /\ pc'[u] = pc[u]
  BY <1>1 DEF CoreInv, CoreTypeOK, EngineInv, TypeOK, CallTypeOK
<1>3. l \in Line /\ fate[l] = "new" /\ Unwritten(l)
  <2>1. l \in Line
    BY <1>1, LineOf
  <2>2. sent[t] + 1 > sent[t]
    BY DEF CoreInv, EngineInv, TypeOK, CallTypeOK
  <2>3. fate[l] = "new"
    BY <1>1, <2>2 DEF CoreInv, EngineInv, ThreadsAgree, CallsHoldLines
  <2> QED
    BY <2>1, <2>3 DEF CoreInv, LinesAgree
<1>4. fate'[l] = "calling" /\ \A k \in Line \ {l} : fate'[k] = fate[k]
  BY <1>1, <1>3 DEF CoreInv, EngineInv, TypeOK, HistoryTypeOK
<1> HIDE DEF l
<1>5. \A k \in Line : fate'[k] \in {"new", "queued"} => Unwritten(k)'
  BY <1>1, <1>3, <1>4 DEF CoreInv, LinesAgree, Unwritten
<1>6. LineAgrees(t)'
  <2>1. cur(t)' = l
    BY <1>2 DEF l, cur
  <2>2. \A s \in Sink : received'[l][s] = 0
    BY <1>1, <1>3 DEF Unwritten
  <2> QED
    BY <1>1, <1>2, <1>4, <2>1, <2>2 DEF LineAgrees, Writing, WritePcs, Unwritten
<1>7. ASSUME NEW u \in Thread \ {t} PROVE LineAgrees(u)'
  <2>1. pc[u] \in WritePcs => cur(u) \in Line /\ cur(u) # l
    BY WriterHasLine DEF l, cur
  <2> QED
    BY <1>1, <1>2, <1>4, <2>1, LineKept DEF Settles
<1> QED
  BY <1>5, <1>6, <1>7 DEF LinesAgree, LineAgrees

\* The line goes to the engine or to the sinks; no sink has it yet.
LEMMA ModeLines ==
    ASSUME CoreInv, NEW t \in Thread, WriteReadMode(t)
    PROVE  LinesAgree'
<1>1. /\ pc[t] = "checked" /\ UNCHANGED <<sent, fate, rc, received>>
      /\ \/ pc' = [pc EXCEPT ![t] = "engine"] /\ call' = [call EXCEPT ![t] = "enq"]
         \/ pc' = [pc EXCEPT ![t] = "direct"] /\ call' = call
  BY DEF WriteReadMode, At, Go, lineVars
<1>2. /\ \A u \in Thread \ {t} : pc'[u] = pc[u] /\ call'[u] = call[u]
      /\ \/ pc'[t] = "engine" /\ call'[t] = "enq"
         \/ pc'[t] = "direct"
  BY <1>1 DEF CoreInv, CoreTypeOK, EngineInv, TypeOK, CallTypeOK
<1>3. \A k \in Line : fate'[k] \in {"new", "queued"} => Unwritten(k)'
  BY <1>1 DEF CoreInv, LinesAgree, Unwritten
<1>4. LineAgrees(t)'
  <2>1. LineAgrees(t) /\ cur(t)' = cur(t)
    BY <1>1, WriterHasLine DEF WritePcs, cur
  <2> QED
    BY <1>1, <1>2, <2>1 DEF LineAgrees, Writing, WritePcs, Unwritten
<1>5. ASSUME NEW u \in Thread \ {t} PROVE LineAgrees(u)'
  BY <1>1, <1>2, LineKept DEF Settles
<1> QED
  BY <1>3, <1>4, <1>5 DEF LinesAgree, LineAgrees

\* hx_async_enqueue refuses the line, waits, or takes its fate in hand; a line
\* it displaces was queued.
LEMMA EnqueueFates ==
    ASSUME CoreInv, NEW t \in Thread, WriteEnqueue(t)
    PROVE  /\ pc[t] = "engine" /\ call[t] # "idle"
           /\ UNCHANGED <<sent, pc, received>>
           /\ \A u \in Thread \ {t} : call'[u] = call[u] /\ rc'[u] = rc[u]
           /\ \A k \in Line \ {cur(t)} : \/ fate'[k] = fate[k]
                                         \/ fate[k] = "queued" /\ fate'[k] = "dropped"
           /\ \/ call'[t] = "blocked" /\ fate'[cur(t)] = fate[cur(t)]
              \/ /\ call'[t] = "idle"
                 /\ \/ rc'[t] = "NOT_INITIALIZED" /\ fate'[cur(t)] = "refused"
                    \/ /\ rc'[t] # "NOT_INITIALIZED"
                       /\ fate'[cur(t)] \in {"queued", "dropped"}
<1>1. /\ pc[t] = "engine" /\ UNCHANGED <<pc, received>> /\ Enqueue(t)
      /\ call \in [Thread -> CallStates] /\ rc \in [Thread -> Codes]
      /\ fate \in [Line -> Fates] /\ cur(t) \in Line
  BY WriterHasLine DEF WriteEnqueue, At, coreVars, lineVars, WritePcs, CoreInv,
     EngineInv, TypeOK, CallTypeOK, HistoryTypeOK
<1>2. CASE EnqueueRefuse(t)
  BY <1>1, <1>2 DEF EnqueueRefuse, Return
<1>3. CASE EnqueueBlock(t)
  BY <1>1, <1>3 DEF EnqueueBlock
<1>4. CASE EnqueueDropNew(t) \/ EnqueueNoMemory(t)
  BY <1>1, <1>4 DEF EnqueueDropNew, EnqueueNoMemory, HasRoom, Return
<1>5. CASE EnqueuePush(t)
  BY <1>1, <1>5 DEF EnqueuePush, HasRoom, Return
<1>6. CASE EnqueueDropOld(t) \/ EnqueueDropOldNoMemory(t)
  <2>1. running /\ Full
    BY <1>6 DEF EnqueueDropOld, EnqueueDropOldNoMemory
  <2>2. count > 0
    BY <2>1 DEF Full, CoreInv, EngineInv, TypeOK, RingTypeOK, RingConsistent
  <2>3. fate[Oldest] = "queued" /\ Oldest \in Line
    BY <2>1, <2>2, OldestQueued DEF CoreInv, EngineInv
  <2> QED
    BY <1>1, <1>6, <2>3 DEF EnqueueDropOld, EnqueueDropOldNoMemory, Return
<1> QED
  BY <1>1, <1>2, <1>3, <1>4, <1>5, <1>6 DEF Enqueue

\* The engine's answer decides whether the line is still the thread's to write.
LEMMA EnqueueLines ==
    ASSUME CoreInv, NEW t \in Thread, WriteEnqueue(t)
    PROVE  LinesAgree'
<1>1. pc[t] = "engine" /\ pc' = pc /\ call[t] # "idle"
      /\ UNCHANGED <<sent, received>>
  BY EnqueueFates
<1>2. /\ cur(t) \in Line /\ LineAgrees(t) /\ Writing(t)
      /\ \A u \in Thread : cur(u) = cur(t) => u = t
  BY <1>1, WriterHasLine DEF WritePcs, Writing
<1>3. Unwritten(cur(t)) /\ fate[cur(t)] \in {"calling", "refused"}
  BY <1>2 DEF LineAgrees
<1>4. \A k \in Line : fate'[k] \in {"new", "queued"} => Unwritten(k)'
  <2>1. \A k \in Line : fate'[k] \in {"new", "queued"} => Unwritten(k)
    BY <1>3, EnqueueFates DEF CoreInv, LinesAgree
  <2> QED
    BY <1>1, <2>1 DEF Unwritten
<1>5. LineAgrees(t)'
  <2>1. cur(t)' = cur(t) /\ (Unwritten(cur(t)))' /\ sent'[t] > 0
    BY <1>1, <1>2, <1>3 DEF cur, Unwritten, LineAgrees, WritePcs
  <2> QED
    BY <1>1, <1>3, <2>1, EnqueueFates DEF LineAgrees, Writing, WritePcs, FallsBack
<1>6. ASSUME NEW u \in Thread \ {t} PROVE LineAgrees(u)'
  <2>1. pc[u] \in WritePcs => cur(u) \in Line /\ cur(u) # cur(t)
    BY <1>2, WriterHasLine
  <2>2. pc[u] \in WritePcs => Settles(cur(u))
    BY <1>1, <2>1, EnqueueFates DEF Settles
  <2> QED
    BY <1>1, <2>2, LineKept, EnqueueFates
<1> QED
  BY <1>4, <1>5, <1>6 DEF LinesAgree, LineAgrees

\* What the writing thread does with the engine's answer.
LEMMA ReturnedLines ==
    ASSUME CoreInv, NEW t \in Thread, WriteEngineReturned(t)
    PROVE  LinesAgree'
<1>1. /\ pc[t] = "engine" /\ UNCHANGED <<sent, fate, rc, received, call>>
      /\ \E q \in {"direct", "flush", "out"} :
            pc' = [pc EXCEPT ![t] = q] /\ (q = "direct" => FallsBack(t))
  BY DEF WriteEngineReturned, AfterWrite, At, Go, vars, callVars, lineVars
<1>2. /\ \A u \in Thread \ {t} : pc'[u] = pc[u]
      /\ pc'[t] \in {"direct", "flush", "out"}
      /\ pc'[t] = "direct" => Writing(t)
  BY <1>1 DEF CoreInv, CoreTypeOK, Writing
<1>3. \A k \in Line : fate'[k] \in {"new", "queued"} => Unwritten(k)'
  BY <1>1 DEF CoreInv, LinesAgree, Unwritten
<1>4. LineAgrees(t)'
  <2>1. LineAgrees(t) /\ cur(t)' = cur(t)
    BY <1>1, WriterHasLine DEF WritePcs, cur
  <2> QED
    BY <1>1, <1>2, <2>1 DEF LineAgrees, Writing, WritePcs, Unwritten
<1>5. ASSUME NEW u \in Thread \ {t} PROVE LineAgrees(u)'
  BY <1>1, <1>2, LineKept DEF Settles
<1> QED
  BY <1>3, <1>4, <1>5 DEF LinesAgree, LineAgrees

\* A line no sink had goes to each open sink once; the other lines stay.
LEMMA EmitOnce ==
    ASSUME CoreInv, NEW l \in Line, Unwritten(l), EmitToSinks(l)
    PROVE  /\ received' \in [Line -> [Sink -> Nat]]
           /\ \A k \in Line \ {l} : received'[k] = received[k]
           /\ \A s \in Sink : received'[l][s] = IF s \in sinks THEN 1 ELSE 0
<1> DEFINE add == [s \in Sink |-> IF s \in sinks THEN received[l][s] + 1
                                                ELSE received[l][s]]
<1>1. received \in [Line -> [Sink -> Nat]]
  BY DEF CoreInv, CoreTypeOK
<1>2. received' = [received EXCEPT ![l] = add]
  BY DEF EmitToSinks
<1>3. add \in [Sink -> Nat]
  BY <1>1
<1>4. \A s \in Sink : add[s] = IF s \in sinks THEN 1 ELSE 0
  BY DEF Unwritten
<1> HIDE DEF add
<1> QED
  BY <1>1, <1>2, <1>3, <1>4

\* A thread writes its line to the sinks itself.
LEMMA DirectLines ==
    ASSUME CoreInv, NEW t \in Thread, WriteDirect(t)
    PROVE  /\ LinesAgree'
           /\ cur(t) \in Line /\ Unwritten(cur(t))
<1>1. /\ pc[t] = "direct" /\ UNCHANGED <<sent, fate, rc, call>>
      /\ \E q \in {"flush", "out"} : pc' = [pc EXCEPT ![t] = q]
      /\ EmitToSinks(cur(t))
  BY DEF WriteDirect, AfterWrite, At, Go, vars, callVars
<1>2. /\ \A u \in Thread \ {t} : pc'[u] = pc[u]
      /\ pc'[t] \in {"flush", "out"}
  BY <1>1 DEF CoreInv, CoreTypeOK
<1>3. /\ cur(t) \in Line /\ LineAgrees(t) /\ Writing(t)
      /\ \A u \in Thread : cur(u) = cur(t) => u = t
  BY <1>1, WriterHasLine DEF WritePcs, Writing
<1>4. Unwritten(cur(t)) /\ fate[cur(t)] \in {"calling", "refused"}
  BY <1>3 DEF LineAgrees
<1>5. \A k \in Line \ {cur(t)} : received'[k] = received[k]
  BY <1>1, <1>3, <1>4, EmitOnce
<1>6. \A k \in Line : fate'[k] \in {"new", "queued"} => Unwritten(k)'
  <2> SUFFICES ASSUME NEW k \in Line, fate'[k] \in {"new", "queued"}
               PROVE  Unwritten(k)'
    OBVIOUS
  <2>1. k # cur(t) /\ Unwritten(k)
    BY <1>1, <1>4 DEF CoreInv, LinesAgree
  <2> QED
    BY <1>5, <2>1 DEF Unwritten
<1>7. LineAgrees(t)'
  BY <1>2 DEF LineAgrees, Writing, WritePcs
<1>8. ASSUME NEW u \in Thread \ {t} PROVE LineAgrees(u)'
  <2>1. pc[u] \in WritePcs => cur(u) \in Line /\ cur(u) # cur(t)
    BY <1>3, WriterHasLine
  <2> QED
    BY <1>1, <1>2, <1>5, <2>1, LineKept DEF Settles
<1> QED
  BY <1>3, <1>4, <1>6, <1>7, <1>8 DEF LinesAgree, LineAgrees

\* The worker hands over a queued line, to sinks that are open.
LEMMA WorkerHandsOver ==
    ASSUME CoreInv, WorkerEmit, EmitToSinks(scratch)
    PROVE  /\ scratch \in Line /\ fate[scratch] = "queued" /\ Unwritten(scratch)
           /\ fate' = [fate EXCEPT ![scratch] = "emitted"] /\ sinks # {}
           /\ \A k \in Line : Settles(k)
<1>1. wpc = "emit" /\ fate' = [fate EXCEPT ![scratch] = "emitted"]
  BY DEF WorkerEmit
<1>2. scratch \in Line /\ fate[scratch] = "queued"
  BY <1>1 DEF CoreInv, EngineInv, NothingLost, InFlight, WithFate
<1>3. Unwritten(scratch)
  BY <1>2 DEF CoreInv, LinesAgree
<1>4. sinks # {}
  BY <1>1 DEF CoreInv, SinksOpen, EngineInv, ThreadsAgree, PhasesAgree
<1>5. \A k \in Line : Settles(k)
  BY <1>1, <1>2, <1>3, EmitOnce
  DEF Settles, CoreInv, EngineInv, TypeOK, HistoryTypeOK
<1> QED
  BY <1>1, <1>2, <1>3, <1>4, <1>5

\* The worker skips or emits only queued lines, and wakes only waiting calls.
LEMMA WorkerLines ==
    ASSUME CoreInv, CoreWorker
    PROVE  LinesAgree'
<1>1. UNCHANGED <<pc, sent, rc>>
  BY DEF CoreWorker, coreVars, WorkerLoop, WorkerTick, WorkerTake, WorkerSkip,
     WorkerRelock, WorkerBatchEnd, WorkerEmit, WorkerSync, callVars
<1>2. \A t \in Thread : \/ call'[t] = call[t]
                        \/ call[t] = "blocked" /\ call'[t] = "woken"
  BY DEF CoreWorker, WorkerLoop, WorkerTick, WorkerTake, WorkerSkip, WorkerRelock,
     WorkerBatchEnd, WorkerEmit, WorkerSync, SignalNotFull, Blocked, callVars,
     CoreInv, EngineInv, TypeOK, CallTypeOK
<1>3. \A k \in Line : Settles(k)
  <2>1. CASE WorkerEmit /\ EmitToSinks(scratch)
    BY <2>1, WorkerHandsOver
  <2>2. CASE WorkerSkip /\ UNCHANGED coreVars
    <3>1. running /\ count > 0
      BY <2>2 DEF WorkerSkip, InBatch, CoreInv, EngineInv, ThreadsAgree, PhasesAgree
    <3>2. fate[Oldest] = "queued" /\ Oldest \in Line
      BY <3>1, OldestQueued DEF CoreInv, EngineInv
    <3> QED
      BY <2>2, <3>2 DEF WorkerSkip, Settles, coreVars, lineVars, CoreInv, EngineInv,
         TypeOK, HistoryTypeOK
  <2>3. CASE UNCHANGED <<fate, received>>
    BY <2>3 DEF Settles
  <2> QED
    BY <2>1, <2>2, <2>3 DEF CoreWorker, coreVars, lineVars, WorkerLoop, WorkerTick,
       WorkerTake, WorkerRelock, WorkerBatchEnd, WorkerSync, FlushSinks
<1> QED
  BY <1>1, <1>2, <1>3, LinesKept

\* A start forgets the statistics and a failed one orphans the ring; the
\* lines in calls stay with them.
LEMMA LifecycleLines ==
    ASSUME CoreInv, Lifecycle
    PROVE  /\ LinesAgree'
           /\ UNCHANGED received /\ \A k \in Line : fate'[k] = "emitted" => fate[k] = "emitted"
<1>1. UNCHANGED <<sent, rc, received>>
      /\ (\/ UNCHANGED <<fate, call>> \/ AsyncStart \/ StartFail \/ StopBegin)
  <2>1. CASE AdminCall
    BY <2>1 DEF AdminCall, InitBegin, ReconfigureBegin, ShutdownBegin, vars,
       callVars, lineVars
  <2>2. CASE InitSinks \/ InitPublish \/ ReconfigureMode \/ ReconfigureSwap
             \/ ReconfigurePublish \/ ShutdownClose
    BY <2>2 DEF InitSinks, InitPublish, ReconfigureMode, ReconfigureSwap,
       ReconfigurePublish, ShutdownClose, FlushSinks, vars, callVars, lineVars
  <2>3. CASE InitStart \/ ReconfigureStart
    BY <2>3 DEF InitStart, ReconfigureStart, StartEngine, AsyncStart, vars,
       callVars, lineVars
  <2>4. CASE InitStarted \/ ReconfigureStarted
    BY <2>4 DEF InitStarted, ReconfigureStarted, EngineStarted, StartThread,
       StartFail, callVars, lineVars
  <2>5. CASE ReconfigureStop \/ ShutdownStop \/ ReconfigureStopped \/ ShutdownStopped
    BY <2>5 DEF ReconfigureStop, ShutdownStop, StopEngine, StopBegin,
       ReconfigureStopped, ShutdownStopped, EngineStopped, StopDetach, vars,
       callVars, lineVars
  <2> QED
    BY <2>1, <2>2, <2>3, <2>4, <2>5 DEF Lifecycle, AdminStep
<1>2. \A t \in Thread : pc'[t] \in WritePcs => pc'[t] = pc[t]
  <2>1. pc'[Admin] \notin WritePcs
    BY LifecycleSteps DEF WritePcs, AdminPcs
  <2> QED
    BY <2>1, LifecycleSteps DEF Producer
<1>3. \A t \in Thread : call'[t] = "idle" <=> call[t] = "idle"
  BY <1>1 DEF AsyncStart, StartFail, StopBegin, BroadcastNotFull, callVars, CoreInv,
     EngineInv, TypeOK, CallTypeOK
<1>4. \A k \in Line : /\ Settles(k)
                      /\ fate'[k] = "emitted" => fate[k] = "emitted"
  <2>1. CASE AsyncStart
    BY <1>1, <2>1 DEF AsyncStart, Settles
  <2>2. CASE StartFail
    <3>1. \A k \in InRing : fate[k] = "queued"
      BY DEF CoreInv, EngineInv, NothingLost, WithFate
    <3> QED
      BY <1>1, <2>2, <3>1 DEF StartFail, Settles
  <2>3. CASE UNCHANGED fate
    BY <1>1, <2>3 DEF Settles
  <2> QED
    BY <1>1, <2>1, <2>2, <2>3 DEF StopBegin
<1> QED
  BY <1>1, <1>2, <1>3, <1>4, LinesKept

\* The steps of a flush, and those that touch no line at all.
LEMMA QuietLines ==
    ASSUME CoreInv, NEW t \in Thread,
           \/ FlushCall(t) \/ AddCallbackSink(t) \/ Flush(t) \/ CoreWakeup(t)
    PROVE  LinesAgree' /\ UNCHANGED <<fate, received>>
<1>1. UNCHANGED <<sent, rc, fate, received>>
  BY DEF FlushCall, AddCallbackSink, Flush, FlushReadFlags, FlushEngine, AsyncFlush,
     FlushEngineReturn, FlushReturn, FlushEngineReturned, FlushSinksStep, FlushSinks,
     CoreWakeup, SpuriousWakeup, vars, callVars, coreVars, lineVars
<1>2. pc' = pc \/ \E q \in {"out", "r_mode"} \cup FlushPcs : pc' = [pc EXCEPT ![t] = q]
  BY DEF FlushCall, AddCallbackSink, Flush, FlushReadFlags, FlushEngine,
     FlushEngineReturn, FlushEngineReturned, FlushSinksStep, AfterFlush,
     CoreWakeup, FlushPcs, Go, coreVars
<1>3. \A u \in Thread : pc'[u] \in WritePcs => pc'[u] = pc[u]
  BY <1>2 DEF CoreInv, CoreTypeOK, WritePcs, FlushPcs
<1>4. \A u \in Thread : pc[u] \in WritePcs => (call'[u] = "idle" <=> call[u] = "idle")
  <2>1. \A u \in Thread \ {t} : call'[u] = call[u]
    BY DEF FlushCall, AddCallbackSink, Flush, FlushReadFlags, FlushEngine, AsyncFlush,
       FlushEngineReturn, FlushReturn, FlushEngineReturned, FlushSinksStep,
       CoreWakeup, SpuriousWakeup, vars, callVars, CoreInv, EngineInv, TypeOK,
       CallTypeOK
  <2>2. CASE CoreWakeup(t)
    BY <2>1, <2>2 DEF CoreWakeup, SpuriousWakeup, CoreInv, EngineInv, TypeOK,
       CallTypeOK
  <2>3. CASE ~CoreWakeup(t)
    <3>1. pc[t] \notin WritePcs \/ call' = call
      BY <2>3 DEF FlushCall, AddCallbackSink, Flush, FlushReadFlags, FlushEngine,
         FlushEngineReturn, FlushEngineReturned, FlushSinksStep, At, WritePcs, vars,
         callVars
    <3> QED
      BY <2>1, <3>1
  <2> QED
    BY <2>2, <2>3
<1> QED
  BY <1>1, <1>3, <1>4, LinesKept DEF Settles

\* Every step leaves each line with the one thread, queue or sinks that have it.
LEMMA CoreLinesStep ==
    ASSUME CoreInv, [CoreNext]_allVars
    PROVE  LinesAgree'
<1>1. CASE CoreTerminated \/ UNCHANGED allVars
  <2>1. UNCHANGED <<sent, rc, fate, received, pc, call>>
    BY <1>1 DEF CoreTerminated, allVars, vars, callVars, coreVars, lineVars
  <2> QED
    BY <2>1, LinesKept DEF Settles
<1> QED
  BY <1>1, BeginLines, ModeLines, EnqueueLines, ReturnedLines, DirectLines,
     WorkerLines, LifecycleLines, QuietLines
  DEF CoreNext, Lifecycle, Write

-----------------------------------------------------------------------------
(***************************************************************************)
(* What reaches the sinks.                                                 *)
(***************************************************************************)

\* A step reaches the sinks with at most one line, which no sink had; only
\* the worker, with a sink open, marks a line emitted.
LEMMA ReceivedStep ==
    ASSUME CoreInv, [CoreNext]_allVars
    PROVE  \/ /\ received' = received
              /\ \A k \in Line : fate'[k] = "emitted" => fate[k] = "emitted"
           \/ \E l \in Line :
                 /\ Unwritten(l) /\ EmitToSinks(l)
                 /\ \A k \in Line : fate'[k] = "emitted"
                       => fate[k] = "emitted" \/ (k = l /\ sinks # {})
<1>1. ASSUME NEW t \in Thread, WriteBegin(t) \/ WriteReadMode(t)
                                 \/ WriteEngineReturned(t)
      PROVE  /\ received' = received
             /\ \A k \in Line : fate'[k] = "emitted" => fate[k] = "emitted"
  BY <1>1 DEF WriteBegin, WriteReadMode, WriteEngineReturned, vars, lineVars,
     CoreInv, EngineInv, TypeOK, HistoryTypeOK
<1>2. ASSUME NEW t \in Thread, WriteEnqueue(t)
      PROVE  /\ received' = received
             /\ \A k \in Line : fate'[k] = "emitted" => fate[k] = "emitted"
  BY <1>2, EnqueueFates
<1>3. ASSUME NEW t \in Thread, WriteDirect(t)
      PROVE  /\ cur(t) \in Line /\ Unwritten(cur(t)) /\ EmitToSinks(cur(t))
             /\ fate' = fate
  BY <1>3, DirectLines DEF WriteDirect, vars
<1>4. CASE CoreWorker
  <2>1. CASE WorkerEmit /\ EmitToSinks(scratch)
    BY <2>1, WorkerHandsOver DEF CoreInv, EngineInv, TypeOK, HistoryTypeOK
  <2>2. CASE ~WorkerEmit
    BY <1>4, <2>2 DEF CoreWorker, coreVars, lineVars, WorkerLoop, WorkerTick,
       WorkerTake, WorkerSkip, WorkerRelock, WorkerBatchEnd, WorkerSync, FlushSinks,
       CoreInv, EngineInv, TypeOK, HistoryTypeOK
  <2>3. CASE WorkerEmit /\ ~EmitToSinks(scratch)
    <3>1. wpc = "emit" /\ wpc' = "relock"
      BY <2>3 DEF WorkerEmit
    <3> QED
      BY <1>4, <2>3, <3>1 DEF CoreWorker, WorkerLoop, WorkerTick, WorkerTake,
         WorkerSkip, InBatch, WorkerRelock, WorkerBatchEnd, WorkerSync
  <2> QED
    BY <2>1, <2>2, <2>3
<1>5. CASE CoreTerminated \/ UNCHANGED allVars
  BY <1>5 DEF CoreTerminated, allVars, vars, coreVars, lineVars
<1> QED
  BY <1>1, <1>2, <1>3, <1>4, <1>5, LifecycleLines, QuietLines
  DEF CoreNext, Lifecycle, Write

\* Every step leaves a line at most once in each sink, and what the worker
\* delivered in at least one.
LEMMA DeliveredStep ==
    ASSUME CoreInv, [CoreNext]_allVars
    PROVE  Delivered'
<1>1. /\ NoDoubleDelivery /\ DrainReachesSinks
      /\ received \in [Line -> [Sink -> Nat]] /\ sinks \subseteq Sink
  BY DEF CoreInv, Delivered, CoreTypeOK
<1>2. CASE /\ received' = received
           /\ \A k \in Line : fate'[k] = "emitted" => fate[k] = "emitted"
  BY <1>1, <1>2 DEF Delivered, NoDoubleDelivery, DrainReachesSinks, Reached
<1>3. ASSUME NEW l \in Line, Unwritten(l), EmitToSinks(l),
             \A k \in Line : fate'[k] = "emitted"
                => fate[k] = "emitted" \/ (k = l /\ sinks # {})
      PROVE  Delivered'
  <2>1. /\ \A k \in Line \ {l} : received'[k] = received[k]
        /\ \A s \in Sink : received'[l][s] = IF s \in sinks THEN 1 ELSE 0
    BY <1>3, EmitOnce
  <2>2. NoDoubleDelivery'
    BY <1>1, <2>1 DEF NoDoubleDelivery
  <2>3. ASSUME NEW k \in Line, fate'[k] = "emitted" PROVE Reached(k)'
    <3>1. CASE k = l /\ sinks # {}
      BY <1>1, <2>1, <3>1 DEF Reached
    <3>2. CASE fate[k] = "emitted"
      <4>1. Reached(k)
        BY <1>1, <3>2 DEF DrainReachesSinks
      <4>2. k # l
        BY <1>3, <4>1 DEF Unwritten, Reached
      <4> QED
        BY <2>1, <4>1, <4>2 DEF Reached
    <3> QED
      BY <1>3, <2>3, <3>1, <3>2
  <2> QED
    BY <2>2, <2>3 DEF Delivered, DrainReachesSinks
<1> QED
  BY <1>2, <1>3, ReceivedStep

-----------------------------------------------------------------------------
(***************************************************************************)
(* Type correctness of the core, the sinks and the lines counted.          *)
(***************************************************************************)
StateTypeOK == /\ initialized \in BOOLEAN
               /\ mode \in Mode /\ want \in Mode /\ sinks \subseteq Sink
LineTypeOK  == /\ written_lines \in Nat /\ buffered \subseteq Line
               /\ received \in [Line -> [Sink -> Nat]]
PlaceTypeOK == /\ pc \in [Thread -> {"out"} \cup WritePcs \cup FlushPcs \cup AdminPcs]
               /\ ops \in [AdminOps -> Nat]

\* initialized stays a flag.
LEMMA InitializedStep ==
    ASSUME CoreInv, [CoreNext]_allVars
    PROVE  initialized' \in BOOLEAN
<1>1. initialized \in BOOLEAN
  BY DEF CoreInv, CoreTypeOK
<1>2. CASE ~Lifecycle
  <2>1. initialized' = initialized
    BY <1>2, OrdinarySteps
  <2> QED
    BY <1>1, <2>1
<1>3. CASE Lifecycle
  <2>1. initialized' = initialized \/ initialized' = TRUE \/ initialized' = FALSE
    BY <1>3 DEF Lifecycle, AdminStep, AdminCall, InitBegin, ReconfigureBegin,
       ShutdownBegin, InitSinks, InitPublish, ReconfigureMode, ReconfigureSwap,
       ReconfigurePublish, ShutdownClose, InitStart, ReconfigureStart, StartEngine,
       InitStarted, ReconfigureStarted, EngineStarted, ReconfigureStop,
       ShutdownStop, StopEngine, ReconfigureStopped, ShutdownStopped, EngineStopped,
       stateVars
  <2> QED
    BY <1>1, <2>1
<1> QED
  BY <1>2, <1>3

\* Types of the variables of init, shutdown and the mode.
LEMMA StateTypeStep ==
    ASSUME CoreInv, [CoreNext]_allVars
    PROVE  StateTypeOK'
<1>1. mode \in Mode /\ want \in Mode /\ sinks \subseteq Sink
  BY DEF CoreInv, CoreTypeOK
<1>2. mode' \in Mode /\ want' \in Mode
  <2>1. CASE ~Lifecycle
    BY <1>1, <2>1, OrdinarySteps
  <2>2. CASE Lifecycle
    <3>1. (mode' = mode \/ mode' = "SYNC" \/ mode' = "ASYNC" \/ mode' \in Mode)
          /\ (want' = want \/ want' \in Mode)
      BY <2>2 DEF Lifecycle, AdminStep, AdminCall, InitBegin, ReconfigureBegin,
         ShutdownBegin, InitSinks, InitPublish, ReconfigureMode, ReconfigureSwap,
         ReconfigurePublish, ShutdownClose, InitStart, ReconfigureStart, StartEngine,
         InitStarted, ReconfigureStarted, EngineStarted, ReconfigureStop,
         ShutdownStop, StopEngine, ReconfigureStopped, ShutdownStopped,
         EngineStopped, stateVars
    <3> QED
      BY <1>1, <3>1 DEF Mode
  <2> QED
    BY <2>1, <2>2
<1>3. sinks' \subseteq Sink
  <2>1. CASE Lifecycle
    <3>1. \/ sinks' = sinks \/ sinks' = {} \/ sinks' = sinks \cup {"file"}
          \/ sinks' = (sinks \cap {"cb"}) \cup {"file"}
      BY <2>1 DEF Lifecycle, AdminStep, AdminCall, InitBegin, ReconfigureBegin,
         ShutdownBegin, InitSinks, InitPublish, ReconfigureMode, ReconfigureSwap,
         ReconfigurePublish, ShutdownClose, InitStart, ReconfigureStart, StartEngine,
         InitStarted, ReconfigureStarted, EngineStarted, ReconfigureStop,
         ShutdownStop, StopEngine, ReconfigureStopped, ShutdownStopped,
         EngineStopped, stateVars
    <3> QED
      BY <1>1, <3>1 DEF Sink
  <2>2. CASE ~Lifecycle
    <3>1. sinks' = sinks \/ sinks' = sinks \cup {"cb"}
      BY <2>2 DEF CoreNext, Lifecycle, Write, WriteBegin, WriteReadMode, WriteEnqueue,
         WriteEngineReturned, WriteDirect, FlushCall, AddCallbackSink, Flush,
         FlushReadFlags, FlushEngine, FlushEngineReturn, FlushEngineReturned,
         FlushSinksStep, CoreWakeup, CoreWorker, CoreTerminated, stateVars, coreVars,
         allVars
    <3> QED
      BY <1>1, <3>1 DEF Sink
  <2> QED
    BY <2>1, <2>2
<1> QED
  BY <1>2, <1>3, InitializedStep DEF StateTypeOK

\* Types of the variables of the lines.
LEMMA LineTypeStep ==
    ASSUME CoreInv, [CoreNext]_allVars
    PROVE  LineTypeOK'
<1>1. LineTypeOK
  BY DEF CoreInv, CoreTypeOK, LineTypeOK
<1>2. \/ UNCHANGED <<written_lines, buffered>> \/ FlushSinks
      \/ \E l \in Line : EmitToSinks(l)
  <2>1. CASE Lifecycle
    BY <2>1 DEF Lifecycle, AdminStep, AdminCall, InitBegin, ReconfigureBegin,
       ShutdownBegin, InitSinks, InitPublish, ReconfigureMode, ReconfigureSwap,
       ReconfigurePublish, ShutdownClose, InitStart, ReconfigureStart, StartEngine,
       InitStarted, ReconfigureStarted, EngineStarted, ReconfigureStop,
       ShutdownStop, StopEngine, ReconfigureStopped, ShutdownStopped,
       EngineStopped, lineVars
  <2>2. CASE CoreWorker
    BY <2>2, WorkerHandsOver DEF CoreWorker, coreVars, lineVars
  <2>3. ASSUME NEW t \in Thread, WriteDirect(t)
        PROVE  \E l \in Line : EmitToSinks(l)
    BY <2>3, DirectLines DEF WriteDirect
  <2>4. ASSUME NEW t \in Thread,
               \/ WriteBegin(t) \/ WriteReadMode(t) \/ WriteEnqueue(t)
               \/ WriteEngineReturned(t) \/ FlushCall(t) \/ AddCallbackSink(t)
               \/ Flush(t) \/ CoreWakeup(t)
        PROVE  UNCHANGED <<written_lines, buffered>> \/ FlushSinks
    BY <2>4 DEF WriteBegin, WriteReadMode, WriteEnqueue, WriteEngineReturned, FlushCall,
       AddCallbackSink, Flush, FlushReadFlags, FlushEngine, FlushEngineReturn,
       FlushEngineReturned, FlushSinksStep, CoreWakeup, coreVars, lineVars
  <2>5. CASE CoreTerminated \/ UNCHANGED allVars
    BY <2>5 DEF CoreTerminated, allVars, coreVars, lineVars
  <2> QED
    BY <2>1, <2>2, <2>3, <2>4, <2>5 DEF CoreNext, Lifecycle, Write
<1>3. written_lines' \in Nat /\ buffered' \subseteq Line
  BY <1>1, <1>2 DEF LineTypeOK, FlushSinks, EmitToSinks
<1>4. received' \in [Line -> [Sink -> Nat]]
  BY <1>1, EmitOnce, ReceivedStep DEF LineTypeOK
<1> QED
  BY <1>3, <1>4 DEF LineTypeOK

\* Types of the places of the threads.
LEMMA PlaceTypeStep ==
    ASSUME CoreInv, [CoreNext]_allVars
    PROVE  PlaceTypeOK'
<1>1. PlaceTypeOK
  BY DEF CoreInv, CoreTypeOK, PlaceTypeOK
<1> USE DEF PlaceTypeOK
<1>2. pc' \in [Thread -> {"out"} \cup WritePcs \cup FlushPcs \cup AdminPcs]
  <2>1. CASE Lifecycle
    BY <2>1, LifecycleSteps DEF FlushPcs
  <2>2. ASSUME NEW t \in Thread,
               \/ WriteBegin(t) \/ Write(t) \/ FlushCall(t) \/ AddCallbackSink(t)
               \/ Flush(t) \/ CoreWakeup(t)
        PROVE  pc' = pc \/ \E q \in {"out", "r_mode"} \cup WritePcs \cup FlushPcs :
                              pc' = [pc EXCEPT ![t] = q]
    BY <2>2 DEF WriteBegin, Write, WriteReadMode, WriteEnqueue, WriteEngineReturned,
       WriteDirect, AfterWrite, FlushCall, AddCallbackSink, Flush, FlushReadFlags,
       FlushEngine, FlushEngineReturn, FlushEngineReturned, FlushSinksStep,
       AfterFlush, CoreWakeup, Go, WritePcs, FlushPcs, coreVars
  <2>3. CASE CoreWorker \/ CoreTerminated \/ UNCHANGED allVars
    BY <1>1, <2>3 DEF CoreWorker, CoreTerminated, allVars, coreVars
  <2> QED
    BY <1>1, <2>1, <2>2, <2>3 DEF CoreNext, Lifecycle, AdminPcs
<1>3. ops' \in [AdminOps -> Nat]
  <2>1. ops' = ops \/ \E o \in AdminOps : ops' = [ops EXCEPT ![o] = @ + 1]
    <3>1. CASE AdminCall
      BY <3>1 DEF AdminCall, InitBegin, ReconfigureBegin, ShutdownBegin, BeginOp,
         AdminOps
    <3>2. CASE AdminStep
      BY <3>2 DEF AdminStep, InitSinks, InitPublish, ReconfigureMode, ReconfigureSwap,
         ReconfigurePublish, ShutdownClose, InitStart, ReconfigureStart, StartEngine,
         InitStarted, ReconfigureStarted, EngineStarted, ReconfigureStop,
         ShutdownStop, StopEngine, ReconfigureStopped, ShutdownStopped,
         EngineStopped
    <3>3. CASE ~Lifecycle
      BY <3>3 DEF CoreNext, Lifecycle, Write, WriteBegin, WriteReadMode, WriteEnqueue,
         WriteEngineReturned, WriteDirect, FlushCall, AddCallbackSink, Flush,
         FlushReadFlags, FlushEngine, FlushEngineReturn, FlushEngineReturned,
         FlushSinksStep, CoreWakeup, CoreWorker, CoreTerminated, coreVars,
         allVars, AdminOps
    <3> QED
      BY <3>1, <3>2, <3>3 DEF Lifecycle
  <2> QED
    BY <1>1, <2>1
<1> QED
  BY <1>2, <1>3

-----------------------------------------------------------------------------
(***************************************************************************)
(* The invariant of the core, and what it means for the sinks.             *)
(***************************************************************************)
LEMMA CoreInvInit == CoreInit => CoreInv
<1> SUFFICES ASSUME CoreInit PROVE CoreInv
  OBVIOUS
<1> USE DEF CoreInit
<1>1. EngineInv
  BY EngineInvInit
<1>2. CoreTypeOK
  BY <1>1 DEF CoreTypeOK, EngineInv, Mode, AdminOps
<1>3. PcsAgree /\ CallsAgree
  BY AdminAssumption
  DEF PcsAgree, CallsAgree, Held, Init, Producer, FlushPcs, AdminPcs
<1>4. LifecycleAgrees /\ EngineDown /\ SinksOpen
  BY AdminAssumption DEF Init, LifecycleAgrees, PublishedModeHasEngine, EngineDown,
     SinksOpen, Downs, Swaps, FlushPcs
<1>5. LinesAgree
  BY DEF LinesAgree, Writing, WritePcs, Unwritten
<1>6. Delivered
  BY DEF Init, Delivered, NoDoubleDelivery, DrainReachesSinks
<1> QED
  BY <1>1, <1>2, <1>3, <1>4, <1>5, <1>6 DEF CoreInv

\* Every step keeps the inductive invariant.
LEMMA CoreInvStep == CoreInv /\ [CoreNext]_allVars => CoreInv'
<1> SUFFICES ASSUME CoreInv, [CoreNext]_allVars PROVE CoreInv'
  OBVIOUS
<1>1. EngineInv'
  BY CoreEngineStep
<1>2. CoreTypeOK'
  BY <1>1, StateTypeStep, LineTypeStep, PlaceTypeStep
  DEF CoreTypeOK, EngineInv, StateTypeOK, LineTypeOK, PlaceTypeOK
<1>3. PcsAgree' /\ CallsAgree'
  BY PcsStep, CoreCallsStep
<1>4. LifecycleAgrees' /\ EngineDown' /\ SinksOpen'
  BY PhasesKept DEF Phases
<1>5. LinesAgree' /\ Delivered'
  BY CoreLinesStep, DeliveredStep
<1> QED
  BY <1>1, <1>2, <1>3, <1>4, <1>5 DEF CoreInv

\* The inductive invariant holds in every state of the core.
THEOREM CoreInvariant == CoreSpec => []CoreInv
BY CoreInvInit, CoreInvStep, PTL DEF CoreSpec

\* Type correctness of the core (g_core, the sink table and the threads).
THEOREM CoreTypeCorrect == CoreSpec => []CoreTypeOK
<1>1. CoreInv => CoreTypeOK
  BY DEF CoreInv
<1> QED
  BY <1>1, CoreInvariant, PTL

\* Whoever finds the library initialized in asynchronous mode finds a live
\* engine, in any interleaving of init, reconfigure, shutdown and logging.
THEOREM PublishedModeIsLive == CoreSpec => []PublishedModeHasEngine
<1>1. CoreInv => PublishedModeHasEngine
  BY DEF CoreInv, LifecycleAgrees
<1> QED
  BY <1>1, CoreInvariant, PTL

\* No line reaches a sink twice, although a line the engine refused is written
\* by its caller (core_dispatch_line).
THEOREM NoLineTwice == CoreSpec => []NoDoubleDelivery
<1>1. CoreInv => NoDoubleDelivery
  BY DEF CoreInv, Delivered
<1> QED
  BY <1>1, CoreInvariant, PTL

\* Every line the worker delivers finds a sink open: shutdown and reconfigure
\* drain the queue before they close a file.
THEOREM DrainFindsSinks == CoreSpec => []DrainReachesSinks
<1>1. CoreInv => DrainReachesSinks
  BY DEF CoreInv, Delivered
<1> QED
  BY <1>1, CoreInvariant, PTL

\* Composed with the core, the engine keeps its promises: no accepted line is
\* lost or duplicated in it, and a stop drains it.
THEOREM EngineKeepsItsPromises == CoreSpec => [](NothingLost /\ StopDrains)
<1>1. CoreInv => NothingLost /\ StopDrains
  <2> SUFFICES ASSUME CoreInv PROVE NothingLost /\ StopDrains
    OBVIOUS
  <2>1. EngineInv
    BY DEF CoreInv
  <2>2. StopDrains
    BY <2>1, EmptyContent
    DEF EngineInv, ThreadsAgree, PhasesAgree, StopDrains, NothingLost, InFlight
  <2> QED
    BY <2>1, <2>2 DEF EngineInv
<1> QED
  BY <1>1, CoreInvariant, PTL

-----------------------------------------------------------------------------
(***************************************************************************)
(* Reconfiguring loses nothing.                                            *)
(***************************************************************************)

\* No engine start failed and nobody forked: a ring was never abandoned.
NothingAbandoned == \A l \in Line : fate[l] \notin {"orphaned", "parent"}

\* A thread's lines are new until it logs them.
OldLinesKnown ==
    \A t \in Thread : \A n \in 1..MaxLines : n <= sent[t] => fate[<<t, n>>] # "new"

\* Until a shutdown begins, the library stays initialized once a line was
\* logged, and every line whose call returned is accounted for.
Lossless ==
    ops["shutdown"] = 0 =>
       /\ pc[Admin] \notin {"s_stop", "s_join", "s_close"}
       /\ \A t \in Thread : sent[t] > 0 => initialized
       /\ \A l \in Line : ~Lost(l)

LossInv == NothingAbandoned /\ OldLinesKnown /\ Lossless

\* What a step of the core can make of a line.
LEMMA FateMoves ==
    ASSUME CoreInv, [CoreNext]_allVars, ~ThreadMayFail, NEW l \in Line
    PROVE  \/ fate'[l] = fate[l]
           \/ fate'[l] \in {"calling", "refused", "queued", "dropped"}
                 /\ fate[l] \in {"new", "calling", "refused"}
           \/ fate[l] = "queued" /\ fate'[l] \in {"emitted", "dropped"}
           \/ fate[l] = "dropped" /\ fate'[l] = "forgotten"
<1>1. fate \in [Line -> Fates]
  BY DEF CoreInv, EngineInv, TypeOK, HistoryTypeOK
<1>2. ASSUME NEW t \in Thread, WriteBegin(t)
      PROVE  fate'[l] = fate[l] \/ (fate[l] = "new" /\ fate'[l] = "calling")
  <2>1. fate' = [fate EXCEPT ![<<t, sent[t] + 1>>] = "calling"]
        /\ sent[t] < MaxLines /\ sent[t] \in 0..MaxLines
    BY <1>2 DEF WriteBegin, CoreInv, EngineInv, TypeOK, CallTypeOK
  <2>2. sent[t] + 1 \in 1..MaxLines /\ sent[t] + 1 > sent[t]
    BY <2>1, MaxLinesAssumption
  <2>3. fate[<<t, sent[t] + 1>>] = "new"
    BY <2>2 DEF CoreInv, EngineInv, ThreadsAgree, CallsHoldLines
  <2> QED
    BY <1>1, <2>1, <2>3
<1>3. ASSUME NEW t \in Thread, WriteEnqueue(t)
      PROVE  \/ fate'[l] = fate[l]
             \/ fate'[l] \in {"refused", "queued", "dropped"}
                  /\ fate[l] \in {"calling", "refused"}
             \/ fate[l] = "queued" /\ fate'[l] = "dropped"
  <2>1. pc[t] = "engine" /\ Writing(t)
    BY <1>3, EnqueueFates DEF Writing
  <2>2. fate[cur(t)] \in {"calling", "refused"}
    BY <2>1, WriterHasLine DEF LineAgrees, WritePcs
  <2> QED
    BY <1>3, <2>2, EnqueueFates
<1>4. ASSUME NEW t \in Thread,
             WriteReadMode(t) \/ WriteEngineReturned(t) \/ WriteDirect(t)
      PROVE  fate'[l] = fate[l]
  BY <1>4 DEF WriteReadMode, WriteEngineReturned, WriteDirect, vars
<1>5. CASE CoreWorker
  <2>1. CASE WorkerEmit
    <3>1. fate' = [fate EXCEPT ![scratch] = "emitted"] /\ wpc = "emit"
      BY <2>1 DEF WorkerEmit
    <3>2. fate[scratch] = "queued"
      BY <3>1 DEF CoreInv, EngineInv, NothingLost, InFlight, WithFate
    <3> QED
      BY <1>1, <3>1, <3>2
  <2>2. CASE WorkerSkip
    <3>1. running /\ count > 0
      BY <2>2 DEF WorkerSkip, InBatch, CoreInv, EngineInv, ThreadsAgree, PhasesAgree
    <3>2. fate[Oldest] = "queued"
      BY <3>1, OldestQueued DEF CoreInv, EngineInv
    <3> QED
      BY <1>1, <2>2, <3>2 DEF WorkerSkip
  <2> QED
    BY <1>5, <2>1, <2>2 DEF CoreWorker, WorkerLoop, WorkerTick, WorkerTake,
       WorkerRelock, WorkerBatchEnd, WorkerSync
<1>6. CASE Lifecycle
  <2>1. fate' = fate \/ AsyncStart
    BY <1>6 DEF Lifecycle, AdminStep, AdminCall, InitBegin, ReconfigureBegin,
       ShutdownBegin, InitSinks, InitPublish, ReconfigureMode, ReconfigureSwap,
       ReconfigurePublish, ShutdownClose, InitStart, ReconfigureStart, StartEngine,
       InitStarted, ReconfigureStarted, EngineStarted, StartThread, StartFail,
       ReconfigureStop, ShutdownStop, StopEngine, StopBegin, ReconfigureStopped,
       ShutdownStopped, EngineStopped, StopDetach, vars
  <2> QED
    BY <2>1 DEF AsyncStart
<1>7. CASE CoreTerminated \/ UNCHANGED allVars
  BY <1>7 DEF CoreTerminated, allVars, vars
<1> QED
  BY <1>2, <1>3, <1>4, <1>5, <1>6, <1>7, QuietLines DEF CoreNext, Lifecycle, Write

\* Only the steps that begin and end a write change whether a thread is in one.
LEMMA WritesStay ==
    ASSUME CoreInv, [CoreNext]_allVars,
           \A t \in Thread : ~(\/ WriteBegin(t) \/ WriteDirect(t)
                               \/ (WriteEngineReturned(t) /\ ~FallsBack(t)))
    PROVE  /\ sent' = sent
           /\ \A u \in Thread : pc'[u] \in WritePcs <=> pc[u] \in WritePcs
<1>1. pc \in [Thread -> {"out"} \cup WritePcs \cup FlushPcs \cup AdminPcs]
  BY DEF CoreInv, CoreTypeOK
<1>2. ASSUME NEW t \in Thread, WriteReadMode(t)
      PROVE  /\ sent' = sent
             /\ \A u \in Thread : pc'[u] \in WritePcs <=> pc[u] \in WritePcs
  BY <1>1, <1>2 DEF WriteReadMode, WritePcs, At, Go
<1>3. ASSUME NEW t \in Thread, WriteEnqueue(t) PROVE sent' = sent /\ pc' = pc
  BY <1>3, EnqueueFates
<1>4. ASSUME NEW t \in Thread, WriteEngineReturned(t)
      PROVE  /\ sent' = sent
             /\ \A u \in Thread : pc'[u] \in WritePcs <=> pc[u] \in WritePcs
  BY <1>1, <1>4 DEF WriteEngineReturned, WritePcs, At, Go, vars, callVars
<1>5. ASSUME NEW t \in Thread,
             \/ FlushCall(t) \/ AddCallbackSink(t) \/ Flush(t) \/ CoreWakeup(t)
      PROVE  /\ sent' = sent
             /\ \A u \in Thread : pc'[u] \in WritePcs <=> pc[u] \in WritePcs
  <2>1. sent' = sent
    BY <1>5 DEF FlushCall, AddCallbackSink, Flush, FlushReadFlags, FlushEngine,
       AsyncFlush, FlushEngineReturn, FlushReturn, FlushEngineReturned,
       FlushSinksStep, CoreWakeup, SpuriousWakeup, vars, callVars
  <2>2. pc' = pc \/ (/\ pc[t] \in {"out"} \cup FlushPcs
                     /\ \E q \in {"out", "r_mode"} \cup FlushPcs :
                           pc' = [pc EXCEPT ![t] = q])
    BY <1>5 DEF FlushCall, AddCallbackSink, Flush, FlushReadFlags, FlushEngine,
       FlushEngineReturn, FlushEngineReturned, FlushSinksStep, AfterFlush,
       CoreWakeup, At, Go, FlushPcs, coreVars
  <2> QED
    BY <1>1, <2>1, <2>2 DEF WritePcs, FlushPcs
<1>6. CASE Lifecycle
  <2>1. sent' = sent
    BY <1>6 DEF Lifecycle, AdminStep, AdminCall, InitBegin, ReconfigureBegin,
       ShutdownBegin, InitSinks, InitPublish, ReconfigureMode, ReconfigureSwap,
       ReconfigurePublish, ShutdownClose, InitStart, ReconfigureStart, StartEngine,
       AsyncStart, InitStarted, ReconfigureStarted, EngineStarted, StartThread,
       StartFail, ReconfigureStop, ShutdownStop, StopEngine, StopBegin,
       ReconfigureStopped, ShutdownStopped, EngineStopped, StopDetach, vars, callVars
  <2>2. pc'[Admin] \notin WritePcs /\ pc[Admin] \notin WritePcs
    BY <1>6, LifecycleSteps DEF WritePcs, AdminPcs
  <2> QED
    BY <1>6, <2>1, <2>2, LifecycleSteps DEF Producer
<1>7. CASE CoreWorker \/ CoreTerminated \/ UNCHANGED allVars
  BY <1>7 DEF CoreWorker, WorkerLoop, WorkerTick, WorkerTake, WorkerSkip, WorkerRelock,
     WorkerBatchEnd, WorkerEmit, WorkerSync, CoreTerminated, allVars, coreVars, vars,
     callVars
<1> QED
  BY <1>2, <1>3, <1>4, <1>5, <1>6, <1>7 DEF CoreNext, Lifecycle, Write

\* A line that reached a sink stays there.
LEMMA ReachedStays ==
    ASSUME CoreInv, [CoreNext]_allVars, NEW l \in Line, Reached(l)
    PROVE  Reached(l)'
<1>1. CASE received' = received
  BY <1>1 DEF Reached
<1>2. ASSUME NEW k \in Line, Unwritten(k), EmitToSinks(k) PROVE Reached(l)'
  <2>1. k # l
    BY <1>2 DEF Unwritten, Reached, CoreInv, CoreTypeOK
  <2> QED
    BY <1>2, <2>1, EmitOnce DEF Reached
<1> QED
  BY <1>1, <1>2, ReceivedStep

\* Until a shutdown begins, nothing takes the library down.
LEMMA StaysInitialized ==
    ASSUME CoreInv, LossInv, [CoreNext]_allVars, ops'["shutdown"] = 0
    PROVE  /\ ops["shutdown"] = 0
           /\ pc'[Admin] \notin {"s_stop", "s_join", "s_close"}
           /\ initialized => initialized'
           /\ \A t \in Thread : sent'[t] > 0 => initialized'
<1>1. ops \in [AdminOps -> Nat] /\ Admin \in Thread
      /\ pc \in [Thread -> {"out"} \cup WritePcs \cup FlushPcs \cup AdminPcs]
      /\ sent \in [Thread -> 0..MaxLines]
  BY AdminAssumption
  DEF CoreInv, CoreTypeOK, EngineInv, TypeOK, CallTypeOK
<1>2. /\ ops["shutdown"] = 0 /\ ~ShutdownBegin
  <2>1. \/ ops' = ops
        \/ ops["shutdown"] \in Nat /\ \E o \in AdminOps : ops' = [ops EXCEPT ![o] = @ + 1]
    <3>1. CASE AdminCall
      BY <1>1, <3>1 DEF AdminCall, InitBegin, ReconfigureBegin, ShutdownBegin, BeginOp,
         AdminOps
    <3>2. CASE AdminStep
      BY <3>2 DEF AdminStep, InitSinks, InitPublish, ReconfigureMode, ReconfigureSwap,
         ReconfigurePublish, ShutdownClose, InitStart, ReconfigureStart, StartEngine,
         InitStarted, ReconfigureStarted, EngineStarted, ReconfigureStop,
         ShutdownStop, StopEngine, ReconfigureStopped, ShutdownStopped,
         EngineStopped
    <3>3. CASE ~Lifecycle
      BY <1>1, <3>3 DEF CoreNext, Lifecycle, Write, WriteBegin, WriteReadMode,
         WriteEnqueue, WriteEngineReturned, WriteDirect, FlushCall, AddCallbackSink,
         Flush, FlushReadFlags, FlushEngine, FlushEngineReturn, FlushEngineReturned,
         FlushSinksStep, CoreWakeup, CoreWorker, CoreTerminated, coreVars,
         allVars, AdminOps
    <3> QED
      BY <3>1, <3>2, <3>3 DEF Lifecycle
  <2>2. ops["shutdown"] = 0
    BY <1>1, <2>1 DEF AdminOps
  <2>3. ~ShutdownBegin
    BY <1>1, <2>2 DEF ShutdownBegin, BeginOp, AdminOps
  <2> QED
    BY <2>2, <2>3
<1>3. /\ pc[Admin] \notin {"s_stop", "s_join", "s_close"}
      /\ \A t \in Thread : sent[t] > 0 => initialized
  BY <1>2 DEF LossInv, Lossless
<1>4. pc'[Admin] \notin {"s_stop", "s_join", "s_close"} /\ (initialized => initialized')
  <2>1. CASE ~Lifecycle
    BY <1>3, <2>1, OrdinarySteps DEF FlushPcs
  <2>2. CASE AdminCall
    BY <1>1, <1>2, <2>2 DEF AdminCall, InitBegin, ReconfigureBegin, BeginOp, Go
  <2>3. CASE InitSinks \/ InitPublish \/ ReconfigureMode \/ ReconfigureSwap
             \/ ReconfigurePublish \/ ShutdownClose
    BY <1>1, <1>3, <2>3 DEF InitSinks, InitPublish, ReconfigureMode, ReconfigureSwap,
       ReconfigurePublish, ShutdownClose, At, Go
  <2>4. CASE InitStart \/ ReconfigureStart \/ InitStarted \/ ReconfigureStarted
    BY <1>1, <2>4 DEF InitStart, ReconfigureStart, StartEngine, InitStarted,
       ReconfigureStarted, EngineStarted, Go
  <2>5. CASE ReconfigureStop \/ ShutdownStop \/ ReconfigureStopped \/ ShutdownStopped
    BY <1>1, <1>3, <2>5 DEF ReconfigureStop, ShutdownStop, StopEngine,
       ReconfigureStopped, ShutdownStopped, EngineStopped, At, Go, stateVars
  <2> QED
    BY <2>1, <2>2, <2>3, <2>4, <2>5 DEF Lifecycle, AdminStep
<1>5. ASSUME NEW t \in Thread, sent'[t] > 0 PROVE initialized'
  <2>1. CASE \E u \in Thread : WriteBegin(u)
    BY <1>4, <2>1 DEF WriteBegin
  <2>2. CASE ~\E u \in Thread : WriteBegin(u)
    <3>1. sent' = sent
      <4>1. CASE \E u \in Thread : WriteDirect(u) \/ WriteEngineReturned(u)
        BY <4>1 DEF WriteDirect, WriteEngineReturned, vars, callVars
      <4> QED
        BY <2>2, <4>1, WritesStay
    <3> QED
      BY <1>3, <1>4, <1>5, <3>1
  <2> QED
    BY <2>1, <2>2
<1> QED
  BY <1>2, <1>4, <1>5

\* A line whose call returns now was written or refused, taken or dropped.
LEMMA LoggedStep ==
    ASSUME CoreInv, LossInv, [CoreNext]_allVars, NEW l \in Line, Logged(l)',
           initialized \/ \A t \in Thread : sent[t] = 0
    PROVE  \/ Logged(l) \/ Reached(l)'
           \/ /\ fate[l] \notin {"new", "calling", "refused"} /\ fate' = fate
<1>1. PICK u \in Thread, n \in 1..MaxLines : l = <<u, n>>
  BY DEF Line
<1>2. /\ pc \in [Thread -> {"out"} \cup WritePcs \cup FlushPcs \cup AdminPcs]
      /\ sent \in [Thread -> 0..MaxLines]
  BY DEF CoreInv, CoreTypeOK, EngineInv, TypeOK, CallTypeOK
<1>3. Logged(l) <=> n <= sent[u] /\ (n = sent[u] => pc[u] \notin WritePcs)
  BY <1>1 DEF Logged, cur, At, WritePcs
<1>4. n <= sent'[u] /\ (n = sent'[u] => pc'[u] \notin WritePcs)
  BY <1>1 DEF Logged, cur, At, WritePcs
<1>5. ASSUME NEW t \in Thread, WriteBegin(t) PROVE Logged(l)
  <2>1. /\ sent' = [sent EXCEPT ![t] = @ + 1] /\ pc' = [pc EXCEPT ![t] = "checked"]
        /\ pc[t] = "out"
    BY <1>5 DEF WriteBegin, At, Go
  <2>2. CASE u = t
    BY <1>2, <1>3, <1>4, <2>1, <2>2 DEF WritePcs
  <2>3. CASE u # t
    BY <1>2, <1>3, <1>4, <2>1, <2>3
  <2> QED
    BY <2>2, <2>3
<1>6. ASSUME NEW t \in Thread,
             WriteDirect(t) \/ (WriteEngineReturned(t) /\ ~FallsBack(t)),
             ~Logged(l)
      PROVE  u = t /\ l = cur(t)
  <2>1. /\ sent' = sent /\ \E q \in {"flush", "out"} : pc' = [pc EXCEPT ![t] = q]
    BY <1>6 DEF WriteDirect, WriteEngineReturned, AfterWrite, Go, vars, callVars
  <2>2. u = t
    BY <1>2, <1>3, <1>4, <1>6, <2>1
  <2> QED
    BY <1>1, <1>3, <1>4, <1>6, <2>1, <2>2 DEF cur
<1>7. ASSUME NEW t \in Thread, WriteDirect(t), ~Logged(l) PROVE Reached(l)'
  <2>1. l = cur(t) /\ Unwritten(l) /\ EmitToSinks(l)
    BY <1>6, <1>7, DirectLines DEF WriteDirect
  <2>2. sent[t] > 0
    BY <1>7, WriterHasLine DEF WriteDirect, At, LineAgrees, WritePcs
  <2>3. sinks # {} /\ sinks \subseteq Sink
    BY <2>2 DEF CoreInv, SinksOpen, CoreTypeOK
  <2> QED
    BY <2>1, <2>3, EmitOnce DEF Reached
<1>8. ASSUME NEW t \in Thread, WriteEngineReturned(t), ~FallsBack(t), ~Logged(l)
      PROVE  fate[l] \notin {"new", "calling", "refused"} /\ fate' = fate
  <2>1. l = cur(t)
    BY <1>6, <1>8
  <2>2. pc[t] = "engine" /\ ~Writing(t) /\ LineAgrees(t) /\ fate' = fate
    BY <1>8, WriterHasLine DEF WriteEngineReturned, At, Writing, WritePcs, vars
  <2> QED
    BY <2>1, <2>2 DEF LineAgrees
<1>9. CASE \A t \in Thread : ~(\/ WriteBegin(t) \/ WriteDirect(t)
                               \/ (WriteEngineReturned(t) /\ ~FallsBack(t)))
  BY <1>3, <1>4, <1>9, WritesStay
<1> QED
  BY <1>5, <1>7, <1>8, <1>9

\* Every step keeps account of what is lost.
LEMMA LossStep ==
    ASSUME CoreInv, LossInv, [CoreNext]_allVars, ~ThreadMayFail
    PROVE  LossInv'
<1>1. NothingAbandoned'
  BY FateMoves DEF LossInv, NothingAbandoned
<1>2. OldLinesKnown'
  <2> SUFFICES ASSUME NEW t \in Thread, NEW n \in 1..MaxLines, n <= sent'[t],
                      fate'[<<t, n>>] = "new"
               PROVE  FALSE
    BY DEF OldLinesKnown
  <2>1. <<t, n>> \in Line /\ fate[<<t, n>>] = "new"
    BY LineOf, FateMoves
  <2>2. n > sent[t]
    BY <2>1 DEF LossInv, OldLinesKnown, CoreInv, EngineInv, TypeOK, CallTypeOK
  <2>3. PICK u \in Thread : WriteBegin(u)
    <3>1. sent' # sent
      BY <2>2 DEF CoreInv, EngineInv, TypeOK, CallTypeOK
    <3>2. \A u \in Thread : ~WriteDirect(u) /\ ~WriteEngineReturned(u)
      BY <3>1 DEF WriteDirect, WriteEngineReturned, vars, callVars
    <3> QED
      BY <3>1, <3>2, WritesStay
  <2>4. /\ sent' = [sent EXCEPT ![u] = @ + 1]
        /\ fate' = [fate EXCEPT ![<<u, sent[u] + 1>>] = "calling"]
    BY <2>3 DEF WriteBegin
  <2>5. u = t /\ n = sent[t] + 1
    BY <2>2, <2>4 DEF CoreInv, EngineInv, TypeOK, CallTypeOK
  <2> QED
    BY <2>1, <2>4, <2>5 DEF CoreInv, EngineInv, TypeOK, HistoryTypeOK
<1>3. Lossless'
  <2> SUFFICES ASSUME ops'["shutdown"] = 0
               PROVE  /\ pc'[Admin] \notin {"s_stop", "s_join", "s_close"}
                      /\ \A t \in Thread : sent'[t] > 0 => initialized'
                      /\ \A l \in Line : ~Lost(l)'
    BY DEF Lossless
  <2>1. ops["shutdown"] = 0
    BY StaysInitialized
  <2>2. initialized \/ \A t \in Thread : sent[t] = 0
    BY <2>1 DEF LossInv, Lossless, CoreInv, EngineInv, TypeOK, CallTypeOK
  <2>3. ASSUME NEW l \in Line, Logged(l)', ~Reached(l)'
        PROVE  fate'[l] \in {"queued", "dropped", "forgotten"}
    <3>1. ~Reached(l) /\ fate'[l] # "emitted"
      BY <2>3, ReachedStays, DeliveredStep DEF Delivered, DrainReachesSinks
    <3>2. CASE Logged(l)
      <4>1. fate[l] \in {"queued", "dropped", "forgotten"}
        BY <2>1, <3>1, <3>2 DEF LossInv, Lossless, Lost
      <4> QED
        BY <3>1, <4>1, FateMoves
    <3>3. CASE fate[l] \notin {"new", "calling", "refused"} /\ fate' = fate
      BY <3>1, <3>3
      DEF LossInv, NothingAbandoned, CoreInv, EngineInv, TypeOK, HistoryTypeOK, Fates
    <3> QED
      BY <2>2, <2>3, <3>2, <3>3, LoggedStep
  <2> QED
    BY <2>3, StaysInitialized DEF Lost
<1> QED
  BY <1>1, <1>2, <1>3 DEF LossInv

\* While threads start, reconfiguring is lossless under concurrent logging:
\* until a shutdown begins, a line whose call returned reached a sink, is
\* queued, or was dropped and counted (hx_clog_reconfigure_locked,
\* core_dispatch_line).
THEOREM ReconfigureIsLossless ==
    ASSUME ~ThreadMayFail
    PROVE  CoreSpec => []ReconfigureLosesNothing
<1>1. CoreInit => LossInv
  <2> SUFFICES ASSUME CoreInit PROVE LossInv
    OBVIOUS
  <2>1. NothingAbandoned
    BY DEF CoreInit, Init, NothingAbandoned
  <2>2. OldLinesKnown
    BY MaxLinesAssumption DEF CoreInit, Init, OldLinesKnown
  <2>3. \A l \in Line : l[1] \in Thread /\ l[2] \in 1..MaxLines
    BY DEF Line
  <2>4. \A l \in Line : ~Logged(l)
    BY <2>3, MaxLinesAssumption DEF CoreInit, Init, Logged
  <2>5. Lossless
    BY <2>4, AdminAssumption DEF CoreInit, Init, Lossless, Lost
  <2> QED
    BY <2>1, <2>2, <2>5 DEF LossInv
<1>2. CoreInv /\ LossInv /\ [CoreNext]_allVars => LossInv'
  BY LossStep
<1>3. LossInv => ReconfigureLosesNothing
  BY DEF LossInv, Lossless, ReconfigureLosesNothing
<1> QED
  BY <1>1, <1>2, <1>3, CoreInvariant, PTL DEF CoreSpec

=============================================================================
