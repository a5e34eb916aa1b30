------------------------------ MODULE HxAsync ------------------------------
(***************************************************************************)
(* The asynchronous engine of hx_clog (src/src/hx_clog_async.c): a bounded *)
(* ring of line slots, the producers that push into it, and one worker     *)
(* that pops lines in batches and hands them to the sinks.                 *)
(*                                                                         *)
(* Every critical section of g_async_lock is one action.  The exception is *)
(* the worker's batch loop, which keeps the lock from one iteration to the *)
(* next: while wpc = "batch" the worker owns the lock and no other action  *)
(* that needs it is enabled (LockFree).                                    *)
(*                                                                         *)
(* A line is <<t, n>>, the n-th line thread t logs; its text, level and    *)
(* target sink are not represented.                                        *)
(***************************************************************************)
EXTENDS Integers, FiniteSets

CONSTANTS
    Thread,        \* application threads that log and flush
    NoLine,        \* content of a slot never written, and of an idle scratch
    MaxLines,      \* bound: lines each thread logs
    Configs,       \* [capacity, batch, overflow] records a start may be given
    Budget,        \* bound: number of starts, flushes and forks
    AllocMayFail,  \* may malloc fail inside the engine?
    ThreadMayFail  \* may hx_thread_create fail?

NoSlots  == [i \in {} |-> NoLine]        \* g_async.slots = NULL
Policies == {"BLOCK", "DROP_NEW", "DROP_OLD"}
Line     == Thread \X (1..MaxLines)

ASSUME ThreadAssumption   == IsFiniteSet(Thread)
ASSUME NoLineAssumption   == NoLine \notin Line
ASSUME MaxLinesAssumption == MaxLines \in Nat
ASSUME ConfigsAssumption  ==
    \A c \in Configs : /\ c.capacity \in Nat \ {0}
                       /\ c.batch \in Nat \ {0}
                       /\ c.overflow \in Policies
ASSUME BudgetAssumption   == Budget \in [{"start", "flush", "fork"} -> Nat]
ASSUME FlagAssumption     == /\ AllocMayFail \in BOOLEAN
                             /\ ThreadMayFail \in BOOLEAN

VARIABLES
    \* g_async, guarded by g_async_lock
    slots, capacity, batch_size, overflow, head, tail, count,
    running, stop, flush_request, dropped, high_watermark,
    \* the worker: program counter and locals of worker_main
    wpc, scratch, written, should_exit,
    \* the calls of the application threads and of the controlling thread
    call, rc, sent, ctl,
    \* history: what became of each line, and how much budget is used
    fate, due, used

engineVars == <<slots, capacity, batch_size, overflow, head, tail, count,
                running, stop, flush_request, dropped, high_watermark>>
ringVars   == <<slots, head, tail, count, high_watermark>>
configVars == <<capacity, batch_size, overflow>>
workerVars == <<wpc, scratch, written, should_exit>>
callVars   == <<call, rc, sent>>
vars == <<engineVars, workerVars, callVars, ctl, fate, due, used>>

Fates == {"new",       \* not logged yet
          "calling",   \* inside hx_async_enqueue
          "queued",    \* accepted, not yet handed to the sinks
          "emitted",   \* handed to hx_core_emit_to_sinks
          "refused",   \* NOT_INITIALIZED returned: the caller keeps the line
          "dropped",   \* lost and counted by g_async.dropped
          "forgotten", \* lost and counted before the statistics were reset
          "orphaned",  \* in the ring of an engine whose worker never started
          "parent"}    \* queued at a fork: the parent process owns it

\* The state of a call: outside, waiting for the lock in hx_async_enqueue,
\* in the wait set of not_full, signalled but without the lock, and in the
\* timed wait of hx_async_flush.
CallStates == {"idle", "enq", "blocked", "woken", "fwait"}

Codes == {"NONE", "OK", "QUEUE_FULL", "OUT_OF_MEMORY", "NOT_INITIALIZED"}

RingTypeOK ==
    /\ capacity \in Nat /\ batch_size \in Nat /\ overflow \in Policies
    /\ slots = NoSlots \/ slots \in [0..capacity - 1 -> Line \cup {NoLine}]
    /\ head \in Nat /\ tail \in Nat /\ count \in Nat
    /\ dropped \in Nat /\ high_watermark \in Nat

FlagTypeOK == /\ running \in BOOLEAN /\ stop \in BOOLEAN
              /\ flush_request \in BOOLEAN /\ should_exit \in BOOLEAN

WorkerTypeOK ==
    /\ wpc \in {"none", "loop", "wait", "sync", "batch", "emit", "relock",
                "exited"}
    /\ scratch \in Line \cup {NoLine}
    /\ written \in Nat

CallTypeOK ==
    /\ call \in [Thread -> CallStates]
    /\ rc \in [Thread -> Codes]
    /\ sent \in [Thread -> 0..MaxLines]
    /\ ctl \in {"idle", "starting", "joining"}

HistoryTypeOK ==
    /\ fate \in [Line -> Fates]
    /\ due \in [Thread -> SUBSET Line]
    /\ used \in [{"start", "flush", "fork"} -> Nat]

TypeOK == RingTypeOK /\ FlagTypeOK /\ WorkerTypeOK /\ CallTypeOK
          /\ HistoryTypeOK

Init ==
    /\ slots = NoSlots /\ capacity = 0 /\ batch_size = 0 /\ overflow = "BLOCK"
    /\ head = 0 /\ tail = 0 /\ count = 0
    /\ running = FALSE /\ stop = FALSE /\ flush_request = FALSE
    /\ dropped = 0 /\ high_watermark = 0
    /\ wpc = "none" /\ scratch = NoLine /\ written = 0 /\ should_exit = FALSE
    /\ call = [t \in Thread |-> "idle"]
    /\ rc = [t \in Thread |-> "NONE"]
    /\ sent = [t \in Thread |-> 0]
    /\ ctl = "idle"
    /\ fate = [l \in Line |-> "new"]
    /\ due = [t \in Thread |-> {}]
    /\ used = [b \in {"start", "flush", "fork"} |-> 0]

-----------------------------------------------------------------------------
(***************************************************************************)
(* Shared vocabulary.                                                      *)
(***************************************************************************)
LockFree == wpc # "batch"          \* g_async_lock can be acquired

Full_OffByOne == count > capacity  \* (mutant)
Full     == count >= capacity

RingEmpty_OrStop == count = 0 \/ stop  \* (mutant) exits without draining
RingEmpty == count = 0

Next1(i) == (i + 1) % capacity     \* the index after i in the ring

\* The ring's content, oldest line first at k = 0.
Queued(k) == slots[(head + k) % capacity]
InRing    == IF slots = NoSlots THEN {} ELSE {Queued(k) : k \in 0..count - 1}

Oldest_Newest == slots[(head + count - 1) % capacity]  \* (mutant)
Oldest    == slots[head]

cur(t)    == <<t, sent[t]>>

Blocked  == {t \in Thread : call[t] = "blocked"}
Spend(b) == /\ used[b] < Budget[b]
            /\ used' = [used EXCEPT ![b] = @ + 1]

\* pthread_cond_signal(&g_async_not_full) wakes one waiter, if there is one.
SignalNotFull_Missing == UNCHANGED call  \* (mutant)
SignalNotFull == IF Blocked = {}
                 THEN UNCHANGED call
                 ELSE \E t \in Blocked : call' = [call EXCEPT ![t] = "woken"]

\* The worker's wait on not_empty ends: it re-evaluates its loop condition.
SignalNotEmpty_Missing == UNCHANGED wpc  \* (mutant)
SignalNotEmpty == wpc' = IF wpc = "wait" THEN "loop" ELSE wpc

\* pthread_cond_broadcast(&g_async_not_full).
BroadcastNotFull ==
    call' = [t \in Thread |-> IF call[t] = "blocked" THEN "woken" ELSE call[t]]

Pop_KeepCount == head' = Next1(head) /\ UNCHANGED count  \* (mutant)
Pop == head' = Next1(head) /\ count' = count - 1

EmptyRing == head' = 0 /\ tail' = 0 /\ count' = 0

\* n lines are lost in this step.
CountDrop_Once(n) == dropped' = dropped + 1  \* (mutant)
CountDrop(n) == dropped' = dropped + n

Return(t, code) == /\ call' = [call EXCEPT ![t] = "idle"]
                   /\ rc' = [rc EXCEPT ![t] = code]

-----------------------------------------------------------------------------
(***************************************************************************)
(* hx_async_enqueue.                                                       *)
(***************************************************************************)

\* Thread t calls hx_async_enqueue with its next line.
Submit(t) ==
    /\ call[t] = "idle" /\ sent[t] < MaxLines
    /\ call' = [call EXCEPT ![t] = "enq"]
    /\ sent' = [sent EXCEPT ![t] = @ + 1]
    /\ fate' = [fate EXCEPT ![<<t, sent[t] + 1>>] = "calling"]
    /\ UNCHANGED <<engineVars, workerVars, rc, ctl, due, used>>

\* The engine is not running or is being stopped, seen at entry or, with
\* stop, on return from the wait for space.
EnqueueRefuse(t) ==
    /\ LockFree
    /\ \/ call[t] = "enq" /\ (~running \/ stop)
       \/ call[t] = "woken" /\ (stop \/ (~Full /\ ~running))
    /\ Return(t, "NOT_INITIALIZED")
    /\ fate' = [fate EXCEPT ![cur(t)] = "refused"]
    /\ UNCHANGED <<engineVars, workerVars, sent, ctl, due, used>>

EnqueueDropNew(t) ==
    /\ LockFree
    /\ call[t] = "enq" /\ running /\ ~stop
    /\ Full /\ overflow = "DROP_NEW"
    /\ Return(t, "QUEUE_FULL")
    /\ CountDrop(1)
    /\ fate' = [fate EXCEPT ![cur(t)] = "dropped"]
    /\ UNCHANGED <<ringVars, configVars, running, stop, flush_request,
                   workerVars, sent, ctl, due, used>>

\* The wait for space: entered, or entered again after a wake-up that finds
\* the ring full.
EnqueueBlock(t) ==
    /\ LockFree
    /\ \/ call[t] = "enq" /\ running /\ overflow = "BLOCK"
       \/ call[t] = "woken"
    /\ Full /\ ~stop
    /\ call' = [call EXCEPT ![t] = "blocked"]
    /\ UNCHANGED <<engineVars, workerVars, rc, sent, ctl, fate, due, used>>

\* The ring has room for t's line.
HasRoom_Stopping(t) ==  \* (mutant) the stop flag is not looked at
    call[t] \in {"enq", "woken"} /\ running /\ ~Full
HasRoom(t) ==
    /\ call[t] \in {"enq", "woken"}
    /\ running /\ ~stop /\ ~Full

Push(l, h, c) ==
    /\ slots' = [slots EXCEPT ![tail] = l]
    /\ tail' = Next1(tail)
    /\ head' = h
    /\ count' = c + 1
    /\ high_watermark' = IF c + 1 > high_watermark THEN c + 1
                                                   ELSE high_watermark

EnqueuePush(t) ==
    /\ LockFree
    /\ HasRoom(t)
    /\ Push(cur(t), head, count)
    /\ SignalNotEmpty
    /\ Return(t, "OK")
    /\ fate' = [fate EXCEPT ![cur(t)] = "queued"]
    /\ UNCHANGED <<configVars, running, stop, flush_request, dropped,
                   scratch, written, should_exit, sent, ctl, due, used>>

\* DROP_OLD on a full ring: advance head over the oldest line, then push.
EnqueueDropOld(t) ==
    /\ LockFree
    /\ call[t] = "enq" /\ running /\ ~stop
    /\ Full /\ overflow = "DROP_OLD"
    /\ Push(cur(t), Next1(head), count - 1)
    /\ CountDrop(1)
    /\ SignalNotEmpty
    /\ Return(t, "OK")
    /\ fate' = [fate EXCEPT ![Oldest] = "dropped", ![cur(t)] = "queued"]
    /\ UNCHANGED <<configVars, running, stop, flush_request,
                   scratch, written, should_exit, sent, ctl, due, used>>

\* The slot's buffer cannot grow: the new line is dropped and counted, after
\* DROP_OLD has already dropped the oldest one.
EnqueueNoMemory(t) ==
    /\ LockFree /\ AllocMayFail
    /\ HasRoom(t)
    /\ CountDrop(1)
    /\ Return(t, "OUT_OF_MEMORY")
    /\ fate' = [fate EXCEPT ![cur(t)] = "dropped"]
    /\ UNCHANGED <<ringVars, configVars, running, stop, flush_request,
                   workerVars, sent, ctl, due, used>>

EnqueueDropOldNoMemory(t) ==
    /\ LockFree /\ AllocMayFail
    /\ call[t] = "enq" /\ running /\ ~stop
    /\ Full /\ overflow = "DROP_OLD"
    /\ Pop
    /\ CountDrop(2)
    /\ Return(t, "OUT_OF_MEMORY")
    /\ fate' = [fate EXCEPT ![Oldest] = "dropped", ![cur(t)] = "dropped"]
    /\ UNCHANGED <<slots, tail, high_watermark, configVars, running, stop,
                   flush_request, workerVars, sent, ctl, due, used>>

\* POSIX lets a condition wait return without a signal.
SpuriousWakeup(t) ==
    /\ call[t] = "blocked"
    /\ call' = [call EXCEPT ![t] = "woken"]
    /\ UNCHANGED <<engineVars, workerVars, rc, sent, ctl, fate, due, used>>

-----------------------------------------------------------------------------
(***************************************************************************)
(* worker_main.                                                            *)
(***************************************************************************)

\* What follows the wait: nothing queued means a sink flush (a tick, a flush
\* request or the exit); otherwise a batch starts and the lock stays held.
WorkerProceed ==
    IF RingEmpty
    THEN /\ wpc' = "sync"
         /\ should_exit' = stop
         /\ flush_request' = FALSE
         /\ UNCHANGED written
    ELSE /\ wpc' = "batch"
         /\ written' = 0
         /\ UNCHANGED <<should_exit, flush_request>>

WorkerLoop ==
    /\ wpc = "loop"
    /\ IF count = 0 /\ ~stop /\ ~flush_request
       THEN /\ wpc' = "wait"
            /\ UNCHANGED <<written, should_exit, flush_request>>
       ELSE WorkerProceed
    /\ UNCHANGED <<ringVars, configVars, running, stop, dropped, scratch,
                   callVars, ctl, fate, due, used>>

\* The timed wait on not_empty expires (flush_interval_ms).
WorkerTick ==
    /\ wpc = "wait"
    /\ WorkerProceed
    /\ UNCHANGED <<ringVars, configVars, running, stop, dropped, scratch,
                   callVars, ctl, fate, due, used>>

\* hx_core_flush_sinks without the lock.  The broadcast of flushed that may
\* follow only shortens the 100 ms polls of hx_async_flush.
WorkerSync ==
    /\ wpc = "sync"
    /\ wpc' = IF should_exit THEN "exited" ELSE "loop"
    /\ UNCHANGED <<engineVars, scratch, written, should_exit, callVars, ctl,
                   fate, due, used>>

InBatch_NoCount == wpc = "batch" /\ written < batch_size  \* (mutant)
InBatch_LeaveOne ==  \* (mutant)
    wpc = "batch" /\ count > 1 /\ written < batch_size
InBatch == wpc = "batch" /\ count > 0 /\ written < batch_size

\* Copy the oldest line to the scratch buffer and release the lock.
WorkerTake ==
    /\ InBatch
    /\ scratch' = Oldest
    /\ Pop
    /\ SignalNotFull
    /\ wpc' = "emit"
    /\ UNCHANGED <<slots, tail, high_watermark, configVars, running, stop,
                   flush_request, dropped, written, should_exit, rc, sent,
                   ctl, fate, due, used>>

\* The scratch buffer cannot grow: skip the oldest line, still in the loop.
WorkerSkip ==
    /\ InBatch /\ AllocMayFail
    /\ fate' = [fate EXCEPT ![Oldest] = "dropped"]
    /\ Pop
    /\ CountDrop(1)
    /\ SignalNotFull
    /\ written' = written + 1
    /\ UNCHANGED <<slots, tail, high_watermark, configVars, running, stop,
                   flush_request, wpc, scratch, should_exit, rc, sent,
                   ctl, due, used>>

\* hx_core_emit_to_sinks, without the lock.
WorkerEmit ==
    /\ wpc = "emit"
    /\ fate' = [fate EXCEPT ![scratch] = "emitted"]
    /\ scratch' = NoLine
    /\ wpc' = "relock"
    /\ UNCHANGED <<engineVars, written, should_exit, callVars, ctl, due, used>>

WorkerRelock ==
    /\ wpc = "relock"
    /\ wpc' = "batch"
    /\ written' = written + 1
    /\ UNCHANGED <<engineVars, scratch, should_exit, callVars, ctl, fate, due,
                   used>>

\* A flush request is served once the ring is empty.
FlushServed_AnyBatch == TRUE  \* (mutant)
FlushServed == count = 0

WorkerBatchEnd ==
    /\ wpc = "batch" /\ ~InBatch
    /\ flush_request' = (flush_request /\ ~FlushServed)
    /\ wpc' = "loop"
    /\ UNCHANGED <<ringVars, configVars, running, stop, dropped, scratch,
                   written, should_exit, callVars, ctl, fate, due, used>>

Worker == \/ WorkerLoop \/ WorkerTick \/ WorkerSync \/ WorkerTake
          \/ WorkerSkip \/ WorkerEmit \/ WorkerRelock \/ WorkerBatchEnd

-----------------------------------------------------------------------------
(***************************************************************************)
(* hx_async_flush.  due records what was in the ring when the call began.  *)
(***************************************************************************)
AsyncFlush(t) ==
    /\ LockFree
    /\ call[t] = "idle"
    /\ IF ~running \/ count = 0
       THEN UNCHANGED <<flush_request, wpc, call, due>>
       ELSE /\ flush_request' = TRUE
            /\ SignalNotEmpty
            /\ call' = [call EXCEPT ![t] = "fwait"]
            /\ due' = [due EXCEPT ![t] = InRing]
    /\ UNCHANGED <<ringVars, configVars, running, stop, dropped,
                   scratch, written, should_exit, rc, sent, ctl, fate>>

FlushBegin(t) == AsyncFlush(t) /\ Spend("flush")

FlushReturn(t) ==
    /\ LockFree
    /\ call[t] = "fwait"
    /\ count = 0 \/ ~flush_request \/ ~running \/ stop
    /\ call' = [call EXCEPT ![t] = "idle"]
    /\ due' = [due EXCEPT ![t] = {}]
    /\ UNCHANGED <<engineVars, workerVars, rc, sent, ctl, fate, used>>

-----------------------------------------------------------------------------
(***************************************************************************)
(* hx_async_start and hx_async_stop, which the core calls under init_lock. *)
(***************************************************************************)

\* The slots are allocated and the engine state is cleared, statistics
\* included.  A failed malloc of the slots changes nothing.
AsyncStart ==
    /\ LockFree
    /\ ctl = "idle" /\ ~running
    /\ \E c \in Configs :
          /\ slots' = [i \in 0..c.capacity - 1 |-> NoLine]
          /\ capacity' = c.capacity
          /\ batch_size' = c.batch
          /\ overflow' = c.overflow
    /\ EmptyRing
    /\ running' = TRUE /\ stop' = FALSE /\ flush_request' = FALSE
    /\ dropped' = 0 /\ high_watermark' = 0
    /\ ctl' = "starting"
    /\ fate' = [l \in Line |-> IF fate[l] = "dropped" THEN "forgotten"
                                                      ELSE fate[l]]
    /\ UNCHANGED <<workerVars, callVars, due>>

StartBegin == AsyncStart /\ Spend("start")

StartThread ==
    /\ ctl = "starting"
    /\ ctl' = "idle"
    /\ wpc' = "loop"
    /\ UNCHANGED <<engineVars, scratch, written, should_exit, callVars, fate,
                   due, used>>

\* hx_thread_create failed: the slots go, and with them the lines producers
\* pushed since StartBegin; count, head, tail and stop keep their values.
StartFail ==
    /\ LockFree /\ ThreadMayFail
    /\ ctl = "starting"
    /\ ctl' = "idle"
    /\ running' = FALSE
    /\ slots' = NoSlots
    /\ fate' = [l \in Line |-> IF l \in InRing THEN "orphaned" ELSE fate[l]]
    /\ UNCHANGED <<capacity, batch_size, overflow, head, tail, count, stop,
                   flush_request, dropped, high_watermark, workerVars,
                   callVars, due, used>>

StopBegin ==
    /\ LockFree
    /\ ctl = "idle" /\ running
    /\ stop' = TRUE
    /\ SignalNotEmpty
    /\ BroadcastNotFull
    /\ ctl' = "joining"
    /\ UNCHANGED <<ringVars, configVars, running, flush_request, dropped,
                   scratch, written, should_exit, rc, sent, fate, due, used>>

\* The join returned; detach the buffers.
StopDetach ==
    /\ ctl = "joining" /\ wpc = "exited"
    /\ slots' = NoSlots
    /\ EmptyRing
    /\ running' = FALSE
    /\ ctl' = "idle"
    /\ UNCHANGED <<configVars, stop, flush_request, dropped, high_watermark,
                   workerVars, callVars, fate, due, used>>

(***************************************************************************)
(* Thread t forks and the child calls hx_async_after_fork_child; from here *)
(* on the module describes the child.  The atfork handlers hold init_lock  *)
(* and g_async_lock across the fork, so no start or stop is in progress;   *)
(* only the forking thread exists in the child.                            *)
(***************************************************************************)
ForkChild(t) ==
    /\ LockFree
    /\ ctl = "idle" /\ call[t] = "idle"
    /\ Spend("fork")
    /\ EmptyRing
    /\ flush_request' = FALSE /\ stop' = FALSE
    /\ call' = [u \in Thread |-> "idle"]
    /\ due' = [u \in Thread |-> {}]
    /\ fate' = [l \in Line |-> IF fate[l] \in {"queued", "calling"}
                               THEN "parent" ELSE fate[l]]
    /\ scratch' = NoLine
    /\ IF running
       THEN \/ wpc' = "loop" /\ UNCHANGED running
            \/ ThreadMayFail /\ wpc' = "none" /\ running' = FALSE
       ELSE wpc' = "none" /\ UNCHANGED running
    /\ UNCHANGED <<slots, configVars, dropped, high_watermark, written,
                   should_exit, rc, sent, ctl>>

-----------------------------------------------------------------------------
Enqueue(t) == \/ EnqueueRefuse(t) \/ EnqueueDropNew(t) \/ EnqueueBlock(t)
              \/ EnqueuePush(t) \/ EnqueueDropOld(t) \/ EnqueueNoMemory(t)
              \/ EnqueueDropOldNoMemory(t)

Control == StartBegin \/ StartThread \/ StartFail \/ StopBegin \/ StopDetach

\* The program may end once the engine is stopped and no call is in progress.
Terminated == /\ ~running /\ ctl = "idle"
              /\ \A t \in Thread : call[t] = "idle"
              /\ UNCHANGED vars

Next == \/ \E t \in Thread : \/ Submit(t) \/ Enqueue(t) \/ SpuriousWakeup(t)
                             \/ FlushBegin(t) \/ FlushReturn(t) \/ ForkChild(t)
        \/ Worker
        \/ Control
        \/ Terminated

Spec == Init /\ [][Next]_vars

-----------------------------------------------------------------------------
(***************************************************************************)
(* Fairness.  The worker is a thread that never stops by itself, and its   *)
(* wait is timed; a thread inside a call goes on when it is not waiting.   *)
(* The waits of hx_async_flush are timed too.  Nothing is assumed of calls *)
(* that may or may not be made, nor of spurious wake-ups and failures.     *)
(***************************************************************************)
WorkerFairness  == WF_vars(WorkerLoop \/ WorkerTick \/ WorkerSync \/ WorkerTake
                           \/ WorkerEmit \/ WorkerRelock \/ WorkerBatchEnd)
CallFairness    == \A t \in Thread : /\ WF_vars(Enqueue(t))
                                     /\ WF_vars(FlushReturn(t))
ControlFairness == WF_vars(StartThread) /\ WF_vars(StopDetach)

FairSpec == Spec /\ WorkerFairness /\ CallFairness /\ ControlFairness

-----------------------------------------------------------------------------
(***************************************************************************)
(* Properties.                                                             *)
(***************************************************************************)
WithFate(f) == {l \in Line : fate[l] = f}
InFlight    == IF wpc = "emit" THEN {scratch} ELSE {}

\* The ring indices of a live engine agree: head and tail are slots, tail is
\* count slots after head, and the ring is never over its capacity nor the
\* high watermark below what is queued (hx_async_enqueue, worker_main).
RingConsistent ==
    running => /\ slots # NoSlots
               /\ head \in 0..capacity - 1
               /\ tail = (head + count) % capacity
               /\ count <= high_watermark /\ high_watermark <= capacity

\* No accepted line is lost or duplicated inside the engine: the lines that
\* wait for delivery are exactly the one in the worker's scratch buffer and
\* those in the ring, each in one place (push, pop and DROP_OLD's head move).
NothingLost ==
    /\ WithFate("queued") = InRing \cup InFlight
    /\ InRing \cap InFlight = {}
    /\ slots # NoSlots =>
          \A j, k \in 0..count - 1 : Queued(j) = Queued(k) => j = k

\* What the worker, the controlling thread and the calls know of the engine
\* between two critical sections of g_async_lock.  With TypeOK, RingConsistent
\* and NothingLost it makes the inductive invariant of HxAsyncProofs.  The
\* worker runs exactly while the engine does, except inside a start, and exits
\* only from a stopped engine with an empty ring; a call that has not returned
\* still holds the line it will queue.
PhasesAgree ==
    /\ wpc \notin {"none", "exited"} => running
    /\ ctl = "starting" => running /\ ~stop /\ wpc \in {"none", "exited"}
    /\ ctl = "joining" <=> running /\ stop
    /\ running /\ ctl = "idle" => wpc \notin {"none", "exited"}
    /\ wpc = "sync" /\ should_exit => stop /\ count = 0
    /\ wpc = "exited" /\ ctl = "joining" => count = 0
    /\ ~running => slots = NoSlots \/ count = 0

CallsHoldLines ==
    \A t \in Thread :
       /\ call[t] \in {"enq", "blocked", "woken"}
             => sent[t] > 0 /\ fate[cur(t)] = "calling"
       /\ \A n \in 1..MaxLines : n > sent[t] => fate[<<t, n>>] = "new"

ThreadsAgree == PhasesAgree /\ CallsHoldLines

\* g_async.dropped is the number of lines this engine lost since it started,
\* whichever of the five places that drop counted them.
DropsCounted == dropped = Cardinality(WithFate("dropped"))

\* Lines of one thread reach the sinks in the order it logged them: no line
\* is emitted while an earlier accepted line of its thread still waits.
ThreadOrder ==
    \A t \in Thread : \A m, n \in 1..MaxLines :
        m < n /\ fate[<<t, n>>] = "emitted" => fate[<<t, m>>] # "queued"

\* hx_async_stop drains: when the engine is down, no accepted line waits
\* anywhere and the worker is gone, so detaching the slots discards nothing.
StopDrains ==
    ~running => WithFate("queued") = {} /\ wpc \in {"none", "exited"}

\* What became of a line is final: it is delivered at most once, never after
\* it was reported lost or refused, and a forked child never delivers a line
\* its parent had queued (hx_async_after_fork_child).
FatesAreFinal ==
    [][\A l \in Line :
          /\ fate[l] \in {"emitted", "refused", "forgotten", "orphaned", "parent"}
                 => fate'[l] = fate[l]
          /\ fate[l] = "dropped" => fate'[l] \in {"dropped", "forgotten"}]_vars

\* When hx_async_flush returns and no stop (nor a fork) cut it short, every
\* line that was in the ring when it was called has left the ring.
FlushDrains ==
    [][\A t \in Thread :
          call[t] = "fwait" /\ call'[t] = "idle" /\ running /\ ~stop
                            /\ used' = used
              => due[t] \cap InRing = {}]_vars

\* The worker never sleeps on work it should do: a push, a flush request or a
\* stop that finds it waiting wakes it (the signals of not_empty).
WorkerNotAsleep == wpc = "wait" => count = 0 /\ ~stop /\ ~flush_request

\* No wake-up for space is lost: while a producer waits on not_full, a line is
\* still queued whose removal will signal it, or another producer was
\* signalled and will refill the ring.  (Without allocation failures.)
NoLostWakeup == Blocked # {} => count > 0 \/ \E t \in Thread : call[t] = "woken"

\* BLOCK "block caller until there is space": once the engine is quiet, no
\* producer is left waiting beside a ring that has room.
BlockedOnlyWhenFull ==
    wpc = "wait" /\ (\A t \in Thread : call[t] \in {"idle", "blocked"})
        => Blocked = {} \/ Full

\* The engine implements a bounded FIFO channel (HxQueue): lines leave in the
\* order they were accepted, nothing is accepted once a stop has begun, the
\* ring closes empty, and only a lossy policy or a failure loses a line.
PendingLines  == IF slots = NoSlots THEN <<>>
                 ELSE [k \in 1..count |-> Queued(k - 1)]
InFlightLines == IF wpc = "emit" THEN <<scratch>> ELSE <<>>
Phase         == IF ~running THEN "closed"
                 ELSE IF stop THEN "closing" ELSE "open"

Channel == INSTANCE HxQueue WITH phase <- Phase, size <- capacity,
              policy <- overflow, pending <- PendingLines,
              inflight <- InFlightLines,
              MayFail <- (AllocMayFail \/ ThreadMayFail)

IsBoundedChannel == Channel!Spec

\* Every accepted line is eventually delivered or accounted for, stop or not.
AcceptedLinesLeave ==
    \A l \in Line : fate[l] = "queued" ~> fate[l] # "queued"

\* A producer that waits for space eventually returns to its caller.
EnqueueReturns ==
    \A t \in Thread : call[t] \in {"enq", "blocked", "woken"} ~> call[t] = "idle"

\* hx_async_flush returns, and so does the join in hx_async_stop.
FlushReturns == \A t \in Thread : call[t] = "fwait" ~> call[t] = "idle"
StopReturns  == ctl = "joining" ~> ctl = "idle"
=============================================================================
