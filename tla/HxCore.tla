------------------------------- MODULE HxCore -------------------------------
(***************************************************************************)
(* The core of hx_clog (src/src/hx_clog_core.c) around the asynchronous    *)
(* engine: the write path that every thread runs, hx_clog_flush, and the   *)
(* lifecycle (init, reconfigure, shutdown) that one thread at a time runs  *)
(* under init_lock.  The engine's steps are those of HxAsync; here they    *)
(* are composed with the mode and initialized flags, which the write path  *)
(* reads without a lock, and with the sink table, guarded by sink_lock.    *)
(*                                                                         *)
(* Level filters, formatting, duplicate suppression, per-sink formats and  *)
(* forks are not represented: a line that is logged passes the filters and *)
(* goes to every open sink.  A configuration asks for one file sink and a  *)
(* mode.  A reconfigure whose new file cannot be opened changes nothing.   *)
(***************************************************************************)
EXTENDS HxAsync

CONSTANTS
    Admin,       \* the thread that calls init, reconfigure and shutdown
    Fatal,       \* the lines logged at level FATAL
    AdminBudget  \* bound: inits, reconfigures, shutdowns, callback sinks

Sink     == {"file", "cb"}   \* a stdio-buffered file and a user callback
Mode     == {"SYNC", "ASYNC"}
Producer == Thread \ {Admin}
AdminOps == {"init", "reconfigure", "shutdown", "callback"}

ASSUME AdminAssumption == Admin \in Thread /\ AdminBudget \in [AdminOps -> Nat]
ASSUME FatalAssumption == Fatal \subseteq Line

VARIABLES
    initialized,   \* g_core.initialized
    mode,          \* g_core.mode
    sinks,         \* g_core.sinks: the open sinks
    written_lines, \* g_core.written_lines
    buffered,      \* lines in the stdio buffer of the file sink
    pc,            \* where each thread is in the core
    want,          \* the mode asked for by the configuration being applied
    received,      \* history: how often each line reached each sink
    ops            \* history: the lifecycle operations begun

stateVars == <<initialized, mode, sinks, want>>
lineVars  == <<written_lines, buffered, received>>
coreVars  == <<stateVars, lineVars, pc, ops>>
allVars   == <<vars, coreVars>>

WritePcs == {"checked", "engine", "direct"}
FlushPcs == {"flush", "fmode", "fengine", "fsinks"}
AdminPcs == {"i_sinks", "i_start", "i_wait", "i_publish",
             "r_mode", "r_stop", "r_join", "r_swap", "r_start", "r_wait",
             "r_publish", "s_stop", "s_join", "s_close"}

CoreTypeOK ==
    /\ TypeOK
    /\ initialized \in BOOLEAN /\ mode \in Mode /\ sinks \subseteq Sink
    /\ written_lines \in Nat /\ buffered \subseteq Line
    /\ pc \in [Thread -> {"out"} \cup WritePcs \cup FlushPcs \cup AdminPcs]
    /\ want \in Mode
    /\ received \in [Line -> [Sink -> Nat]]
    /\ ops \in [AdminOps -> Nat]

CoreInit ==
    /\ Init
    /\ initialized = FALSE /\ mode = "SYNC" /\ sinks = {}
    /\ written_lines = 0 /\ buffered = {}
    /\ pc = [t \in Thread |-> "out"]
    /\ want = "SYNC"
    /\ received = [l \in Line |-> [s \in Sink |-> 0]]
    /\ ops = [o \in AdminOps |-> 0]

-----------------------------------------------------------------------------
At(t, p) == pc[t] = p
Go(t, p) == pc' = [pc EXCEPT ![t] = p]

\* hx_core_emit_to_sinks: every open sink gets the line, and the line is
\* counted as written, also when no sink is open.
EmitToSinks(l) ==
    /\ received' = [received EXCEPT
                      ![l] = [s \in Sink |-> IF s \in sinks THEN @[s] + 1 ELSE @[s]]]
    /\ buffered' = IF "file" \in sinks THEN buffered \cup {l} ELSE buffered
    /\ written_lines' = written_lines + 1

\* hx_core_flush_sinks: the stdio buffer of the open file is written out.
FlushSinks == buffered' = {} /\ UNCHANGED <<received, written_lines>>

-----------------------------------------------------------------------------
(***************************************************************************)
(* The write path: core_writev, core_dispatch_line.                        *)
(***************************************************************************)

\* Thread t logs a line and finds the library initialized.
WriteBegin(t) ==
    /\ At(t, "out") /\ t \in Producer /\ initialized /\ sent[t] < MaxLines
    /\ Go(t, "checked")
    /\ sent' = [sent EXCEPT ![t] = @ + 1]
    /\ fate' = [fate EXCEPT ![<<t, sent[t] + 1>>] = "calling"]
    /\ UNCHANGED <<engineVars, workerVars, call, rc, ctl, due, used,
                   stateVars, lineVars, ops>>

\* The mode is read once; the call of hx_async_enqueue begins.
WriteReadMode(t) ==
    /\ At(t, "checked")
    /\ IF mode = "ASYNC"
       THEN Go(t, "engine") /\ call' = [call EXCEPT ![t] = "enq"]
       ELSE Go(t, "direct") /\ UNCHANGED call
    /\ UNCHANGED <<engineVars, workerVars, rc, sent, ctl, fate, due, used,
                   stateVars, lineVars, ops>>

WriteEnqueue(t) == At(t, "engine") /\ Enqueue(t) /\ UNCHANGED coreVars

\* A FATAL record is followed by hx_clog_flush.
AfterWrite(t) == Go(t, IF cur(t) \in Fatal THEN "flush" ELSE "out")

\* An unavailable engine means a direct write; other errors are honored.
FallsBack_Never(t) == FALSE                    \* (mutant)
FallsBack_Always(t) == rc[t] \in Codes         \* (mutant) missing return
FallsBack(t) == rc[t] = "NOT_INITIALIZED"

WriteEngineReturned(t) ==
    /\ At(t, "engine") /\ call[t] = "idle"
    /\ IF FallsBack(t) THEN Go(t, "direct") ELSE AfterWrite(t)
    /\ UNCHANGED <<vars, stateVars, lineVars, ops>>

WriteDirect(t) ==
    /\ At(t, "direct")
    /\ EmitToSinks(cur(t))
    /\ AfterWrite(t)
    /\ UNCHANGED <<vars, stateVars, ops>>

-----------------------------------------------------------------------------
(***************************************************************************)
(* hx_clog_flush, called by the application, after a FATAL record, by      *)
(* reconfigure and at exit.                                                *)
(***************************************************************************)
FlushCall(t) ==
    /\ At(t, "out") /\ t \in Producer
    /\ Spend("flush")
    /\ Go(t, "flush")
    /\ UNCHANGED <<engineVars, workerVars, callVars, ctl, fate, due,
                   stateVars, lineVars, ops>>

AfterFlush(t) == Go(t, IF t = Admin THEN "r_mode" ELSE "out")

\* The initialized flag and the mode are read.
FlushReadFlags(t) ==
    /\ At(t, "flush")
    /\ IF ~initialized THEN AfterFlush(t)
       ELSE Go(t, IF mode = "ASYNC" THEN "fmode" ELSE "fsinks")
    /\ UNCHANGED <<vars, stateVars, lineVars, ops>>

FlushEngine(t) ==
    /\ At(t, "fmode")
    /\ AsyncFlush(t)
    /\ Go(t, "fengine")
    /\ UNCHANGED <<used, stateVars, lineVars, ops>>

FlushEngineReturn(t) == At(t, "fengine") /\ FlushReturn(t) /\ UNCHANGED coreVars

FlushEngineReturned(t) ==
    /\ At(t, "fengine") /\ call[t] = "idle"
    /\ Go(t, "fsinks")
    /\ UNCHANGED <<vars, stateVars, lineVars, ops>>

FlushSinksStep(t) ==
    /\ At(t, "fsinks")
    /\ FlushSinks
    /\ AfterFlush(t)
    /\ UNCHANGED <<vars, stateVars, ops>>

-----------------------------------------------------------------------------
(***************************************************************************)
(* The lifecycle.  init_lock is held from the first step of an operation   *)
(* to its last, so the one admin thread stands for all callers.            *)
(***************************************************************************)
BeginOp(op) == /\ At(Admin, "out")
               /\ ops[op] < AdminBudget[op]
               /\ ops' = [ops EXCEPT ![op] = @ + 1]

\* hx_clog_init_locked up to the sinks: the requested mode is published and
\* the sink table emptied before the library is marked initialized.
InitBegin(m) ==
    /\ BeginOp("init")
    /\ ~initialized
    /\ mode' = m /\ want' = m
    /\ sinks' = {}
    /\ Go(Admin, "i_sinks")
    /\ UNCHANGED <<vars, initialized, lineVars>>

\* The file sink is added.  If it cannot be opened, init goes on with the
\* sinks there are, and fails when there is none.
InitSinks ==
    /\ At(Admin, "i_sinks")
    /\ sinks' \in {sinks, sinks \cup {"file"}}
    /\ Go(Admin, IF sinks' = {} THEN "out"
                 ELSE IF want = "ASYNC" THEN "i_start" ELSE "i_publish")
    /\ UNCHANGED <<vars, initialized, mode, want, lineVars, ops>>

\* hx_async_start begins, or its allocation fails.
StartEngine(from, wait, failed) ==
    /\ At(Admin, from)
    /\ \/ AsyncStart /\ UNCHANGED used /\ Go(Admin, wait) /\ UNCHANGED mode
       \/ /\ AllocMayFail /\ UNCHANGED vars
          /\ Go(Admin, failed) /\ mode' = "SYNC"
    /\ UNCHANGED <<initialized, sinks, want, lineVars, ops>>

\* hx_async_start ends with the worker running or, without one, in SYNC mode.
EngineStarted(wait, done, failed) ==
    /\ At(Admin, wait)
    /\ \/ StartThread /\ Go(Admin, done) /\ UNCHANGED mode
       \/ StartFail /\ Go(Admin, failed) /\ mode' = "SYNC"
    /\ UNCHANGED <<initialized, sinks, want, lineVars, ops>>

InitStart   == StartEngine("i_start", "i_wait", "i_publish")
InitStarted == EngineStarted("i_wait", "i_publish", "i_publish")

InitPublish ==
    /\ At(Admin, "i_publish")
    /\ initialized' = TRUE
    /\ Go(Admin, "out")
    /\ UNCHANGED <<vars, mode, sinks, want, lineVars, ops>>

\* hx_clog_add_callback_sink: any thread, initialized or not, without init_lock.
AddCallbackSink(t) ==
    /\ At(t, "out")
    /\ ops["callback"] < AdminBudget["callback"]
    /\ ops' = [ops EXCEPT !["callback"] = @ + 1]
    /\ sinks' = sinks \cup {"cb"}
    /\ UNCHANGED <<vars, initialized, mode, want, lineVars, pc>>

\* hx_clog_reconfigure_locked: the new file is open; flush first.
ReconfigureBegin(m) ==
    /\ BeginOp("reconfigure")
    /\ initialized
    /\ want' = m
    /\ Go(Admin, "flush")
    /\ UNCHANGED <<vars, initialized, mode, sinks, lineVars>>

\* Producers are switched to the synchronous path before the engine stops.
ReconfigureMode_Late ==  \* (mutant) the engine stops first
    /\ At(Admin, "r_mode")
    /\ Go(Admin, IF mode = "ASYNC" THEN "r_stop" ELSE "r_swap")
    /\ UNCHANGED <<vars, stateVars, lineVars, ops>>
ReconfigureMode ==
    /\ At(Admin, "r_mode")
    /\ IF mode = "ASYNC" THEN mode' = "SYNC" /\ Go(Admin, "r_stop")
                         ELSE UNCHANGED mode /\ Go(Admin, "r_swap")
    /\ UNCHANGED <<vars, initialized, sinks, want, lineVars, ops>>

\* hx_async_stop, called with the engine running or not.
StopEngine(from, join, done) ==
    /\ At(Admin, from)
    /\ IF running THEN StopBegin /\ Go(Admin, join)
                  ELSE UNCHANGED vars /\ Go(Admin, done)
    /\ UNCHANGED <<stateVars, lineVars, ops>>

EngineStopped(join, done) ==
    /\ At(Admin, join)
    /\ StopDetach
    /\ Go(Admin, done)
    /\ UNCHANGED <<stateVars, lineVars, ops>>

ReconfigureStop    == StopEngine("r_stop", "r_join", "r_swap")
ReconfigureStopped == EngineStopped("r_join", "r_swap")

\* Under sink_lock the old file is flushed and closed and the new one added;
\* callback sinks stay.
ReconfigureSwap ==
    /\ At(Admin, "r_swap")
    /\ sinks' = (sinks \cap {"cb"}) \cup {"file"}
    /\ FlushSinks
    /\ mode' = "SYNC"
    /\ Go(Admin, IF want = "ASYNC" THEN "r_start" ELSE "out")
    /\ UNCHANGED <<vars, initialized, want, ops>>

ReconfigureStart   == StartEngine("r_start", "r_wait", "out")
ReconfigureStarted == EngineStarted("r_wait", "r_publish", "out")

ReconfigurePublish ==
    /\ At(Admin, "r_publish")
    /\ mode' = "ASYNC"
    /\ Go(Admin, "out")
    /\ UNCHANGED <<vars, initialized, sinks, want, lineVars, ops>>

\* hx_clog_shutdown: no new logs, stop the engine, close the sinks.  The mode
\* keeps its value.
ShutdownBegin_CloseFirst ==  \* (mutant) the sinks close before the drain
    /\ BeginOp("shutdown") /\ initialized
    /\ initialized' = FALSE /\ sinks' = {} /\ FlushSinks
    /\ Go(Admin, IF mode = "ASYNC" THEN "s_stop" ELSE "s_close")
    /\ UNCHANGED <<vars, mode, want>>
ShutdownBegin ==
    /\ BeginOp("shutdown")
    /\ initialized
    /\ initialized' = FALSE
    /\ Go(Admin, IF mode = "ASYNC" THEN "s_stop" ELSE "s_close")
    /\ UNCHANGED <<vars, mode, sinks, want, lineVars>>

ShutdownStop    == StopEngine("s_stop", "s_join", "s_close")
ShutdownStopped == EngineStopped("s_join", "s_close")

ShutdownClose ==
    /\ At(Admin, "s_close")
    /\ sinks' = {} /\ FlushSinks
    /\ Go(Admin, "out")
    /\ UNCHANGED <<vars, initialized, mode, want, ops>>

-----------------------------------------------------------------------------
(***************************************************************************)
(* The engine's own steps, with what they do to the sinks.                 *)
(***************************************************************************)
CoreWorker ==
    \/ /\ WorkerLoop \/ WorkerTick \/ WorkerTake \/ WorkerSkip
          \/ WorkerRelock \/ WorkerBatchEnd
       /\ UNCHANGED coreVars
    \/ WorkerEmit /\ EmitToSinks(scratch) /\ UNCHANGED <<stateVars, pc, ops>>
    \/ WorkerSync /\ FlushSinks /\ UNCHANGED <<stateVars, pc, ops>>

CoreWakeup(t) == SpuriousWakeup(t) /\ UNCHANGED coreVars

Write(t) == \/ WriteReadMode(t) \/ WriteEnqueue(t) \/ WriteEngineReturned(t)
            \/ WriteDirect(t)
Flush(t) == \/ FlushReadFlags(t) \/ FlushEngine(t) \/ FlushEngineReturn(t)
            \/ FlushEngineReturned(t) \/ FlushSinksStep(t)
AdminStep == \/ InitSinks \/ InitStart \/ InitStarted \/ InitPublish
             \/ ReconfigureMode \/ ReconfigureStop \/ ReconfigureStopped
             \/ ReconfigureSwap \/ ReconfigureStart \/ ReconfigureStarted
             \/ ReconfigurePublish
             \/ ShutdownStop \/ ShutdownStopped \/ ShutdownClose
AdminCall == \/ \E m \in Mode : InitBegin(m) \/ ReconfigureBegin(m)
             \/ ShutdownBegin

CoreTerminated == /\ ~running /\ \A t \in Thread : At(t, "out")
                  /\ UNCHANGED allVars

CoreNext == \/ \E t \in Thread : \/ WriteBegin(t) \/ Write(t) \/ FlushCall(t)
                                 \/ AddCallbackSink(t)
                                 \/ Flush(t) \/ CoreWakeup(t)
            \/ CoreWorker \/ AdminStep \/ AdminCall \/ CoreTerminated

CoreSpec == CoreInit /\ [][CoreNext]_allVars

CoreFairSpec == /\ CoreSpec
                /\ WF_allVars(CoreWorker) /\ WF_allVars(AdminStep)
                /\ \A t \in Thread : WF_allVars(Write(t) \/ Flush(t))

-----------------------------------------------------------------------------
(***************************************************************************)
(* Properties.                                                             *)
(***************************************************************************)
Logged(l) == l[2] <= sent[l[1]] /\ (l = cur(l[1]) => ~At(l[1], "checked")
                /\ ~At(l[1], "engine") /\ ~At(l[1], "direct"))
Reached(l) == \E s \in Sink : received[l][s] > 0
Lost(l)   == Logged(l) /\ ~Reached(l)
             /\ fate[l] \notin {"queued", "dropped", "forgotten"}

\* Reconfiguring is lossless under concurrent logging (README.md:110): until
\* a shutdown begins, a line whose logging call returned reached a sink, is
\* still queued, or was dropped and counted by the overflow policy, whatever
\* init and reconfigure do to the engine and the sinks meanwhile.
ReconfigureLosesNothing == ops["shutdown"] = 0 => \A l \in Line : ~Lost(l)

\* A line the engine refused is written by the fallback of core_dispatch_line,
\* which "keeps that window lossless" (core.c:2229): once its call returned,
\* it reached a sink.
RefusedLineIsWritten ==
    \A l \in Line : Logged(l) /\ fate[l] = "refused" => Reached(l)

\* Shutdown drains the queue before closing files: every line the worker
\* delivered reached a sink that was still open.
DrainReachesSinks == \A l \in Line : fate[l] = "emitted" => Reached(l)

\* A line reaches each sink at most once, by the worker or directly, whatever
\* the fallback of core_dispatch_line decides.
NoDoubleDelivery == \A l \in Line : \A s \in Sink : received[l][s] <= 1

\* Whoever reads the flags as initialized and ASYNC finds a live engine: the
\* mode is published after the worker starts and withdrawn before it stops.
PublishedModeHasEngine ==
    initialized /\ mode = "ASYNC" => running /\ ~stop /\ wpc \notin {"none", "exited"}

\* "FATAL records are flushed immediately" (docs/api.md:125): while nobody
\* shuts down, a FATAL line whose call returned is out of the process.
FatalIsFlushed ==
    ops["shutdown"] = 0 =>
       \A t \in Producer :
          cur(t) \in Fatal /\ At(t, "out")
             => \/ fate[cur(t)] \in {"dropped", "forgotten"}
                \/ Reached(cur(t)) /\ cur(t) \notin buffered

\* Every call returns: writes and flushes of a producer, lifecycle operations.
\* One wait need not end: a producer that read ASYNC before a reconfigure may
\* wait for space in the engine the reconfigure starts.  If the worker's thread
\* cannot be created, hx_async_start gives up (hx_clog_async.c:135-142) without
\* a stop or a broadcast and with the count of a full ring: the producer waits
\* on beside an engine that does not run; a later hx_async_start wakes nobody
\* either.
Stranded(t) == call[t] = "blocked" /\ ~running
CallsReturn == \A t \in Thread :
                  []~Stranded(t) => (~At(t, "out") ~> At(t, "out"))
=============================================================================
