------------------------------- MODULE HxLocks -------------------------------
(***************************************************************************)
(* The locks of the library and who waits for whom: init_lock, sink_lock   *)
(* (recursive), the lock of a file sink, stats_lock, logger_lock,          *)
(* g_async_lock, g_err_lock, g_dup.lock and g_ring_lock, the waits of the  *)
(* engine for its worker and of the worker for the sinks, and the handlers *)
(* that hx_clog registers with pthread_atfork.                             *)
(*                                                                         *)
(* A call is the sequence of what it takes, frees and waits for; all other *)
(* effects are left to the modules of the components.  The ring has one    *)
(* slot and the policy is BLOCK.  Callback sinks run under sink_lock and   *)
(* may call what Reentrant lists; the crash ring exists.                   *)
(***************************************************************************)
EXTENDS Integers, Sequences, FiniteSets

CONSTANTS
    User,       \* the application's threads
    Engine,     \* the worker of the asynchronous engine
    Nobody,     \* no thread
    Reentrant,  \* the calls callback sinks make
    MaxUses     \* bound: calls of the application

Locks == {"init", "sink", "file", "stats", "logger", "async", "err", "dup", "ring"}

\* prepare takes them in this order; a file sink's lock is taken under sink.
ForkOrder_NoStats ==      \* (mutant) the lock of the counters is left out
    <<"init", "sink", "logger", "async", "err", "dup", "ring">>
ForkOrder == <<"init", "sink", "stats", "logger", "async", "err", "dup", "ring">>

ASSUME LocksAssumption == /\ Engine \notin User /\ Nobody \notin User \cup {Engine}
                          /\ MaxUses \in Nat

VARIABLES
    holder,   \* who holds each lock
    depth,    \* how often its holder has taken sink_lock
    todo,     \* what each thread has still to do in its call
    up,       \* g_core.initialized
    amode,    \* the mode is ASYNC
    engine,   \* "off", "running", "stopping" or "exited"
    full,     \* the ring holds a line
    uses      \* history: calls begun by the application

lockVars == <<holder, depth, todo, up, amode, engine, full, uses>>

Who == User \cup {Engine}
Step == [do : {"take", "free"}, lock : Locks]
        \cup [do : {"callback", "pending", "dispatch", "put", "room", "flushq", "drain",
                    "empty", "stop", "halt", "join", "gone", "start", "pop", "exit",
                    "fork", "up", "down"}]

LocksTypeOK ==
    /\ holder \in [Locks -> Who \cup {Nobody}] /\ depth \in Nat
    /\ todo \in [Who -> Seq(Step)]
    /\ up \in BOOLEAN /\ amode \in BOOLEAN /\ full \in BOOLEAN
    /\ engine \in {"off", "running", "stopping", "exited"}
    /\ uses \in 0..MaxUses

LocksInit ==
    /\ holder = [k \in Locks |-> Nobody] /\ depth = 0
    /\ todo = [x \in Who |-> <<>>]
    /\ up = TRUE /\ amode = TRUE /\ engine = "running" /\ full = FALSE
    /\ uses = 0

-----------------------------------------------------------------------------
(***************************************************************************)
(* The calls as sequences of steps.                                        *)
(***************************************************************************)
Take(k)       == <<[do |-> "take", lock |-> k]>>
Free(k)       == <<[do |-> "free", lock |-> k]>>
Do(what)      == <<[do |-> what]>>
With(k, body) == Take(k) \o body \o Free(k)
Visit(k)      == With(k, <<>>)

\* hx_core_report_error copies the handler under the lock and calls it after.
ReportError == Visit("err")

\* A rotation reports its errors and counts itself under the file's lock.
WriteSinks == With("sink", With("file", ReportError \o Visit("stats")) \o Do("callback"))
              \o Visit("stats")
FlushSinks == With("sink", Visit("file"))
Summary    == Visit("dup") \o Do("pending")
Flushing   == Summary \o Do("flushq") \o FlushSinks

\* fmt_cache_refresh, dup_check_and_update, hx_ring_push, the snapshot of the
\* overrides, core_dispatch_line
Logging == Visit("sink") \o Summary \o Visit("ring") \o Visit("sink") \o Do("dispatch")

\* Reconfigure stops the engine before it takes sink_lock.
ReplaceSinks_StopInside ==   \* (mutant) the engine is stopped under sink_lock
    With("sink", Do("stop") \o Visit("file") \o ReportError)
ReplaceSinks == Do("stop") \o With("sink", Visit("file") \o ReportError)

Program(c) ==
    CASE c = "log"         -> Logging
      [] c = "fatal"       -> Logging \o Flushing
      [] c = "flush"       -> Flushing
      [] c = "sinks"       -> With("sink", Visit("file"))
      [] c = "stats"       -> With("stats", Visit("async") \o Visit("async"))
      [] c = "loggers"     -> Visit("logger")
      [] c = "config"      -> Visit("init")
      [] c = "init"        -> With("init", ReportError \o Do("start") \o Do("up"))
      [] c = "reconfigure" -> With("init", ReportError \o Flushing \o ReplaceSinks
                                           \o Do("start"))
      [] c = "shutdown"    -> With("init", Summary \o Do("down") \o Do("stop")
                                           \o With("sink", Visit("file")))
      [] c = "fork"        ->
           LET n == Len(ForkOrder)
           IN [i \in 1..n |-> [do |-> "take", lock |-> ForkOrder[i]]] \o Do("fork")
              \o [i \in 1..n |-> [do |-> "free", lock |-> ForkOrder[n + 1 - i]]]

NeedsUp == {"log", "fatal", "flush", "reconfigure", "shutdown", "config"}

-----------------------------------------------------------------------------
(***************************************************************************)
(* The steps.                                                              *)
(***************************************************************************)
At(x, what) == todo[x] # <<>> /\ Head(todo[x]).do = what
GoOn(x, more) == todo' = [todo EXCEPT ![x] = more \o Tail(@)]
SameLocks == UNCHANGED <<holder, depth>>
SameEngine == UNCHANGED <<up, amode, engine, full>>

UseApi(x, c) ==
    /\ todo[x] = <<>> /\ uses < MaxUses
    /\ c \in NeedsUp => up
    /\ c = "init" => ~up
    /\ uses' = uses + 1
    /\ todo' = [todo EXCEPT ![x] = Program(c)]
    /\ SameLocks /\ SameEngine

\* sink_lock may be taken again by its holder.
TakeLock(x) ==
    /\ At(x, "take")
    /\ LET k == Head(todo[x]).lock IN
       /\ holder[k] = Nobody \/ (k = "sink" /\ holder[k] = x)
       /\ holder' = [holder EXCEPT ![k] = x]
       /\ depth' = IF k = "sink" THEN depth + 1 ELSE depth
    /\ GoOn(x, <<>>)
    /\ SameEngine /\ UNCHANGED uses

FreeLock(x) ==
    /\ At(x, "free")
    /\ LET k == Head(todo[x]).lock IN
       /\ holder' = IF k = "sink" /\ depth > 1 THEN holder
                    ELSE [holder EXCEPT ![k] = Nobody]
       /\ depth' = IF k = "sink" THEN depth - 1 ELSE depth
    /\ GoOn(x, <<>>)
    /\ SameEngine /\ UNCHANGED uses

\* A callback sink is there or not, and calls back or not.
Callback(x) ==
    /\ At(x, "callback")
    /\ GoOn(x, <<>>) \/ \E c \in Reentrant : GoOn(x, Program(c))
    /\ SameLocks /\ SameEngine /\ UNCHANGED uses

\* dup_emit_summary, if repetitions were counted.
Pending(x) ==
    /\ At(x, "pending")
    /\ GoOn(x, <<>>) \/ GoOn(x, Visit("ring") \o Do("dispatch"))
    /\ SameLocks /\ SameEngine /\ UNCHANGED uses

\* core_dispatch_line and hx_async_enqueue.
Dispatch(x) ==
    /\ At(x, "dispatch")
    /\ GoOn(x, IF amode THEN Take("async") \o Do("put") ELSE WriteSinks)
    /\ SameLocks /\ SameEngine /\ UNCHANGED uses

Put(x) ==
    /\ At(x, "put")
    /\ CASE engine # "running" -> GoOn(x, Free("async") \o WriteSinks) /\ UNCHANGED <<holder, full>>
         [] engine = "running" /\ full ->
              /\ GoOn(x, Do("room") \o Take("async") \o Do("put"))
              /\ holder' = [holder EXCEPT !["async"] = Nobody] /\ UNCHANGED full
         [] OTHER -> GoOn(x, Free("async")) /\ full' = TRUE /\ UNCHANGED holder
    /\ UNCHANGED <<depth, up, amode, engine, uses>>

\* hx_clog_flush and hx_async_flush.
FlushQueue(x) ==
    /\ At(x, "flushq")
    /\ GoOn(x, IF amode THEN Take("async") \o Do("drain") ELSE <<>>)
    /\ SameLocks /\ SameEngine /\ UNCHANGED uses

Drain(x) ==
    /\ At(x, "drain")
    /\ IF engine = "running" /\ full
       THEN /\ GoOn(x, Do("empty"))
            /\ holder' = [holder EXCEPT !["async"] = Nobody]
       ELSE GoOn(x, Free("async")) /\ UNCHANGED holder
    /\ SameEngine /\ UNCHANGED <<depth, uses>>

\* The wait for space and the polling wait of a flush are over.
WaitIsOver == ~full \/ engine # "running"
Resume(x) ==
    /\ At(x, "room") \/ At(x, "empty")
    /\ WaitIsOver
    /\ GoOn(x, IF At(x, "room") THEN <<>> ELSE Visit("async"))
    /\ SameLocks /\ SameEngine /\ UNCHANGED uses

\* hx_async_stop: set the flag, join the worker, let the slots go.
Stop(x) ==
    /\ At(x, "stop")
    /\ amode' = (amode /\ ~up)
    /\ GoOn(x, IF amode /\ engine = "running"
               THEN Take("async") \o Do("halt") \o Free("async") \o Do("join")
                    \o Take("async") \o Do("gone") \o Free("async")
               ELSE <<>>)
    /\ SameLocks /\ UNCHANGED <<up, engine, full, uses>>

Flag(x, what, e) ==
    /\ At(x, what)
    /\ engine' = e
    /\ GoOn(x, <<>>)
    /\ SameLocks /\ UNCHANGED <<up, amode, full, uses>>
Halt(x) == Flag(x, "halt", "stopping")
Gone(x) == Flag(x, "gone", "off")
Join(x) == engine = "exited" /\ Flag(x, "join", "exited")
Exit == Flag(Engine, "exit", "exited")

\* hx_async_start, if the configuration asks for it.
Start(x) ==
    /\ At(x, "start")
    /\ \/ engine' = "running" /\ amode' = TRUE
          /\ GoOn(x, Visit("async"))
       \/ amode' = FALSE /\ UNCHANGED engine /\ GoOn(x, <<>>)
    /\ SameLocks /\ UNCHANGED <<up, full, uses>>

Published(x) ==
    /\ At(x, "up") \/ At(x, "down")
    /\ up' = At(x, "up")
    /\ GoOn(x, <<>>)
    /\ SameLocks /\ UNCHANGED <<amode, engine, full, uses>>

\* Between the prepare handler and the release handlers the child is made.
Forked(x) ==
    /\ At(x, "fork")
    /\ GoOn(x, <<>>)
    /\ SameLocks /\ SameEngine /\ UNCHANGED uses

\* worker_main takes a line, flushes on a tick, or exits.
Work ==
    /\ todo[Engine] = <<>> /\ engine \in {"running", "stopping"}
    /\ todo' = [todo EXCEPT ![Engine] = Take("async") \o Do("pop") \o Free("async")]
    /\ SameLocks /\ SameEngine /\ UNCHANGED uses
Popped ==
    /\ At(Engine, "pop")
    /\ full' = FALSE
    /\ todo' = [todo EXCEPT ![Engine] = Tail(@) \o
                  (IF full THEN WriteSinks
                   ELSE FlushSinks \o (IF engine = "stopping" THEN Do("exit") ELSE <<>>))]
    /\ SameLocks /\ UNCHANGED <<up, amode, engine, uses>>

LocksNext ==
    \/ \E x \in User, c \in {"log", "fatal", "flush", "sinks", "stats", "loggers", "config",
                             "init", "reconfigure", "shutdown", "fork"} : UseApi(x, c)
    \/ \E x \in Who :
          \/ TakeLock(x) \/ FreeLock(x) \/ Callback(x) \/ Pending(x) \/ Dispatch(x) \/ Put(x)
          \/ FlushQueue(x) \/ Drain(x) \/ Resume(x)
          \/ Stop(x) \/ Halt(x) \/ Join(x) \/ Gone(x) \/ Start(x)
          \/ Published(x) \/ Forked(x)
    \/ Work \/ Popped \/ Exit

LocksSpec == LocksInit /\ [][LocksNext]_lockVars

-----------------------------------------------------------------------------
(***************************************************************************)
(* Properties.                                                             *)
(***************************************************************************)
\* The threads that must move before x can.
WaitsFor(x) ==
    CASE At(x, "take") -> LET k == Head(todo[x]).lock
                          IN IF holder[k] = Nobody \/ (k = "sink" /\ holder[k] = x)
                             THEN {} ELSE {holder[k]}
      [] At(x, "room") \/ At(x, "empty") -> IF WaitIsOver THEN {} ELSE {Engine}
      [] At(x, "join") -> IF engine = "exited" THEN {} ELSE {Engine}
      [] OTHER -> {}

\* No threads wait for each other, whatever calls meet, a fork among them: the
\* prepare handler's order is "consistent with all nested lock orders in the
\* code" (hx_clog_core.c:1256), nobody waits for the worker while it needs a
\* lock they hold, and a callback can make the calls of Reentrant.
NobodyWaitsInCircle ==
    \A S \in (SUBSET Who) \ {{}} : \E x \in S : WaitsFor(x) \cap S = {}

\* At the fork the forking thread holds every lock that is held, so the child
\* "inherits them valid and unlocked" (hx_clog_core.c:1260) once it has run the
\* release handler, and no lock is left to a thread that is not there.
ForkOwnsTheLocks ==
    \A x \in User : At(x, "fork") => \A k \in Locks : holder[k] \in {x, Nobody}
=============================================================================
