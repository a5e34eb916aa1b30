# hx_clog in TLA+

hx_clog is a logging library in C: a record passes level filters and a
formatter, goes synchronously or through a bounded ring to a table of sinks
(console, rotating file, callback, network), and must survive reconfiguration,
shutdown, forks and crashes. This directory models the parts of it where steps
of several actors, failures or long histories meet.

File and line references are to the repository; `async.c` stands for
`src/hx_clog_async.c`, and likewise `core.c`, `file.c`, `rotate.c`, `sink.c`,
`net.c`, `format.c`, `crash.c`.

## 1. Inventory

| component | state | operations | talks to |
| --- | --- | --- | --- |
| asynchronous engine (`async.c`) | `g_async`: slots, head, tail, count, policy, flags, statistics; the worker's locals; two condition variables | enqueue, worker loop, flush, start, stop, fork child | called by the write path and the lifecycle, calls `hx_core_emit_to_sinks` and `hx_core_flush_sinks` |
| core lifecycle and write path (`core.c`) | `initialized`, `mode`, configuration, sink table, counters; `init_lock`, `sink_lock` | init, reconfigure, shutdown, flush, log, add a sink | engine, sinks, formatter, error handler |
| rotating file sink (`file.c`, `rotate.c`) | open file, its size, day and open time, last failure; and the directory | write, flush, close, reopen; rotate by size, day, interval, at startup; clean up by age and count | the file system and the clock, under `sink_lock` and its own lock |
| sink table, overrides, format cache (`core.c`, `sink.c`) | ids, minimum levels, overrides, `format_gen`, a thread-local copy of the format | add, remove, set an override, refresh the cache | write path |
| duplicate suppression (`core.c`) | last record, repeat count, `g_dup.lock` | observe, summarise | write path |
| logger registry (`core.c`) | list of named loggers and their levels, the global and the default logger's level; `logger_lock` | get, set a level, set it for a prefix, drop all (freed at once) | write path, shutdown |
| thread-local context (`core.c`) | a list of keys and values per thread | put, remove, clear, format | formatter |
| crash ring (`core.c`) | ring of recent lines with text and length per slot, `head`, `count` | push, dump from a signal handler, init, destroy | write path, crash handler |
| network sink (`net.c`) | socket, retry time | write, connect with back-off, close | write path, under `sink_lock` |
| crash handler (`crash.c`, `core.c`) | previous signal actions, the installed flag, the crash callback and its user data | install, uninstall, set the callback, write a report, chain | crash ring |
| formatter (`format.c`) | none | format one record | write path |
| locks and fork (`core.c`) | nine locks, the waits for the worker; pthread_atfork handlers | every call; atfork prepare and release, `hx_clog_after_fork_child` | everything |
| API header, C++ wrapper, platform layer | none | declarations, inline calls, wrappers | everything |

How they interact. Producers call `core_writev` on any thread. It reads
`initialized` and later `mode` without a lock, then either enqueues (lock
`g_async_lock`) or walks the sink table (lock `sink_lock`, inside it each file
sink's own lock). The worker takes lines out under `g_async_lock`, *releases it*,
and walks the same sink table. The lifecycle operations hold `init_lock` for
their whole duration and take the other two inside. Rotation, compression and
network connects run in a write, that is under `sink_lock`.

What is hard to get right here:

* a line is handed over with no lock held on both sides: between the mode check
  and the enqueue, between the pop and the delivery, between the refusal by a
  stopping engine and the direct write;
* condition variables with three kinds of waiters and signals that wake one;
* start, stop, restart and failure of the worker under concurrent logging;
* a forked child that inherits any of these states without the threads;
* a rotation that consists of rename, reopen, compress and remove, each of which
  can fail or be the last thing the process does, and whose next decision rests
  on what the names and sizes on disk say;
* lock-free readers (statistics, levels, format generation, crash ring).

`PROJECT.json` lists these hazards one by one at their lines.

What makes each component correct:

* engine: an accepted line is delivered once, in order, or counted as dropped;
  nothing waits for ever; a stop drains; a child inherits nothing;
* core: a line whose call returned is in a sink, in the queue, or counted; at
  most once per sink; the published mode is the truth; every call returns, but for a
  producer that a failed thread creation strands;
* file sink: what reached a file stays until retention takes it; the newest
  archives stay; the size limit holds; names follow the order of writing;
* sink table and cache: a sink that stays as it is gets each line once, in its own
  format, and in one that was current during the call, whatever happens to the
  other sinks, unless the queue drops its rendering; each line counts once, or not
  at all if the queue drops the rendering that counts;
* duplicates: every folded line is told in one summary, and in one only;
* registry: a level set for a prefix holds for everything below it, whenever and by
  whichever thread that is created, until someone sets it otherwise;
* network: what one connection carries can be split into lines again, and failures
  are reported at most once per retry window;
* crash ring and handler: the report shows the last whole lines, the process ends by
  the action the application had, a callback meets its own user data, unless overlapping
  calls set it;
* locks: nobody waits in a circle, and a fork leaves no lock to a thread that is not
  there.

## 2. Modules

| module | models | built on |
| --- | --- | --- |
| `HxQueue` | abstract: a bounded FIFO channel that can be opened, closed, forked | – |
| `HxAsync` | `async.c` | refines `HxQueue` |
| `HxAsyncProofs` | theorems about `HxAsync`: its invariant, fates, wake-ups | `HxAsync`, TLAPS |
| `HxChannelProofs` | theorems about `HxAsync`: refinement, order, drops, flush | `HxAsyncProofs` |
| `HxCore` | lifecycle, flush and write path of `core.c`, composed with the engine | extends `HxAsync` |
| `HxCoreProofs` | theorems about `HxCore` | `HxCore`, `HxAsyncProofs` |
| `HxRotate` | `file.c` and `rotate.c` | – |
| `HxRotateProofs` | theorems about `HxRotate` | `HxRotate`, TLAPS |
| `HxSinks` | sink table, overrides, format cache, the emit loop (`core.c`) | – |
| `HxSinksProofs` | theorems about `HxSinks` | `HxSinks`, TLAPS |
| `HxRegistry` | named loggers and levels (`core.c`) | – |
| `HxDup` | duplicate suppression (`core.c`) | – |
| `HxNet` | the network sink (`net.c`) | – |
| `HxCrash` | crash ring, callback, handler (`core.c`, `crash.c`) | – |
| `HxCrashProofs` | theorems about `HxCrash` | `HxCrash`, TLAPS |
| `HxLocks` | the locks and waits of all calls, and fork | – |
| `HxLocksProofs` | theorems about `HxLocks` | `HxLocks`, TLAPS |
| `HxServicesMC` | `HxRegistry`, `HxDup`, `HxNet`, `HxLocks` in one run | the four |
| `HxServicesProofs` | theorems about `HxRegistry`, `HxDup`, `HxNet` and the four together | `HxServicesMC`, `HxLocksProofs` |
| `HxAsyncMC`, `HxCoreMC`, `HxRotateMC`, `HxSinksMC`, `HxCrashMC` | constants of the TLC runs | the above |

A definition whose name ends in a word after an underscore and that is marked
`(mutant)` is not part of its module: it is what the definition after it would be with
a plausible bug, kept to show that a property can see the difference.

### HxAsync

One action is one critical section of `g_async_lock`. The worker's batch loop
keeps the lock between iterations, so `wpc = "batch"` means the lock is taken
(`LockFree`). The variables are the fields of `g_async`, the locals of
`worker_main` (`wpc`, `scratch`, `written`, `should_exit`), and per thread the
state of its call: waiting for the lock, in the wait set of `not_full`,
signalled but not yet running, in the polling wait of a flush. A signal moves one
blocked thread to `woken`; that thread must still win the lock against
newcomers, which is where wake-ups get lost. Waits can return spuriously.

A line is `<<thread, n>>`. `fate` is a history variable that follows each line:
queued, emitted, dropped, refused, and so on; the properties relate it to the
engine's own indices and counters.

| code | actions |
| --- | --- |
| `hx_async_enqueue` (146-241) | `Submit`, `EnqueueRefuse`, `EnqueueDropNew`, `EnqueueBlock`, `EnqueuePush`, `EnqueueDropOld`, `EnqueueNoMemory`, `EnqueueDropOldNoMemory` |
| `worker_main` (243-335) | `WorkerLoop`, `WorkerTick`, `WorkerSync`, `WorkerTake`, `WorkerSkip`, `WorkerEmit`, `WorkerRelock`, `WorkerBatchEnd` |
| `hx_async_flush` (337-355) | `AsyncFlush` / `FlushBegin`, `FlushReturn` |
| `hx_async_start` (106-144) | `AsyncStart` / `StartBegin`, `StartThread`, `StartFail` |
| `hx_async_stop` (357-407) | `StopBegin`, `StopDetach` |
| `hx_async_after_fork_child` (409-443) | `ForkChild` |

Left out: the text of a line, the one-in-N throttle of drop reports and the two
statistics getters. `HxQueue` says the same without indices, locks, wait sets or
batches; `IsBoundedChannel` instantiates it with the content of the ring as its
sequence.

### HxCore

Extends `HxAsync` with `initialized`, `mode`, the set of open sinks, the stdio
buffer of the file sink, and a program counter per thread. The admin thread runs
init, reconfigure and shutdown; `init_lock` makes one thread stand for all
callers. Producers run `core_writev` to `core_dispatch_line` in the steps the code
has: the check of `initialized`, the read of `mode`, the enqueue, the fallback,
the direct write, and the flush after a FATAL record. The sink walk holds
`sink_lock` and is one action. Every engine action is conjoined with what it
means for the sinks (`WorkerEmit` delivers, `WorkerSync` flushes).

Left out here and modelled elsewhere: minimum levels, formats, overrides and
callbacks that change the table (`HxSinks`), duplicate suppression (`HxDup`), the
levels of loggers (`HxRegistry`), the locks themselves (`HxLocks`). Left out
altogether: `hx_clog_reopen`, the copy of the configuration, the environment
overrides. Forks are in `HxAsync` and `HxLocks`.

### HxRotate

The disk is a function from names to contents; a name is a record of kind
(`active`, `plain`, `gz`), directory, date and index, so that the strict name
match is a selection of records. The sink's fields keep their names. All of an
operation runs under the sink's lock, so its steps do not interleave with other
calls; the clock, failing system calls and the end of the process come between
them, which is why rename, reopen, the scan, each compression step and each
removal are separate actions. Lines are numbered in the order written and have 1 to
`MaxSize` bytes; a byte is the pair of its line and its position, so that a file is a
set of bytes and its size the cardinality. With `max_file_size` 1 a line of two bytes is
longer than the limit, and with 2 it depends on what the file holds whether the next
line still fits: `NeedSize` needs all of its conjuncts. Bytes reach the file when the
stdio buffer does (`Flush` may happen at any time between calls, as stdio may decide),
and a failing `fwrite` takes the first bytes of a line.

| code | actions |
| --- | --- |
| `hx_sink_file_create`, `file_flush`, `hx_sink_file_reopen`, `file_close` | `Create`, `Flush`, `Reopen`, `Close` |
| `file_write` | `WriteStraight`, `WriteRotate`, `WriteRollover`, then `Append` |
| `hx_rotate_maybe` (603-759) | `Rotates`, `BeginArchive`, `RenameDone`, `RenameFails`, `OpenSame`, `OpenNew`, `Rollover` |
| `hx_rotate_force` (761-824) | `RotateForce` and the same steps |
| `hx_rotate_cleanup` (423-600), `gzip_file` | `Collect`, `DeleteAged`, `CompressBegin`, `CompressWrite`, `CompressDone`, `DeleteExcess`, `CompressEnd`, `CapDelete`, `CleanupEnd` |
| external | `Tick`, `Crash`, `MoveAway` (a tool such as logrotate, then `Reopen`) |

Faults: fopen, opendir, rename, remove, gzip and fwrite may fail, a scan for the
cleanup may end early (`collect_grow` without memory), the process may die, the file
may be moved; a behaviour has at most `MaxFaults` of them. History
variables: `flushed`, `expired` (deleted by retention), `erased` (overwritten),
`blind` (a scan for the next index failed), `owed` (a rotation failed since the
last success). Left out: the once-per-episode flags of error reports, the
Windows branches, a clock that goes back, a failing `mkdir` apart from a failing
`fopen`, a crash that leaves part of a stdio buffer in the file.

### HxSinks

The table is a sequence of records (id, callback or not, minimum level, override).
Every change of pattern, mode or formatter is a new *version* of the format; a
rendered line is a job with its target, its shape and the version it was rendered
with. `steady` is a history: for each line, the sinks whose entry in the table has not
changed since the line's call began.

| code | actions |
| --- | --- |
| `core_writev` up to `fmt_cache_refresh` | `Log` (the generation is read without the lock), `Refresh` |
| `core_dispatch_record` (render, snapshot of overrides, variants) | `Render`, `Snap` |
| `core_dispatch_line` | `Enqueue` (the queue takes the rendering, drops it, or drops its oldest), `EmitBegin` for a direct write; `GoOn` to the next rendering |
| the worker | `WorkerTake` |
| `hx_core_emit_to_sinks` | `EmitBegin`, `EmitSink` (one sink; a callback may change table and format under the recursive lock), `EmitEnd` |
| `hx_clog_add_callback_sink`, `remove_sink`, `set_sink_level`, `set_sink_pattern`, `set_sink_format_mode` | `Change` with `TableOp` |
| `hx_clog_set_pattern`, `set_format_mode`, `set_formatter` | `Change` with `SetFormat` |
| the swap of `hx_clog_reconfigure` | `Change` with `Swap` |

`format_gen` counts modulo `GenWidth`, for 2^32, and starts shortly before the wrap.
A thread that sleeps while all generations pass would take an old format for the
current one; the assumption on `GenWidth` excludes it. Callbacks that log are left
out.

Mode, capacity and policy are those of `HxAsync` and `HxCore`; here each rendering goes
directly, into the queue, or is dropped (`QUEUE_FULL`, `OUT_OF_MEMORY`, or as the oldest
one under DROP_OLD), as it may with some engine. `dropped` is the history of what the
queue lost. A line is several renderings and each meets its own fate: the one that
counts may be dropped and a variant of the same line delivered, and the other way
round. `LinesCountedOnce` excepts exactly the lines whose counting rendering is in
`dropped`, and `SteadySinksGetTheLine` the sinks whose rendering is. The swap of a
reconfigure comes when the queue is drained and the worker joined, which `HxCore` shows.

### HxRegistry

The list is a sequence in order of creation; a name is a value with its set of dotted
ancestors, and `Stored` maps it to what 127 characters keep of it. One action is one
section of `logger_lock`: `Get`, `PrefixBegin` and `PrefixSweep` (the two sections of
`hx_clog_set_level_for_prefix`, between which any other call may run), `SweepAll` (the
empty prefix), `SetLogger`, `DropAll`; and the two stores of `hx_clog_set_level`
without a lock (`SetLevel` or `SetDefaultLogger`, then `StoreSecond`). `rule` is a
history: the level last set for a prefix that nothing has contradicted yet.

### HxDup

A thread logs in the steps `WriteBegin`, `WriteFilter` (the flag is read without the
lock), `Fold` or `NewMessage` or `CheckDisabled` (`dup_check_and_update`), `Emit`;
summaries are `TakePending` (`dup_flush_pending`), `SummaryCheck` and `SummaryOut`
(`dup_emit_summary`, outside the lock). Flush, enabling, disabling, shutdown and init
are the other calls. The count is the *set* of the lines it counts, so that a line
told twice or never shows. Whether two equal messages are within the window is left
open. `raced` records that the suppression was switched off, or the library shut down,
while another call ran: then a count may be discarded, and `RepeatsAreTold` asks
only that nothing is told twice.

### HxNet

`net_write` is `WriteDropped` (within the back-off), `WriteAttempt` then `OpenDone` or
`OpenFails`, or `WriteConnected`; then `SendPart` until the line is out or `SendFails`
for TCP, `SendDatagram` or `DatagramFails` for UDP. `wire` is the history of the
pieces sent with the number of their connection. Resolving and connecting to several
addresses in turn is one step that succeeds or fails, after any time.

### HxCrash

`hx_ring_push` is six steps under `g_ring_lock` (`PushLock` to `PushCount`), because a
fatal signal may hit its thread between any two, or another thread's handler may
read the ring, without the lock, meanwhile. `Install*`, `Uninstall`, `Shutdown`,
`Start*` and `Set*` are the calls that change handlers, ring and callback, in steps
where the code has no lock. Any of them may overlap any other: two installs, an install
and the `hx_ring_init` of `hx_clog_init` (`RingCheck`, then `RingAlloc`), two calls of
`hx_clog_set_crash_callback`, each with its own callback and data in `sval`. Two guards
exclude something. `Start` comes from one thread at a time, as `init_lock` has it; and
`Shutdown` comes when nobody is inside a push, an install or the handler, because the
ring it frees under them is undefined behaviour that the API leaves to the caller. The
handler runs `Open`, `DumpHead` to `DumpEnd`,
`ReadCallback`, `CallCallback`, `Restore`, `Raise`. One signal stands for the five, and
one thread crashes.

`late` counts the pushes under way while the ring is read; each may cost one line of
those due. The start of the dump is computed from two numbers, read one after the other:
if a push comes between, the walk starts one slot off. In a full ring this turns
nothing around, as the slot left out is the one being overwritten; before the ring was
full once, the lines come out rotated. `Torn` names that case and `ReportInOrder`
excepts it. Histories say what else the properties except: `clash` (installs that
overlapped each other or the handler), `remade` (a `hx_ring_init` that reset a ring
another one had made), `mixed` (the callback was last set by calls that overlapped),
`reset` (the data was replaced between the handler's two reads).

### HxLocks

A call is the *program* of what it takes, frees and waits for (`Program`), and the
actions run the programs step by step: `TakeLock`, `FreeLock` (`sink_lock` is
recursive), `Put` and `Resume` for a full ring, `Drain` and `Resume` for the wait of a
flush, `Stop`, `Halt`, `Join`, `Gone` for the end of the engine, `Work`, `Popped`,
`Exit` for the worker, `Callback` for a callback sink that calls the API, and the atfork
handlers. All data is left to the other modules, choices that depend on it are open.

## 3. Runs

| run | configuration | what it shows |
| --- | --- | --- |
| `async` | 2 threads, 2 lines each; DROP_NEW (capacity 2, batch 2), DROP_OLD (2, 1), BLOCK (1, 2); 2 starts, a flush, a fork; malloc and thread creation may fail | safety of the engine and of a forked child, and the refinement of `HxQueue` |
| `async_live` | BLOCK, capacity 1, no failures; fairness | accepted lines leave; enqueue, flush and stop return; no wake-up is lost |
| `async_no_memory` | violation: 3 threads, one line each, malloc may fail | a producer stays blocked beside an empty ring |
| `core` | 2 producers, 2 lines, BLOCK, ring of 1; init, callback sink, reconfigure, shutdown; malloc may fail | lossless reconfigure, drain before close, no double delivery, mode and engine agree |
| `core_live` | 2 producers, 1 line each, one of them FATAL, BLOCK, ring of 1; flush, init, reconfigure, shutdown; thread creation may fail; fairness | every call returns, but for a producer a failed thread creation strands |
| `core_shutdown` | violation: init and shutdown | a refused line is written to no sink |
| `core_fatal` | violation: a FATAL line | the flush returns before the line is out |
| `rotate` | 2 configurations (aligned intervals, a directory per day, compression with a cap and startup rotation; and intervals of a second, dates in one directory, deletion by age and number without zlib) with limits of 1 and 2 bytes, 3 lines of 1 or 2 bytes, 4 seconds in days of 2, 2 creations, any 2 of 8 kinds of faults | nothing that reached a file is lost but by retention; names, sizes, limits; without faults the newest archives are spared |
| `rotate_retention` | violation: 1 plain and 1 compressed archive kept, one crash | cleanup counts an archive twice and deletes the newest |
| `sinks` | 2 writers, 2 lines, renderings written, queued or dropped, tables of up to 2 sinks, 2 changes, 5 generations from the last one before the wrap | unchanged sinks get each line once and in their format, or nothing if it was dropped; formats are fresh; lines count once, but for dropped ones |
| `crash` | 2 threads, ring of 3, 4 pushes and 2 calls, at most 5 together, with and without the handler and the ring at first, a crash at any point | the report has the last lines, in order; the previous action ends the process; callback and data match |
| `services` | four components, one at a time. Registry: 2 threads, 4 names (three nested, one too long), 2 levels, 4 calls. Duplicates: 2 threads with 2 lines of 2 messages, 4 other calls. Network: 4 lines of 2 pieces, back-off 2, clock to 7. Locks: 2 threads and the worker, 3 calls, callbacks that call back | prefix levels hold; repeats are told once; the wire carries whole lines and failures are reported once per window; nobody waits in a circle; a fork owns the locks |

Why the bounds are enough. Engine: capacity 1 makes every wrap-around and every
full-ring case happen with one line, capacity 2 separates head from tail; batch
sizes below, at and above what is queued end a batch for both reasons; with two
threads one can wait while the other acts, and three are needed only for one
waiter to steal another's wake-up (`async_no_memory`); two starts show what the
first engine leaves to the second. Core: one operation of each kind by the admin
thread is the longest history of flags that differs from a repetition; two lines
per producer show order and a second line after the first met a closed engine. In
`core_live` two producers and a ring of one make one wait for the space the other took,
across the failure of the thread that would have made room.
Rotation: lines of one and two bytes with limits of one and two are a line that
fits, fits exactly, fits only alone and never fits; three lines and a startup rotation
give three archives, enough for one to stay, one to be compressed and one to be deleted; four
seconds in days of two seconds cross a day and a retention period; two faults let
a failure follow another, in particular a crash follow a failed call.

Sinks: two sinks make one that is removed and one that is skipped or hit after it; two
changes let an override be set and its sink be removed, or the format change twice
between the check of the cache and the rendering; the wrap is met with the first
change. Registry: a name, its parent and its grandparent are the cases of
inheritance, four calls fit two interleaved prefix calls with a creation and a drop
between. Duplicates: two lines per thread fold a line of one thread into the count
another thread takes; four other calls are enable, flush or disable, shutdown and
init. Network: four lines are a cut one, a dropped one, one on the next connection
and one more after a second failure; the clock passes three back-offs. Crash: a ring
of three wraps with the fourth push and is the smallest in which two lines on the same
side of the start can change places, so that a torn dump shows (`ReportInOrder` without
its exception fails); two calls are an install and a second one that overlaps it, an
init, an uninstall, or two setters. Locks: a circle of two threads and the worker needs one call of
each thread, a third one the state the other two meet (a stopped engine, say).

`HxServicesMC` composes components that share no state: each moves only while the
other three rest in their initial states, so the run explores the sum of their state
spaces and not the product.

Symmetry (permutations of the producers) is used in safety runs only. Deadlock is
checked in the runs of `HxAsync` and `HxCore`, where `Terminated` is the only way to
stop. In `rotate`, `sinks`, `crash` and `services` the bounds end a behaviour (lines,
time, calls, restarts), and a process that died does nothing more; the deadlocks that
matter there, threads that wait for each other, are what `NobodyWaitsInCircle` is about.

### Findings

Each violation run checks one property that quotes the repository; the entries in
`PROJECT.json` give the full argument.

* `async_no_memory`: `include/hx_clog.h:109` "block caller until there is space".
* `core_shutdown`: `core.c:2225-2231` on the lossless fallback.
* `core_fatal`: `docs/api.md:125` "FATAL records are flushed immediately".
* `rotate_retention`: `docs/api.md:298` "N>0 keep N newest .gz".

Seen while modelling and not made into runs:

* lines queued while `hx_async_start` waits for a thread that cannot be created vanish
  with the slots, though a reconfigure is to be lossless (`README.md:110`; `async.c:135`);
  and with BLOCK a producer that waits for space at that moment waits on: the failure
  clears `running` without a stop or a broadcast, leaves the count of a full ring, and no
  later start wakes it (`async.c:135-142, 179-181`). `CallsReturn` is about all other
  calls (`Stranded`);
* a line may be delivered and not counted: with overrides, the queue may drop the one
  rendering that counts and take a variant (`core.c:2222-2236, 2321`);
* an archive made by size after midnight carries the date of the rotation, not of its
  content (`docs/api.md:287`);
* after a failed rename the reopening resets the day and open time, so a rotation by
  time is not due again before the next day or interval (`rotate.c:733`); a failing
  `opendir` gives index 1 and the rename replaces an archive (`rotate.c:115`); with
  `date_subdir`, retention looks only into the current day's directory;
* `hx_clog_after_fork_child` renews the locks of the file sinks and keeps their
  streams, though `core.c:1263` says that it reopens files: lines in a stdio buffer at
  the fork are written by parent and child (`core.c:2094`);
* a callback that removes its own or an earlier sink makes the emit loop skip the next
  sink (`core.c:1173`; the exception in `SteadySinksGetTheLine`);
* a callback that calls `hx_clog_get_config` inside reconfigure waits for `init_lock`,
  which its own thread holds, and one that flushes, or logs into a full ring, on the
  worker waits for the worker, though `README.md:113` and `sink.c:12` allow callbacks to
  call back: with `Reentrant = {"flush"}` TLC finds the worker in `hx_async_flush`
  (`async.c:348`) with `sink_lock` held and a line in the ring. `QuietCallbacks` of the
  proofs excludes these calls. Error handlers run under the file's lock;
  `docs/api.md:381` forbids them to call back, and `HxLocks` has them obey;
* the handler reads the crash callback and its data one after the other, and a
  replacement between the two pairs the old callback with the new data; two overlapping
  calls of `hx_clog_set_crash_callback` leave the callback of one with the data of the
  other; though `core.c:1235` says never (`reset` and `mixed` in `CallbackPairKept`);
* a push between the reads of head and count makes the crash report print the lines
  rotated while the ring was never full, though `core.c:595` says chronological order
  (`Torn` in `ReportInOrder`);
* `hx_ring_init` has no lock: an install that passed its check while `hx_clog_init` makes
  the ring resets one that has lines already, and a mutex that a push may hold
  (`core.c:555-573`; `remade`);
* installing the crash handler makes the crash ring without `init_lock`, and shutdown
  unmakes it, so `g_ring_inited` is not monotonic as the atfork handlers assume
  (`core.c:1277`);
* two crashes within a second share a report file, and the second truncates the first
  (`crash.c:181`, against `docs/crash.md:58`).

### Fairness

`FairSpec` assumes weak fairness of the worker (a thread whose waits are timed by
`flush_interval_ms`), of each call that is inside `hx_async_enqueue` or
`hx_async_flush` and not waiting (a running thread; the waits of the flush are
timed), and of the steps of a start or stop in progress. It assumes nothing of
spurious wake-ups, failures, or calls nobody need make. Weak fairness of
`Enqueue(t)` says that a thread that wants the lock and finds it free again and
again without interruption gets it; a mutex that starves a thread that competes
for ever is outside the bounds, as each thread logs finitely often. `CoreFairSpec`
adds the same for the steps of producers and of the admin thread.

## 4. Proofs

Every theorem below is checked by TLAPS for all values of the constants: any number
of threads, lines, sinks, faults and calls, any capacity, policy or clock. The
assumptions are those the modules make on their constants, which TLC evaluates in
the runs; two theorems of the engine and the core, and those about the locks, assume
more and say so. Every module has one inductive
invariant, written as a conjunction of named parts, with a lemma per part and, where
a part is disturbed by several actions, a step per action.

| theorem | states |
| --- | --- |
| **engine** (`HxAsyncProofs`, `HxChannelProofs`) | |
| `EngineInvariant` | the inductive invariant |
| `TypeCorrect`, `RingIsConsistent`, `NothingIsLost` | `TypeOK`, `RingConsistent`, `NothingLost` |
| `ThreadsDoAgree` | `ThreadsAgree`: flags, worker, calls and controlling thread agree |
| `StopHasDrained` | `StopDrains`: an engine that is down holds no accepted line |
| `FatesNeverChange` | `FatesAreFinal`: a line that left the engine keeps its fate (action property) |
| `WorkerIsAwake` | `WorkerNotAsleep` |
| `WakeupsAreNotLost` | `NoLostWakeup`, if `AllocMayFail` and `ThreadMayFail` are false |
| `EngineIsBoundedChannel` | `IsBoundedChannel`: `HxAsync` implements `HxQueue` |
| `ThreadOrderHolds`, `DropsAreCounted` | `ThreadOrder`, `DropsCounted` |
| `FlushHasDrained` | `FlushDrains` (action property) |
| **core** (`HxCoreProofs`) | |
| `CoreInvariant`, `CoreTypeCorrect` | the inductive invariant, `CoreTypeOK` |
| `PublishedModeIsLive`, `NoLineTwice`, `DrainFindsSinks` | `PublishedModeHasEngine`, `NoDoubleDelivery`, `DrainReachesSinks` |
| `EngineKeepsItsPromises` | `NothingLost` and `StopDrains` for the engine inside the core |
| `ReconfigureIsLossless` | `ReconfigureLosesNothing`, if `ThreadMayFail` is false |
| **file sink** (`HxRotateProofs`) | |
| `RotateInvariant`, `RotateTypeCorrect` | the inductive invariant, `TypeOK` |
| `FlushedLinesAreKept`, `NamesFollowTheTime` | `FlushedLinesKept`, `NamesFollowTime` |
| `SizeIsRight`, `FileStaysWithinLimit` | `SizeIsKnown`, `FileWithinLimit` |
| `NewestStay` | `NewestAreSparedWithoutFaults` (action property) |
| **sink table** (`HxSinksProofs`) | |
| `SinksInvariant`, `SinksTypeCorrect` | the inductive invariant, `SinksTypeOK` |
| `SteadySinkIsServed`, `FormatIsCurrent`, `EachLineCounts` | `SteadySinksGetTheLine`, `FormatIsFresh`, `LinesCountedOnce` |
| **duplicates, registry, network** (`HxServicesProofs`) | |
| `DupInvariant`, `RepeatsGetTold` | the inductive invariant, `RepeatsAreTold` |
| `RegistryInvariant`, `PrefixLevelIsKept` | the inductive invariant, `PrefixLevelHolds` |
| `NetInvariant`, `LinesAreWhole`, `ReportsAreRare` | the inductive invariant, `WholeLines`, `OneReportPerWindow` |
| `ServicesTypeCorrect` | `ServicesTypeOK`, if `QuietCallbacks` |
| **locks** (`HxLocksProofs`), if `QuietCallbacks` | |
| `LocksInvariant`, `LocksTypeCorrect` | the inductive invariant, `LocksTypeOK` |
| `ForkLeavesNoLock`, `NoDeadlock` | `ForkOwnsTheLocks`, `NobodyWaitsInCircle` |
| **crash ring and handler** (`HxCrashProofs`) | |
| `CrashInvariant`, `CrashTypeCorrect` | the inductive invariant, `CrashTypeOK` |
| `CallbackHasItsData`, `PreviousActionComesLast`, `ReportHasLastLines` | `CallbackPairKept`, `PreviousActionEndsIt`, `LastLinesReported` |

### The arguments

The engine. The property one wants is `NothingLost`: the lines called "queued"
are those in the ring and in the worker's scratch buffer, each in one place. It is
not inductive alone. A push writes at `tail`, which keeps the old content only if
`tail` is `count` slots after `head` modulo the capacity and the ring is not full:
`RingConsistent`. That in turn holds only for a running engine whose slots exist,
so one must know which threads can act in which state of the flags: `PhasesAgree`.
Finally a line pushed must not be in the ring yet, which `CallsHoldLines` gives:
the line of a call in progress has fate "calling". So
`EngineInv == TypeOK /\ RingConsistent /\ ThreadsAgree /\ NothingLost`. The proof has
one lemma per conjunct and per step, with the arithmetic of the ring in lemmas of its
own (`Wrap`, `After`, `NextWrap`, `PopContent`, `PushLines`). `StopHasDrained` follows
from the invariant; `WorkerIsAwake` is inductive with it; `WakeupsAreNotLost` needs that
every waiter for space faces a full ring or a woken competitor; `FatesNeverChange` is an
action property: each action gives a new fate only to lines whose fate is "calling" or
"queued", which the invariant says of the lines it touches.

The channel. The refinement mapping takes the ring from `head` on as the sequence of
the channel. Lemmas say what a push, a pop and a new ring do to that sequence; each
action of the engine is then a step of `HxQueue` or a stutter, from `EngineInv`.
`ThreadOrderHolds` adds to the invariant that a call holds the last line of its
thread and that the waiting lines of a thread are in order (`OrderInv`);
`DropsAreCounted`, that the lines dropped since the start are as many as the counter
says, a cardinality that each of the five places that drop moves by one;
`FlushHasDrained`, that the lines a flush waits for were queued before, and are gone
once its request is taken back (`FlushInv`).

The core. `HxCore` composes the engine's actions with its own, so `CoreInv` contains
`EngineInv`, and the lemmas of the engine are used once more for the composed steps. It
adds where the admin thread and each producer is (`PcsAgree`, `CallsAgree`), what the
lifecycle knows at each of its steps (`LifecycleAgrees`, `EngineDown`, `SinksOpen`), and
of each line that is neither queued nor delivered, which thread still has it
(`LinesAgree`). `NoLineTwice` is the part of the last that matters: a line the engine
refused is in the hands of one thread and in no sink. `ReconfigureIsLossless` needs
`LossInv` besides: until a shutdown begins, no line is refused by a dead engine and
abandoned. It assumes that threads can be created, because a start that fails frees a
ring in which producers may have put lines meanwhile (see Findings).

The file sink. The order of names is the point: retention removes by name, and what is
removed must be the oldest. `OrderIn` says that names beside each other follow their
lines; it is kept by a rename because the chosen name is newer than all others
(`NameIsNewest`, from the scan of the directory), which holds because the day in it is
not earlier than any before (`DatesAgree`), and for compression because a compressed
file has only lines of its source (`TwinsIn`). `KeptIn` says that each flushed line is
in a *complete* file, so the steps of compression must know what the file they write
has in it when its source is removed (`BatchAgrees`). `SizeAgrees` and `LimitHolds` are
inductive with what is open when (`OpenAgrees`, `DirsAgree`); `LimitHolds` knows of the
open file that it is within the limit or has bytes of one line only, so the next line
either finds room, or finds a file that is not empty and rotates, or finds an empty
one. `NewestStay` adds
`CountsAgree`, what the cleanup's counters mean while nothing has failed: the entries
still to visit are the plain archives on disk and the excess is theirs
(`PlainsAgree`); the entries of compressed archives are those on disk, each once
(`GzsAgree`), because an archive is plain and compressed only while `gzip_file` has it
(`NoTwins`). A fault breaks each of the three, which is what `rotate_retention` shows
of the last.

The sink table. A job is a rendered line on its way; the threads' jobs and the queue are
one function from places to sequences (`Held`), with a place of its own, `Gone`, for what
the queue dropped; every step moves a job, puts some, drops one or leaves them (`Moved`,
`Put`, `Dropped`), and an enqueue is up to three moves, with lemmas on what that does to
"some job in J" and "at most one job in J" for any set J of jobs. With J the jobs of a
line that count it, this gives `LinesCountedOnce` (`CountAgrees`: lines counted and
lines owing their count are all lines, and when no line is under way those that owe are
those with their job in `Gone`); with J the jobs of a line for one sink it gives
`SteadySinksGetTheLine`: while the sink *waits* (the line is not rendered yet, or its
job for the sink is on its way and the emit loop has not passed the sink) it has no
copy, and otherwise it has what it should have (`SteadyAgrees`). Rendering makes exactly
one job for each sink in the table (`Rendered`, from the snapshot of the overrides and
the uniqueness of ids). The loop passes the sink when it serves it, as long as no
operation takes out a sink the loop has passed (`OrderKept`), which is the exception the
property makes. `FormatIsFresh` needs that equal generations mean equal versions
(`GenAgrees`), over the wrap of the counter.

Duplicates. Each line is in one place: in its writer's hands, written, counted, in one
summary, or told (`Apart`); while nothing races with a shutdown or the switch-off it is
in exactly one (`Calm`), and what a flush owes is told or in somebody's hands
(`OwedIsTold`). The registry. A rule in force holds for every logger it covers
(`Obeys`), and between the two sections of a prefix call the prefix's own logger
carries the level to the loggers created meanwhile (`PrefixLoggerWaits`).

The network sink. Whether the next piece fits depends on the last one alone, so
`LastPieceFits` says what the last piece on the wire is in each phase: the previous
piece of the line being sent, or the end of an earlier line if it is on the connection
now open. `PhaseAgrees` and `AttemptsPast` (the latest attempt is not later than the
start of the back-off) complete the inductive `NetInv`.

The crash callback. While setters do not overlap, the callback is detached until the
data is that of the one setter (`OneSetter`), so whatever callback the handler reads
belongs to the data of that moment. The crash ring. Before a crash `RingHolds` says what each slot holds, in the middle of a
push too. From the crash on the ring moves under the dump: `DumpAgrees` says that since
the last line due the head moved a slots and the count by b, with `b <= a <= late`, so
that all but the `late` oldest lines due are still in their slots (`Moved`), that the
head and the count the dump read are among those the ring had (`SeenHead`,
`SeenCount`), and that the slots it passed are in the report (`Passed`). All of it is
claimed only while installs do not overlap (`~clash`) and no ring was reset (`~remade`).

The locks. A call is a program, and its steps put others in front of the rest (a
callback's call, a write when the engine refuses a line), so an invariant cannot name
positions. `LocksInv` runs the remaining program instead: there is a sequence of holds,
one before each step, that begins with what the thread owns and ends with nothing
(`Settled`), and at each step the hold allows it (`Allows`): a lock is taken above all
locks held (`Rank`; `sink_lock` may be taken again, the worker never takes
`init_lock`), whoever waits for the worker holds `init_lock` at most and is not the
worker, and a fork comes when all locks are held. `RunsThen` and `RunsFirst` compose and
split such runs; with them each program is shown to run once (`ProgramRuns`), and each
action to leave a program that runs. That a run ends with nothing held is what makes the
steps put in front harmless: they give back what they take. `NoDeadlock` takes, in a set
of threads that wait for each other, the highest lock waited for: its holder waits for a
higher one, or holds `init_lock` alone and waits for the worker, which waits for a lock
above what it holds and never for `init_lock` (`WaitIs`, `NoCircle`).
`QuietCallbacks` says that callbacks make the calls "sinks", "stats" and "loggers" only.
It cannot be weaker: every other call takes `init_lock` or waits for the worker under
`sink_lock`; for `Reentrant = {"flush"}` TLC finds the circle (see Findings).

`CoreTypeOK`, `ThreadsAgree`, `StopDrains` and `FatesAreFinal` are proved and are not in a
run: the proofs cover every instance.

### Only model-checked

* Liveness: `AcceptedLinesLeave`, `EnqueueReturns`, `FlushReturns`, `StopReturns`,
  `CallsReturn`. They rest on fairness, that is on ENABLED, which the backends do not have.
* `ReportInOrder`: its exception speaks of what two reads saw, and the invariant knows of
  them only that each is of the time since the crash.
* The violation runs, which show that something is not so.

Names of archives and what a scan finds are records here, so no claim is made about
`snprintf` and `sscanf`.

## 5. Not modelled

* The thread-local context (`core.c:626-737`): sequential, one thread, a list of keys.
* The formatter's text, console colours, the C++ wrapper and the declarations of the
  public header: no property of this project is about them.
* The platform layer: mutexes, conditions, threads and atomics are what the modules
  assume of them (a condition may wake spuriously, a mutex excludes).
* Unwinding, registers, the report's header, minidumps, the watchdog, and all Windows
  branches: platform I/O.
* Two processes: what a forked child's inherited streams write (see Findings), and two
  processes that rotate one file.

## 6. Plan

1. Action properties that the modules promise and no run states yet, such as a
   reconfigure that keeps callback sinks with their ids and order (`HxSinks`).
2. `HxCore` with `hx_clog_reopen` and a second administrator.
