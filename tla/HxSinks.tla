------------------------------- MODULE HxSinks -------------------------------
(***************************************************************************)
(* The sink table and per-sink formats (src/src/hx_clog_core.c: 800-833,   *)
(* 1168-1191, 1355-1436, 1645-1697, 1871-2026, 2218-2332).  A thread that  *)
(* logs renders its line with a thread-local copy of the format settings,  *)
(* takes a snapshot of the sinks with a format of their own, renders a     *)
(* variant for each, and hands the default line and the variants on: to    *)
(* the sinks under sink_lock, or to the queue from which the worker emits  *)
(* them the same way, unless the queue drops them.  Each rendering may go  *)
(* either way: HxAsync and HxCore have the mode, the ring and the policies *)
(* that decide.  Sinks are added, removed and changed meanwhile, by other  *)
(* threads and by callback sinks: sink_lock is recursive.                  *)
(*                                                                         *)
(* Every change of pattern, mode or formatter is a new version of the      *)
(* format.  The shape of a line is "default" or one of the overrides.      *)
(* Callbacks that log lines of their own are not represented.              *)
(***************************************************************************)
EXTENDS Integers, Sequences, FiniteSets, Functions

CONSTANTS
    Writer,     \* the threads that log
    Worker,     \* the worker of the asynchronous mode
    Nobody,     \* nobody holds sink_lock
    Levels,     \* minimum levels of sinks; 0 is HX_CLOG_LEVEL_TRACE
    LineLevel,  \* the level of the lines
    MaxSinks,   \* HX_CLOG_MAX_SINKS
    GenWidth,   \* format_gen counts modulo GenWidth
    MaxLines,   \* bound: lines logged
    MaxOps      \* bound: changes of the table and of the format

Actor == Writer \cup {Worker}
Line  == 1..MaxLines

\* A thread that does not log while format_gen takes all its values would
\* take an old format for the current one.
ASSUME SinksAssumption ==
    /\ Worker \notin Writer /\ Nobody \notin Actor
    /\ Levels \subseteq Nat /\ 0 \in Levels /\ LineLevel \in Nat /\ MaxLines \in Nat
    /\ MaxSinks \in Nat /\ MaxSinks >= 2     \* the two sinks of SinksInit
    /\ MaxOps \in Nat /\ GenWidth \in Nat /\ GenWidth > MaxOps + 2

VARIABLES
    table,      \* g_core.sinks, sink_count
    next_id,    \* g_core.next_sink_id
    over,       \* g_core.override_count
    fmt,        \* version of pattern, format_mode, formatter
    gen,        \* g_core.format_gen
    lock,       \* who holds sink_lock
    cache,      \* g_tls_fmt of each thread
    pc,         \* where each thread is
    todo,       \* rendered lines a thread still has to dispatch
    pos,        \* index of the emit loop
    queue,      \* rendered lines in the queue
    dropped,    \* history: rendered lines that the queue dropped
    written,    \* g_core.written_lines
    cur,        \* the line each thread is logging, 0 before its first
    sent,       \* history: number of lines logged
    got,        \* history: what each line put where
    began,      \* history: version of the format when the line was logged
    steady,     \* history: sinks that did not change since it was logged
    spoilt,     \* history: lines whose delivery removed the sink it was at,
                \* or an earlier one
    ops         \* history: number of changes

tableVars == <<table, next_id, over, fmt, gen>>
writeVars == <<lock, cache, pc, todo, pos, queue, dropped, written, got, spoilt>>
logVars   == <<cur, sent, began>>
sinksVars == <<tableVars, writeVars, logVars, steady, ops>>

Override == [set : BOOLEAN, mode : {"PATTERN", "JSON"}, pattern : BOOLEAN]
NoOverride == [set |-> FALSE, mode |-> "PATTERN", pattern |-> FALSE]
Sink  == [id : Nat, cb : BOOLEAN, min : Levels, own : Override]
Shape == {"default", "JSON", "pattern", "own"}
\* A rendered line: its target (0: every sink without override), its shape,
\* the version of the format it was rendered with, and count_stats.
Job   == [line : Line, target : Nat, shape : Shape, fmt : Nat, counts : BOOLEAN]

SinksTypeOK ==
    /\ table \in Seq(Sink) /\ Len(table) <= MaxSinks
    /\ next_id \in Nat /\ over \in 0..MaxSinks
    /\ fmt \in Nat /\ gen \in 1..(GenWidth - 1)
    /\ lock \in Actor \cup {Nobody}
    /\ cache \in [Writer -> [gen : 0..(GenWidth - 1), fmt : Nat]]
    /\ pc \in [Actor -> {"out", "refresh", "render", "snap", "send", "emit"}]
    /\ todo \in [Actor -> Seq(Job)] /\ pos \in [Actor -> Nat]
    /\ queue \in Seq(Job) /\ dropped \in Seq(Job) /\ written \in Nat
    /\ cur \in [Writer -> 0..MaxLines] /\ sent \in 0..MaxLines
    /\ got \in [Line -> Seq([id : Nat, shape : Shape, fmt : Nat])]
    /\ began \in [Line -> Nat] /\ steady \in [Line -> SUBSET Sink]
    /\ spoilt \in SUBSET Line /\ ops \in 0..MaxOps

SinksInit ==
    /\ table = <<[id |-> 1, cb |-> FALSE, min |-> 0, own |-> NoOverride],
                 [id |-> 2, cb |-> TRUE, min |-> 0, own |-> NoOverride]>>
    /\ next_id = 3 /\ over = 0
    /\ fmt = 1 /\ gen = GenWidth - 1     \* the next change wraps it around
    /\ lock = Nobody
    /\ cache = [t \in Writer |-> [gen |-> 0, fmt |-> 0]]
    /\ pc = [x \in Actor |-> "out"] /\ todo = [x \in Actor |-> <<>>]
    /\ pos = [x \in Actor |-> 1]
    /\ queue = <<>> /\ dropped = <<>> /\ written = 0
    /\ cur = [t \in Writer |-> 0] /\ sent = 0
    /\ got = [l \in Line |-> <<>>]
    /\ began = [l \in Line |-> 0] /\ steady = [l \in Line |-> {}]
    /\ spoilt = {} /\ ops = 0

-----------------------------------------------------------------------------
(***************************************************************************)
(* Changes of the table, made under sink_lock.                             *)
(***************************************************************************)
Find(i)    == {k \in DOMAIN table : table[k].id = i}
Ids        == {table[k].id : k \in DOMAIN table}
OverCount(tab) == Cardinality({k \in DOMAIN tab : tab[k].own.set})
Recompute  == over' = OverCount(table')

NewSink(cb) == [id |-> next_id, cb |-> cb, min |-> 0, own |-> NoOverride]

AddSink(cb) ==
    /\ Len(table) < MaxSinks
    /\ table' = Append(table, NewSink(cb))
    /\ next_id' = next_id + 1
    /\ UNCHANGED <<over, fmt, gen>>

\* The sinks after the removed one move up.
Without(k) == [j \in 1..(Len(table) - 1) |-> IF j < k THEN table[j] ELSE table[j + 1]]
RemoveSink_NoCount(i) ==    \* (mutant) override_count is not recomputed
    /\ \E k \in Find(i) : table' = Without(k)
    /\ over' = 0 /\ UNCHANGED <<next_id, fmt, gen>>
RemoveSink(i) ==
    /\ \E k \in Find(i) : table' = Without(k)
    /\ Recompute
    /\ UNCHANGED <<next_id, fmt, gen>>

SetSinkLevel(i, m) ==
    /\ \E k \in Find(i) : table' = [table EXCEPT ![k].min = m]
    /\ UNCHANGED <<next_id, over, fmt, gen>>

SetOwn(i, own) ==
    /\ \E k \in Find(i) : table' = [table EXCEPT ![k].own = own]
    /\ Recompute
    /\ UNCHANGED <<next_id, fmt, gen>>
SetSinkPattern(i) == SetOwn(i, [set |-> TRUE, mode |-> "PATTERN", pattern |-> TRUE])
ClearSinkPattern(i) ==
    \E k \in Find(i) : SetOwn(i, [table[k].own EXCEPT !.set = FALSE, !.pattern = FALSE])
SetSinkMode(i, m) ==
    \E k \in Find(i) : SetOwn(i, [table[k].own EXCEPT !.set = TRUE, !.mode = m])

TableOp == \/ \E cb \in BOOLEAN : AddSink(cb)
           \/ \E i \in Ids :
                 \/ RemoveSink(i) \/ SetSinkPattern(i) \/ ClearSinkPattern(i)
                 \/ \E m \in Levels : SetSinkLevel(i, m)
                 \/ \E m \in {"PATTERN", "JSON"} : SetSinkMode(i, m)

\* bump_format_gen_locked: 0 is reserved for a cache that was never filled.
Bump_Zero(g) == (g + 1) % GenWidth     \* (mutant) 0 is not skipped
Bump_Not(g) == g                       \* (mutant) the generation stays
Bump(g) == IF (g + 1) % GenWidth = 0 THEN 1 ELSE (g + 1) % GenWidth

\* hx_clog_set_pattern, set_format_mode, set_formatter.
SetFormat ==
    /\ fmt' = fmt + 1 /\ gen' = Bump(gen)
    /\ UNCHANGED <<table, next_id, over>>

\* The numbers of I, in order: there is one such sequence.
InOrder(I) == {f \in [1..Cardinality(I) -> I] :
                  Range(f) = I /\ \A i, j \in DOMAIN f : i < j => f[i] < f[j]}

\* The swap of hx_clog_reconfigure: callback sinks stay, all others are closed
\* and made anew, the format is replaced.  The queue was drained and its worker
\* joined before.
Swap ==
    /\ queue = <<>> /\ pc[Worker] = "out"
    /\ \E f \in InOrder({k \in DOMAIN table : table[k].cb}) :
       LET kept == [i \in DOMAIN f |-> table[f[i]]]
       IN \/ /\ Len(kept) < MaxSinks
             /\ table' = Append(kept, NewSink(FALSE))
             /\ next_id' = next_id + 1
          \/ Len(kept) = MaxSinks /\ table' = kept /\ UNCHANGED next_id
    /\ fmt' = fmt + 1 /\ gen' = Bump(gen)
    /\ Recompute

\* A thread changes the table or the format.
Change ==
    /\ lock = Nobody /\ ops < MaxOps
    /\ ops' = ops + 1
    /\ TableOp \/ SetFormat \/ Swap
    /\ UNCHANGED <<writeVars, logVars>>

-----------------------------------------------------------------------------
(***************************************************************************)
(* Logging a line.                                                         *)
(***************************************************************************)
At(x, p) == pc[x] = p
Go(x, p) == pc' = [pc EXCEPT ![x] = p]

\* core_writev up to fmt_cache_refresh, which reads the generation unlocked.
Log(t) ==
    /\ At(t, "out") /\ sent < MaxLines
    /\ sent' = sent + 1 /\ cur' = [cur EXCEPT ![t] = sent + 1]
    /\ began' = [began EXCEPT ![sent + 1] = fmt]
    /\ Go(t, IF cache[t].gen = gen THEN "render" ELSE "refresh")
    /\ UNCHANGED <<tableVars, lock, cache, todo, pos, queue, dropped, written, got,
                   spoilt, ops>>

Refresh(t) ==
    /\ At(t, "refresh") /\ lock = Nobody
    /\ cache' = [cache EXCEPT ![t] = [gen |-> gen, fmt |-> fmt]]
    /\ Go(t, "render")
    /\ UNCHANGED <<tableVars, lock, todo, pos, queue, dropped, written, got, spoilt,
                   logVars, ops>>

DefaultJob(t, counts) == [line |-> cur[t], target |-> 0, shape |-> "default",
                          fmt |-> cache[t].fmt, counts |-> counts]
OwnShape(own) == CASE own.mode = "JSON" -> "JSON"
                   [] own.pattern /\ own.mode # "JSON" -> "own"
                   [] OTHER -> "pattern"
VariantJob(t, s, counts) == [line |-> cur[t], target |-> s.id, shape |-> OwnShape(s.own),
                             fmt |-> cache[t].fmt, counts |-> counts]

\* Without overrides, and the count is read unlocked, the default is all.
Render(t) ==
    /\ At(t, "render")
    /\ IF over > 0 THEN Go(t, "snap") /\ UNCHANGED todo
       ELSE Go(t, "send") /\ todo' = [todo EXCEPT ![t] = <<DefaultJob(t, TRUE)>>]
    /\ UNCHANGED <<tableVars, lock, cache, pos, queue, dropped, written, got, spoilt,
                   logVars, ops>>

\* The default line is dispatched if some sink takes it, or if there is no
\* variant; the first line dispatched counts as the written one.
WantsDefault(owners, rest) == rest # {} \/ owners = {}
VariantCounts_First(k, wants) == k = 1      \* (mutant) counted is not kept
VariantCounts(k, wants) == k = 1 /\ ~wants
Snap(t) ==
    /\ At(t, "snap") /\ lock = Nobody
    /\ LET owners == {k \in DOMAIN table : table[k].own.set}
           wants  == WantsDefault(owners, DOMAIN table \ owners)
       IN \E f \in InOrder(owners) :
          LET variants == [i \in DOMAIN f |->
                             VariantJob(t, table[f[i]], VariantCounts(i, wants))]
          IN todo' = [todo EXCEPT ![t] = IF wants
                        THEN <<DefaultJob(t, TRUE)>> \o variants ELSE variants]
    /\ Go(t, "send")
    /\ UNCHANGED <<tableVars, lock, cache, pos, queue, dropped, written, got, spoilt,
                   logVars, ops>>

\* After a rendering comes the next one; after the last, the call returns.
GoOn(x) == Go(x, IF Tail(todo[x]) = <<>> THEN "out" ELSE "send")

\* core_dispatch_line in asynchronous mode.  The queue takes the rendering or
\* drops it: the queue is full, or has no memory for it.  With DROP_OLD it may
\* drop its oldest one first.  In synchronous mode, and while the queue refuses
\* all work, the thread goes to the sinks itself (EmitBegin).
Enqueue(t) ==
    /\ At(t, "send") /\ todo[t] # <<>>
    /\ todo' = [todo EXCEPT ![t] = Tail(@)] /\ GoOn(t)
    /\ \/ queue' = Append(queue, Head(todo[t])) /\ UNCHANGED dropped
       \/ dropped' = Append(dropped, Head(todo[t])) /\ UNCHANGED queue
       \/ /\ queue # <<>>
          /\ \/ /\ queue' = Append(Tail(queue), Head(todo[t]))
                /\ dropped' = Append(dropped, Head(queue))
             \/ /\ queue' = Tail(queue)
                /\ dropped' = dropped \o <<Head(queue), Head(todo[t])>>
    /\ UNCHANGED <<tableVars, lock, cache, pos, written, got, spoilt, logVars, ops>>

WorkerTake ==
    /\ At(Worker, "out") /\ queue # <<>>
    /\ todo' = [todo EXCEPT ![Worker] = <<Head(queue)>>]
    /\ queue' = Tail(queue)
    /\ Go(Worker, "send")
    /\ UNCHANGED <<tableVars, lock, cache, pos, dropped, written, got, spoilt,
                   logVars, ops>>

-----------------------------------------------------------------------------
(***************************************************************************)
(* hx_core_emit_to_sinks: one step per sink, with what a callback changes  *)
(* in the table before it returns.                                         *)
(***************************************************************************)
EmitBegin(x) ==
    /\ At(x, "send") /\ todo[x] # <<>> /\ lock = Nobody
    /\ lock' = x /\ pos' = [pos EXCEPT ![x] = 1]
    /\ Go(x, "emit")
    /\ UNCHANGED <<tableVars, cache, todo, queue, dropped, written, got, spoilt,
                   logVars, ops>>

Routed(job, s) == IF job.target = 0 THEN ~s.own.set ELSE s.id = job.target
Takes(job, s)  == Routed(job, s) /\ LineLevel >= s.min

Deliver(x, s) ==
    LET job == Head(todo[x])
    IN got' = IF Takes(job, s)
              THEN [got EXCEPT ![job.line] =
                      Append(@, [id |-> s.id, shape |-> job.shape, fmt |-> job.fmt])]
              ELSE got

\* The loop counts on, also past sinks that moved up after a removal.
EmitSink(x) ==
    /\ At(x, "emit") /\ pos[x] <= Len(table)
    /\ Deliver(x, table[pos[x]])
    /\ pos' = [pos EXCEPT ![x] = @ + 1]
    /\ \/ UNCHANGED <<tableVars, spoilt, ops>>
       \/ /\ table[pos[x]].cb /\ Takes(Head(todo[x]), table[pos[x]])
          /\ ops < MaxOps /\ ops' = ops + 1
          /\ TableOp \/ SetFormat
          /\ spoilt' = IF \E k \in 1..pos[x] : table[k].id \notin Ids'
                       THEN spoilt \cup {Head(todo[x]).line} ELSE spoilt
    /\ UNCHANGED <<lock, cache, pc, todo, queue, dropped, written, logVars>>

EmitEnd(x) ==
    /\ At(x, "emit") /\ pos[x] > Len(table)
    /\ lock' = Nobody
    /\ written' = written + (IF Head(todo[x]).counts THEN 1 ELSE 0)
    /\ todo' = [todo EXCEPT ![x] = Tail(@)] /\ GoOn(x)
    /\ UNCHANGED <<tableVars, cache, pos, queue, dropped, got, spoilt, logVars, ops>>

-----------------------------------------------------------------------------
Begun(l) == l <= sent
Pending(l) ==
    \/ \E t \in Writer : l = cur[t] /\ ~At(t, "out")
    \/ \E j \in Range(queue) \cup Range(todo[Worker]) : j.line = l

\* A sink is steady for a line from its call on, as long as its entry in the
\* table is the same.
Watch ==
    steady' = [l \in Line |->
                 IF ~Begun(l) THEN IF Begun(l)' THEN Range(table) ELSE {}
                 ELSE IF Pending(l) THEN steady[l] \cap Range(table') ELSE steady[l]]

SinksStep ==
    \/ Change \/ WorkerTake
    \/ \E t \in Writer : Log(t) \/ Refresh(t) \/ Render(t) \/ Snap(t) \/ Enqueue(t)
    \/ \E x \in Actor : EmitBegin(x) \/ EmitSink(x) \/ EmitEnd(x)

SinksNext == SinksStep /\ Watch

SinksSpec == SinksInit /\ [][SinksNext]_sinksVars

-----------------------------------------------------------------------------
(***************************************************************************)
(* Properties.                                                             *)
(***************************************************************************)
Done(l) == Begun(l) /\ ~Pending(l)
Copies(l, s) == {k \in DOMAIN got[l] : got[l][k].id = s.id}
ShapeFor(s)  == IF s.own.set THEN OwnShape(s.own) ELSE "default"
\* The queue dropped the line's rendering for the sink; the one that counts.
Lost(l, s)   == \E j \in Range(dropped) : j.line = l /\ Routed(j, s)
Uncounted    == {l \in Line : \E j \in Range(dropped) : j.line = l /\ j.counts}

\* A line reaches every sink whose entry in the table did not change from the
\* call to the delivery, once if its level passes the sink's minimum and not
\* at all otherwise, in the format of that sink, whatever happens to the other
\* sinks meanwhile.  There are two exceptions: a sink whose rendering the queue
\* dropped gets nothing of the line, though other sinks may; and after a
\* delivery during which a callback removed itself or an earlier sink, when the
\* loop skips a sink, nothing is said.
SteadySinksGetTheLine ==
    \A l \in Line : Done(l) /\ l \notin spoilt =>
       \A s \in steady[l] :
          IF LineLevel < s.min \/ Lost(l, s) THEN Copies(l, s) = {}
          ELSE \E k \in DOMAIN got[l] : /\ Copies(l, s) = {k}
                                        /\ got[l][k].shape = ShapeFor(s)

\* A line is rendered with a format that was current at some time during its
\* call: what hx_clog_set_pattern set before the call is never missed, though
\* threads check their copy of the format without the lock.
FormatIsFresh ==
    \A l \in Line : \A e \in Range(got[l]) : began[l] <= e.fmt /\ e.fmt <= fmt

\* Every logged line counts as one written line, however many variants of it
\* are rendered and whether or not a sink is left to take it, except the lines
\* whose counting rendering the queue dropped: these do not count at all, though
\* their variants may have reached sinks.
LinesCountedOnce ==
    (\A l \in Line : ~Pending(l)) => written + Cardinality(Uncounted) = sent
=============================================================================
