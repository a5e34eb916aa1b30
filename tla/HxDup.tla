------------------------------- MODULE HxDup -------------------------------
(***************************************************************************)
(* Duplicate suppression (src/src/hx_clog_core.c:846-861, 2028-2042,       *)
(* 2336-2457): consecutive equal messages are folded into a count, and the *)
(* count is told by a "last message repeated N times" line when a          *)
(* different message arrives, on flush, on shutdown, or when suppression   *)
(* is switched off.  The record of the last message is updated under       *)
(* g_dup.lock; the summary is written after the lock is released.          *)
(*                                                                         *)
(* Two lines are equal when level, place, length, logger and text are:     *)
(* Msg stands for these keys.  Whether the last message is within the time *)
(* window is left open, and the count is the set of the lines it counts.   *)
(* Writing a line is one step that reaches the sinks while they are open;  *)
(* HxCore has what happens inside it.                                      *)
(***************************************************************************)
EXTENDS Integers

CONSTANTS
    Caller,     \* the threads
    Msg,        \* the keys of messages
    NoMsg,      \* no message
    NoLine,     \* no line
    MaxLines,   \* bound: lines per thread
    MaxOther    \* bound: calls besides writing

Line == Caller \X (1..MaxLines)
Calls == {"flush", "enable", "disable", "shutdown", "init"}

ASSUME DupAssumption == NoLine \notin Line /\ NoMsg \notin Msg
                        /\ MaxLines \in Nat /\ MaxOther \in Nat

VARIABLES
    enabled,      \* g_dup.enabled
    last,         \* g_dup.have_last and the key: {} or {key}
    repeats,      \* g_dup.repeats, as the lines it counts
    initialized,  \* g_core.initialized
    open,         \* the sinks are open
    op, pc,       \* the call each thread is in, and where
    line,         \* the line a writing thread carries
    sum,          \* the lines a summary in a thread's hands counts
    msg,          \* history: the message of each line
    sent,         \* history: lines begun by each thread
    written,      \* history: lines written as themselves
    told,         \* history: lines counted in a written summary
    owed,         \* history: lines counted when a flush began
    raced,        \* history: another call ran while one switched the
                  \* suppression off or shut down
    used          \* history: number of calls begun besides writing

dupState == <<enabled, last, repeats, initialized, open>>
dupHist  == <<msg, sent, written, told, owed, used>>
dupVars  == <<dupState, op, pc, line, sum, dupHist, raced>>

Ops == {"none", "write"} \cup Calls
Pcs == {"idle", "starting", "filter", "check", "take", "summary", "sumout", "emit",
        "lock", "down", "close", "done"}

DupTypeOK ==
    /\ enabled \in BOOLEAN /\ initialized \in BOOLEAN /\ open \in BOOLEAN
    /\ last \in SUBSET Msg /\ repeats \in SUBSET Line
    /\ op \in [Caller -> Ops] /\ pc \in [Caller -> Pcs]
    /\ line \in [Caller -> Line \cup {NoLine}]
    /\ sum \in [Caller -> SUBSET Line]
    /\ msg \in [Line -> Msg \cup {NoMsg}] /\ sent \in [Caller -> 0..MaxLines]
    /\ written \in SUBSET Line /\ told \in SUBSET Line
    /\ owed \in [Caller -> SUBSET Line]
    /\ raced \in BOOLEAN /\ used \in 0..MaxOther

\* hx_clog_init has returned; g_dup is zero.
DupInit ==
    /\ enabled = FALSE /\ initialized = TRUE /\ open = TRUE
    /\ last = {} /\ repeats = {}
    /\ op = [t \in Caller |-> "none"] /\ pc = [t \in Caller |-> "idle"]
    /\ line = [t \in Caller |-> NoLine]
    /\ sum = [t \in Caller |-> {}] /\ owed = [t \in Caller |-> {}]
    /\ msg = [l \in Line |-> NoMsg] /\ sent = [t \in Caller |-> 0]
    /\ written = {} /\ told = {}
    /\ raced = FALSE /\ used = 0

-----------------------------------------------------------------------------
Goto(t, p) == pc' = [pc EXCEPT ![t] = p]
Leave(t)   == Goto(t, "idle") /\ op' = [op EXCEPT ![t] = "none"]

\* A call other than writing begins.  One thread at a time is inside
\* init_lock, where shutdown and init run.
Begin(t, c, p) ==
    /\ op[t] = "none" /\ used < MaxOther
    /\ used' = used + 1
    /\ c \in {"shutdown", "init"} =>
          \A u \in Caller : op[u] \notin {"shutdown", "init"}
    /\ op' = [op EXCEPT ![t] = c]
    /\ Goto(t, p)
    /\ owed' = [owed EXCEPT ![t] = repeats]
    /\ UNCHANGED <<dupState, line, sum, msg, sent, written, told>>

-----------------------------------------------------------------------------
(***************************************************************************)
(* A thread logs: core_writev.                                             *)
(***************************************************************************)
WriteBegin(t, m) ==
    /\ op[t] = "none" /\ initialized /\ sent[t] < MaxLines
    /\ op' = [op EXCEPT ![t] = "write"] /\ Goto(t, "filter")
    /\ line' = [line EXCEPT ![t] = <<t, sent[t] + 1>>]
    /\ msg' = [msg EXCEPT ![<<t, sent[t] + 1>>] = m]
    /\ sent' = [sent EXCEPT ![t] = @ + 1]
    /\ UNCHANGED <<dupState, sum, written, told, owed, used>>

\* The flag is read without the lock.
WriteFilter(t) ==
    /\ pc[t] = "filter"
    /\ Goto(t, IF enabled THEN "check" ELSE "emit")
    /\ UNCHANGED <<dupState, op, line, sum, dupHist>>

\* dup_check_and_update: the line is folded, or it is the new last message
\* and what the count held is taken for a summary.
SameMessage(l) == last = {msg[l]}

Fold(t) ==
    /\ pc[t] = "check" /\ enabled /\ SameMessage(line[t])
    /\ repeats' = repeats \cup {line[t]}
    /\ line' = [line EXCEPT ![t] = NoLine]
    /\ Leave(t)
    /\ UNCHANGED <<enabled, last, initialized, open, sum, dupHist>>

TakeRepeats_Keep(t) ==    \* (mutant) repeats is not reset
    sum' = [sum EXCEPT ![t] = repeats] /\ UNCHANGED repeats
TakeRepeats(t) == sum' = [sum EXCEPT ![t] = repeats] /\ repeats' = {}

NewMessage(t) ==
    /\ pc[t] = "check" /\ enabled
    /\ last' = {msg[line[t]]}
    /\ TakeRepeats(t)
    /\ Goto(t, IF repeats = {} THEN "emit" ELSE "summary")
    /\ UNCHANGED <<enabled, initialized, open, op, line, dupHist>>

\* Suppression was switched off before the lock was taken.
CheckDisabled(t) ==
    /\ pc[t] = "check" /\ ~enabled
    /\ Goto(t, "emit")
    /\ UNCHANGED <<dupState, op, line, sum, dupHist>>

\* The line itself is written, to nowhere once the sinks are closed.
Emit(t) ==
    /\ pc[t] = "emit"
    /\ written' = IF open THEN written \cup {line[t]} ELSE written
    /\ line' = [line EXCEPT ![t] = NoLine]
    /\ Leave(t)
    /\ UNCHANGED <<dupState, sum, msg, sent, told, owed, used>>

-----------------------------------------------------------------------------
(***************************************************************************)
(* Summaries: dup_flush_pending and dup_emit_summary.                      *)
(***************************************************************************)
AfterSummary(t) == CASE op[t] = "write"    -> "emit"
                     [] op[t] = "flush"    -> "done"
                     [] op[t] = "disable"  -> "lock"
                     [] op[t] = "shutdown" -> "down"
                     [] OTHER              -> "done"

\* dup_flush_pending: a count is taken together with its message.
TakePending(t) ==
    /\ pc[t] = "take"
    /\ TakeRepeats(t)
    /\ last' = IF repeats = {} THEN last ELSE {}
    /\ Goto(t, IF repeats = {} THEN AfterSummary(t) ELSE "summary")
    /\ UNCHANGED <<enabled, initialized, open, op, line, dupHist>>

\* dup_emit_summary writes nothing when the library is not initialized.
SummaryCheck(t) ==
    /\ pc[t] = "summary"
    /\ IF initialized THEN Goto(t, "sumout") /\ UNCHANGED sum
       ELSE Goto(t, AfterSummary(t)) /\ sum' = [sum EXCEPT ![t] = {}]
    /\ UNCHANGED <<dupState, op, line, dupHist>>

SummaryOut(t) ==
    /\ pc[t] = "sumout"
    /\ told' = IF open THEN told \cup sum[t] ELSE told
    /\ sum' = [sum EXCEPT ![t] = {}]
    /\ Goto(t, AfterSummary(t))
    /\ UNCHANGED <<dupState, op, line, msg, sent, written, owed, used>>

-----------------------------------------------------------------------------
(***************************************************************************)
(* The other calls.                                                        *)
(***************************************************************************)
\* hx_clog_flush
FlushBegin(t) == initialized /\ Begin(t, "flush", "take")

\* hx_clog_set_duplicate_suppression
EnableBegin(t)  == Begin(t, "enable", "lock")
DisableBegin(t) == Begin(t, "disable", "take")
SetEnabled(t) ==
    /\ pc[t] = "lock"
    /\ IF op[t] = "enable" THEN enabled' = TRUE /\ UNCHANGED <<last, repeats>>
       ELSE enabled' = FALSE /\ last' = {} /\ repeats' = {}
    /\ Goto(t, "done")
    /\ UNCHANGED <<initialized, open, op, line, sum, dupHist>>

\* hx_clog_shutdown: tell the count, stop accepting lines, close the sinks.
\* A later init leaves g_dup as it is.
ShutdownBegin(t) == initialized /\ Begin(t, "shutdown", "take")
ShutdownMark(t) ==
    /\ pc[t] = "down"
    /\ initialized' = FALSE
    /\ Goto(t, "close")
    /\ UNCHANGED <<enabled, last, repeats, open, op, line, sum, dupHist>>
ShutdownClose(t) ==
    /\ pc[t] = "close"
    /\ open' = FALSE
    /\ Goto(t, "done")
    /\ UNCHANGED <<enabled, last, repeats, initialized, op, line, sum, dupHist>>

InitBegin(t) == ~initialized /\ Begin(t, "init", "starting")
InitDone(t) ==
    /\ pc[t] = "starting"
    /\ initialized' = TRUE /\ open' = TRUE
    /\ Goto(t, "done")
    /\ UNCHANGED <<enabled, last, repeats, op, line, sum, dupHist>>

Return(t) ==
    /\ pc[t] = "done"
    /\ Leave(t)
    /\ UNCHANGED <<dupState, line, sum, dupHist>>

-----------------------------------------------------------------------------
Quiets(t)  == op[t] \in {"disable", "shutdown"}
Overlap    == \E t, u \in Caller : t # u /\ Quiets(t) /\ op[u] # "none"

DupStep(t) ==
    \/ (\E m \in Msg : WriteBegin(t, m)) \/ WriteFilter(t) \/ Fold(t) \/ NewMessage(t)
    \/ CheckDisabled(t) \/ Emit(t)
    \/ TakePending(t) \/ SummaryCheck(t) \/ SummaryOut(t)
    \/ FlushBegin(t) \/ EnableBegin(t) \/ DisableBegin(t) \/ SetEnabled(t)
    \/ ShutdownBegin(t) \/ ShutdownMark(t) \/ ShutdownClose(t)
    \/ InitBegin(t) \/ InitDone(t) \/ Return(t)

DupNext == /\ \E t \in Caller : DupStep(t)
           /\ raced' = (raced \/ Overlap')

DupSpec == DupInit /\ [][DupNext]_dupVars

-----------------------------------------------------------------------------
(***************************************************************************)
(* Properties.                                                             *)
(***************************************************************************)
Begun     == {l \in Line : l[2] <= sent[l[1]]}
Carried   == {line[t] : t \in Caller} \ {NoLine}
InHand    == UNION {sum[t] : t \in Caller}
Accounted == Carried \cup written \cup repeats \cup InHand \cup told

\* hx_clog_flush tells the repeats (docs/api.md:389-391 "on flush/shutdown"):
\* when it returns, the lines that were folded when it was called are in a
\* written summary or in one another thread is about to write.
FlushTells ==
    \A t \in Caller : op[t] = "flush" /\ pc[t] = "done" /\ ~raced
       => owed[t] \subseteq told \cup InHand

\* A count tells of one message: all the lines it holds are equal to the last
\* message (dup_check_and_update compares, counts and resets under one lock).
CountsOneMessage == \A l \in repeats : SameMessage(l)

\* Folding loses nothing and tells nothing twice: a line that was logged is in
\* its writer's hands, written, counted in the pending repeats, counted by a
\* summary about to be written, or counted by a written one, and never in two
\* of these; as long as nobody switched the suppression off or shut down
\* while other calls were running, no line is in none of them, and flushing
\* tells.  And a count is of one message.
RepeatsAreTold ==
    /\ Carried \cap (written \cup repeats \cup InHand \cup told) = {}
    /\ written \cap (repeats \cup InHand \cup told) = {}
    /\ repeats \cap (InHand \cup told) = {} /\ InHand \cap told = {}
    /\ \A t, u \in Caller : t # u => sum[t] \cap sum[u] = {}
    /\ Accounted \subseteq Begun
    /\ ~raced => Accounted = Begun
    /\ FlushTells /\ CountsOneMessage
=============================================================================
