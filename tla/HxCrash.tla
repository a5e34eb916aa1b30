------------------------------ MODULE HxCrash -------------------------------
(***************************************************************************)
(* Crash reports on POSIX (src/src/hx_clog_core.c: 541-625, 1205-1250 and  *)
(* src/src/hx_clog_crash.c: 181-225, 1007-1153).  Every logged line is     *)
(* pushed into a ring under a lock.  A fatal signal may hit any thread     *)
(* anywhere; its handler writes the ring to the report without the lock,   *)
(* while the other threads go on, calls the application's crash callback,  *)
(* restores the action the signal had before, and raises the signal again. *)
(*                                                                         *)
(* One signal stands for the five.  The action of a signal is the one the  *)
(* application had ("app"), hx_clog's ("hx") or the default ("dfl").  One  *)
(* thread crashes.  Registers, frames and the header of the report are     *)
(* left out.                                                               *)
(***************************************************************************)
EXTENDS Integers, Sequences, FiniteSets

CONSTANTS
    Thread,     \* threads that log and call the API
    None,       \* no thread
    Cap,        \* HX_CLOG_RING_CAPACITY
    MaxPushes,  \* bound: lines logged
    MaxApi,     \* bound: installs, uninstalls, callbacks set, restarts
    MaxCalls    \* bound: both together

ASSUME CrashAssumption ==
    None \notin Thread /\ Cap \in Nat \ {0} /\ MaxPushes \in Nat /\ MaxApi \in Nat

VARIABLES
    ring,       \* g_ring: the line whose text, and whose len, each slot has
    head,       \* g_ring_head
    count,      \* g_ring_count
    inited,     \* g_ring_inited, g_ring
    rlock,      \* who holds g_ring_lock
    ppc,        \* where each thread is in hx_ring_push
    pline,      \* the line it pushes
    pushed,     \* history: the lines pushed since the ring was made
    given,      \* history: number of lines logged
    installed,  \* g_crash_installed
    act,        \* the action of the signal
    prev,       \* g_prev_actions
    chain,      \* g_cc.chain_previous_handler
    ipc,        \* where each thread is in hx_clog_install_crash_handler or in
                \* the hx_ring_init of hx_clog_init
    cb, ud,     \* g_crash_cb, g_crash_cb_ud: callback 0 is none, and the
                \* user data given with callback n is n
    spc, sval,  \* where each thread is in hx_clog_set_crash_callback, and
                \* the callback and user data it was called with
    victim,     \* the thread that crashed
    hpc,        \* where its handler is
    hseen, cseen, \* head and count as the dump read them, -1 before
    slot,       \* the index of the dump's loop
    len,        \* the len it read, -1 before
    out,        \* what the dump wrote
    hcb,        \* the callback the handler read
    called,     \* the callbacks called with their user data
    fate,       \* "alive", or the action that ended the process
    runs,       \* history: runs of the handler
    due,        \* history: what the ring should hold at the crash
    late,       \* history: pushes under way at the crash, or after it until
                \* the end of the dump
    clash,      \* history: two installs overlapped, or an install or
                \* uninstall overlapped the handler
    remade,     \* history: hx_ring_init reset a ring that was there
    mixed,      \* history: the callback was last set by overlapping calls
    reset,      \* history: the user data changed between the handler's reads
    napi        \* history: API calls

ringVars == <<ring, head, count, inited, rlock, ppc, pline, pushed, given, remade>>
instVars == <<installed, act, prev, ipc, clash>>
cbVars   == <<cb, ud, spc, sval, mixed>>
dumpVars == <<hseen, cseen, slot, len, out>>
handVars == <<victim, hpc, dumpVars, hcb, called, fate, runs, due, late, reset>>
crashVars == <<ringVars, instVars, chain, cbVars, handVars, napi>>

Slots == 0..(Cap - 1)
Empty == [k \in Slots |-> [text |-> 0, len |-> 0]]
Action == {"app", "hx", "dfl"}
Installing == {"ring", "alloc", "action", "flag"}
Starting   == {"startring", "startalloc"}

CrashTypeOK ==
    /\ ring \in [Slots -> [text : 0..MaxPushes, len : 0..MaxPushes]]
    /\ head \in Slots /\ count \in 0..Cap /\ inited \in BOOLEAN
    /\ rlock \in Thread \cup {None}
    /\ ppc \in [Thread -> {"out", "lock", "text", "len", "head", "count"}]
    /\ pline \in [Thread -> 0..MaxPushes] /\ pushed \in Seq(1..MaxPushes)
    /\ given \in 0..MaxPushes
    /\ installed \in BOOLEAN /\ act \in Action /\ prev \in Action /\ chain \in BOOLEAN
    /\ ipc \in [Thread -> {"out"} \cup Installing \cup Starting]
    /\ cb \in Nat /\ ud \in Nat /\ spc \in [Thread -> {"out", "ud", "cb"}]
    /\ sval \in [Thread -> Nat]
    /\ victim \in Thread \cup {None}
    /\ hpc \in {"none", "open", "dump", "slots", "cb", "ud", "restore", "raise", "gone"}
    /\ hseen \in Slots \cup {-1} /\ cseen \in 0..Cap \cup {-1}
    /\ slot \in 0..Cap /\ len \in 0..MaxPushes \cup {-1}
    /\ out \in Seq([text : 0..MaxPushes, len : 0..MaxPushes])
    /\ hcb \in Nat /\ called \in Seq(Nat \X Nat) /\ fate \in Action \cup {"alive"}
    /\ runs \in Nat /\ due \in Seq(1..MaxPushes) /\ late \in Nat
    /\ clash \in BOOLEAN /\ remade \in BOOLEAN /\ mixed \in BOOLEAN
    /\ reset \in BOOLEAN /\ napi \in 0..MaxApi

CrashInit ==
    /\ ring = Empty /\ head = 0 /\ count = 0 /\ inited \in BOOLEAN
    /\ rlock = None /\ ppc = [t \in Thread |-> "out"]
    /\ pline = [t \in Thread |-> 0] /\ pushed = <<>> /\ given = 0
    /\ \/ installed = FALSE /\ act = "app" /\ prev = "dfl"
       \/ installed = TRUE /\ act = "hx" /\ prev = "app"
    /\ chain \in BOOLEAN
    /\ ipc = [t \in Thread |-> "out"]
    /\ cb = 1 /\ ud = 1 /\ spc = [t \in Thread |-> "out"]
    /\ sval = [t \in Thread |-> 0] /\ mixed = FALSE /\ remade = FALSE
    /\ victim = None /\ hpc = "none"
    /\ hseen = -1 /\ cseen = -1 /\ slot = 0 /\ len = -1 /\ out = <<>>
    /\ hcb = 0 /\ called = <<>> /\ fate = "alive" /\ runs = 0
    /\ due = <<>> /\ late = 0 /\ clash = FALSE /\ reset = FALSE /\ napi = 0

Runs(t) == fate = "alive" /\ t # victim
Free(t) == Runs(t) /\ ppc[t] = "out" /\ ipc[t] = "out" /\ spc[t] = "out"
Dumped  == hpc \in {"cb", "ud", "restore", "raise", "gone"}

-----------------------------------------------------------------------------
(***************************************************************************)
(* hx_ring_push.                                                           *)
(***************************************************************************)
PushAt(t, p) == Runs(t) /\ ppc[t] = p
PushGo(t, p) == ppc' = [ppc EXCEPT ![t] = p]
OutsideRing  == <<instVars, chain, cbVars, napi>>

\* The check without the lock.
Push(t) ==
    /\ Free(t) /\ given < MaxPushes /\ given + napi < MaxCalls
    /\ given' = given + 1
    /\ IF inited THEN PushGo(t, "lock") /\ pline' = [pline EXCEPT ![t] = given + 1]
       ELSE UNCHANGED <<ppc, pline>>
    /\ UNCHANGED <<ring, head, count, inited, rlock, pushed, remade, OutsideRing, handVars>>

PushLock(t) ==
    /\ PushAt(t, "lock") /\ rlock = None
    /\ rlock' = t /\ PushGo(t, "text")
    /\ late' = late + (IF victim # None /\ ~Dumped THEN 1 ELSE 0)
    /\ UNCHANGED <<ring, head, count, inited, pline, pushed, given, remade, OutsideRing,
                   victim, hpc, dumpVars, hcb, called, fate, runs, due, reset>>

PushText(t) ==
    /\ PushAt(t, "text")
    /\ ring' = [ring EXCEPT ![head].text = pline[t]] /\ PushGo(t, "len")
    /\ UNCHANGED <<head, count, inited, rlock, pline, pushed, given, remade, OutsideRing,
                   handVars>>

PushLen(t) ==
    /\ PushAt(t, "len")
    /\ ring' = [ring EXCEPT ![head].len = pline[t]] /\ PushGo(t, "head")
    /\ UNCHANGED <<head, count, inited, rlock, pline, pushed, given, remade, OutsideRing,
                   handVars>>

NextHead_Past(h) == h + 1           \* (mutant) runs past the ring
NextHead(h) == (h + 1) % Cap
PushHead(t) ==
    /\ PushAt(t, "head")
    /\ head' = NextHead(head) /\ PushGo(t, "count")
    /\ UNCHANGED <<ring, count, inited, rlock, pline, pushed, given, remade, OutsideRing,
                   handVars>>

PushCount(t) ==
    /\ PushAt(t, "count")
    /\ count' = IF count < Cap THEN count + 1 ELSE count
    /\ pushed' = Append(pushed, pline[t])
    /\ rlock' = None /\ PushGo(t, "out")
    /\ UNCHANGED <<ring, head, inited, pline, given, remade, OutsideRing, handVars>>

-----------------------------------------------------------------------------
(***************************************************************************)
(* hx_clog_install_crash_handler, without a lock of its own, with          *)
(* hx_clog_uninstall_crash_handler, and the ring in init and shutdown.     *)
(***************************************************************************)
Api == napi < MaxApi /\ given + napi < MaxCalls /\ napi' = napi + 1
InstAt(t, p) == Runs(t) /\ ipc[t] = p
InstGo(t, p) == ipc' = [ipc EXCEPT ![t] = p]
Others(t)    == victim # None \/ \E u \in Thread \ {t} : ipc[u] \in Installing

Install_Always(t) ==        \* (mutant) g_crash_installed is not looked at
    /\ Free(t) /\ Api
    /\ InstGo(t, "ring") /\ clash' = (clash \/ Others(t))
    /\ UNCHANGED <<ringVars, installed, act, prev, chain, cbVars, handVars>>
Install(t) ==
    /\ Free(t) /\ Api
    /\ IF installed THEN UNCHANGED <<ipc, clash>>
       ELSE InstGo(t, "ring") /\ clash' = (clash \/ Others(t))
    /\ UNCHANGED <<ringVars, installed, act, prev, chain, cbVars, handVars>>

\* hx_ring_init, which install and init call without a common lock: the check,
\* then the allocation, which may fail, and the reset of the indices.
RingCheck(t, at, alloc, done) ==
    /\ InstAt(t, at)
    /\ InstGo(t, IF inited THEN done ELSE alloc)
    /\ UNCHANGED <<ringVars, installed, act, prev, clash, chain, cbVars, handVars, napi>>

NewRing ==
    /\ ring' = Empty /\ head' = 0 /\ count' = 0 /\ inited' = TRUE
    /\ rlock' = None /\ pushed' = <<>>
    /\ remade' = (remade \/ inited)
    /\ UNCHANGED <<ppc, pline, given>>
RingAlloc(t, at, done) ==
    /\ InstAt(t, at)
    /\ InstGo(t, done)
    /\ NewRing \/ UNCHANGED ringVars
    /\ UNCHANGED <<installed, act, prev, clash, chain, cbVars, handVars, napi>>

InstallRing(t)  == RingCheck(t, "ring", "alloc", "action")
InstallAlloc(t) == RingAlloc(t, "alloc", "action")

\* hx_clog_init, one thread at a time under init_lock.
Start(t) ==
    /\ Free(t) /\ Api
    /\ \A u \in Thread : ipc[u] \notin Starting
    /\ InstGo(t, "startring")
    /\ UNCHANGED <<ringVars, installed, act, prev, clash, chain, cbVars, handVars>>
StartRing(t)  == RingCheck(t, "startring", "startalloc", "out")
StartAlloc(t) == RingAlloc(t, "startalloc", "out")

\* sigaction, which may fail: then the previous action counts as the default.
\* No action at all installed: the call fails.
InstallAction(t) ==
    /\ InstAt(t, "action")
    /\ clash' = (clash \/ victim # None)
    /\ \/ act' = "hx" /\ prev' = act /\ InstGo(t, "flag")
       \/ prev' = "dfl" /\ UNCHANGED act /\ InstGo(t, "out")
    /\ UNCHANGED <<ringVars, installed, chain, cbVars, handVars, napi>>

InstallFlag(t) ==
    /\ InstAt(t, "flag")
    /\ installed' = TRUE /\ InstGo(t, "out")
    /\ UNCHANGED <<ringVars, act, prev, clash, chain, cbVars, handVars, napi>>

Uninstall(t) ==
    /\ Free(t) /\ Api
    /\ act' = IF installed THEN prev ELSE act
    /\ installed' = FALSE
    /\ clash' = (clash \/ victim # None)
    /\ UNCHANGED <<ringVars, prev, ipc, chain, cbVars, handVars>>

\* hx_ring_destroy at the end of hx_clog_shutdown, which has uninstalled the
\* handler.  A push, a dump or an install at that moment would use freed
\* memory: the callers' duty to stop logging first is assumed.
Shutdown(t) ==
    /\ Free(t) /\ Api /\ inited /\ victim = None
    /\ \A u \in Thread : ppc[u] = "out" /\ ipc[u] = "out"
    /\ act' = (IF installed THEN prev ELSE act) /\ installed' = FALSE
    /\ inited' = FALSE /\ ring' = Empty /\ head' = 0 /\ count' = 0 /\ pushed' = <<>>
    /\ UNCHANGED <<rlock, ppc, pline, given, remade, prev, ipc, clash, chain, cbVars,
                   handVars>>

\* hx_clog_set_crash_callback, without a lock: detach, user data, callback.
Detached_Not == UNCHANGED cb            \* (mutant) the callback is not detached
Detached == cb' = 0
SetGo(t, p) == spc' = [spc EXCEPT ![t] = p]
Overlaps(t) == \E u \in Thread \ {t, victim} : spc[u] # "out"
SetDetach(t) ==
    /\ Free(t) /\ Api
    /\ Detached /\ SetGo(t, "ud")
    /\ sval' = [sval EXCEPT ![t] = napi + 2]
    /\ mixed' = (Overlaps(t) \/ (mixed /\ victim # None))
    /\ UNCHANGED <<ringVars, instVars, chain, ud, handVars>>
SetData(t) ==
    /\ Runs(t) /\ spc[t] = "ud"
    /\ ud' = sval[t] /\ SetGo(t, "cb")
    /\ reset' = (reset \/ hpc = "ud")
    /\ UNCHANGED <<ringVars, instVars, chain, cb, sval, mixed, napi, victim, hpc, dumpVars,
                   hcb, called, fate, runs, due, late>>
SetCallback(t) ==
    /\ Runs(t) /\ spc[t] = "cb"
    /\ cb' = sval[t] /\ SetGo(t, "out")
    /\ UNCHANGED <<ringVars, instVars, chain, ud, sval, mixed, handVars, napi>>

-----------------------------------------------------------------------------
(***************************************************************************)
(* The signal and posix_handler.                                           *)
(***************************************************************************)
Outside == <<ringVars, chain, cbVars, napi>>
ToHandler == runs' = runs + 1 /\ hpc' = "open"
LastLines == LET n == Len(pushed) IN
             SubSeq(pushed, IF n > Cap THEN n - Cap + 1 ELSE 1, n)

Crash(t) ==
    /\ victim = None /\ fate = "alive"
    /\ victim' = t /\ due' = LastLines
    /\ late' = IF rlock = None THEN 0 ELSE 1
    /\ clash' = (clash \/ \E u \in Thread : ipc[u] \in Installing)
    /\ IF act = "hx" THEN ToHandler /\ UNCHANGED fate
       ELSE fate' = act /\ hpc' = "gone" /\ UNCHANGED runs
    /\ UNCHANGED <<Outside, installed, act, prev, ipc, dumpVars, hcb, called, reset>>

\* No report if the file cannot be opened; no lines if there is no ring.
Open ==
    /\ hpc = "open"
    /\ hseen' = -1 /\ cseen' = -1 /\ slot' = 0 /\ len' = -1 /\ out' = <<>>
    /\ hpc' \in {"restore", IF inited THEN "dump" ELSE "cb"}
    /\ UNCHANGED <<Outside, instVars, victim, hcb, called, fate, runs, due, late, reset>>

\* The two reads the start index is computed from, in either order.
DumpHead ==
    /\ hpc = "dump" /\ hseen = -1
    /\ hseen' = head /\ hpc' = IF cseen = -1 THEN "dump" ELSE "slots"
    /\ UNCHANGED <<Outside, instVars, victim, cseen, slot, len, out, hcb, called, fate,
                   runs, due, late, reset>>
DumpCount ==
    /\ hpc = "dump" /\ cseen = -1
    /\ cseen' = count /\ hpc' = IF hseen = -1 THEN "dump" ELSE "slots"
    /\ UNCHANGED <<Outside, instVars, victim, hseen, slot, len, out, hcb, called, fate,
                   runs, due, late, reset>>

StartSlot_Head(h, c) == h               \* (mutant) as if the ring were full
StartSlot(h, c) == (h + Cap - c) % Cap
Index_Live == (StartSlot(head, count) + slot) % Cap   \* (mutant) start read each round
Index == (StartSlot(hseen, cseen) + slot) % Cap

\* One round of the loop: the length, then the text.
DumpLen ==
    /\ hpc = "slots" /\ slot < count /\ len = -1
    /\ len' = ring[Index].len
    /\ UNCHANGED <<Outside, instVars, victim, hpc, hseen, cseen, slot, out, hcb, called,
                   fate, runs, due, late, reset>>
DumpText ==
    /\ hpc = "slots" /\ len # -1
    /\ out' = IF len = 0 THEN out ELSE Append(out, [text |-> ring[Index].text, len |-> len])
    /\ len' = -1 /\ slot' = slot + 1
    /\ UNCHANGED <<Outside, instVars, victim, hpc, hseen, cseen, hcb, called, fate,
                   runs, due, late, reset>>
DumpEnd ==
    /\ hpc = "slots" /\ len = -1 /\ slot >= count
    /\ hpc' = "cb"
    /\ UNCHANGED <<Outside, instVars, victim, dumpVars, hcb, called, fate, runs,
                   due, late, reset>>

\* hx_crash_get_callback reads the callback, then the user data.
ReadCallback ==
    /\ hpc = "cb"
    /\ hcb' = cb /\ hpc' = "ud"
    /\ UNCHANGED <<Outside, instVars, victim, dumpVars, called, fate, runs, due, late, reset>>
CallCallback ==
    /\ hpc = "ud"
    /\ called' = IF hcb = 0 THEN called ELSE Append(called, <<hcb, ud>>)
    /\ hpc' = "restore"
    /\ UNCHANGED <<Outside, instVars, victim, dumpVars, hcb, fate, runs, due, late, reset>>

Restored(p) == IF chain THEN p ELSE "dfl"
Restore ==
    /\ hpc = "restore"
    /\ act' = Restored(prev) /\ hpc' = "raise"
    /\ UNCHANGED <<Outside, installed, prev, ipc, clash, victim, dumpVars, hcb, called,
                   fate, runs, due, late, reset>>

Raise ==
    /\ hpc = "raise"
    /\ IF act = "hx" THEN runs < 2 /\ ToHandler /\ UNCHANGED fate
       ELSE fate' = act /\ hpc' = "gone" /\ UNCHANGED runs
    /\ UNCHANGED <<Outside, instVars, victim, dumpVars, hcb, called, due, late, reset>>

-----------------------------------------------------------------------------
CrashNext ==
    \/ \E t \in Thread :
          \/ Push(t) \/ PushLock(t) \/ PushText(t) \/ PushLen(t) \/ PushHead(t)
          \/ PushCount(t)
          \/ Install(t) \/ InstallRing(t) \/ InstallAlloc(t) \/ InstallAction(t)
          \/ InstallFlag(t) \/ Uninstall(t) \/ Shutdown(t)
          \/ Start(t) \/ StartRing(t) \/ StartAlloc(t)
          \/ SetDetach(t) \/ SetData(t) \/ SetCallback(t)
          \/ Crash(t)
    \/ Open \/ DumpHead \/ DumpCount \/ DumpLen \/ DumpText \/ DumpEnd
    \/ ReadCallback \/ CallCallback \/ Restore \/ Raise

CrashSpec == CrashInit /\ [][CrashNext]_crashVars

-----------------------------------------------------------------------------
(***************************************************************************)
(* Properties.                                                             *)
(***************************************************************************)
Whole(e)  == e.text = e.len
AsEntry(l)   == [text |-> l, len |-> l]
Shown(l)  == \E k \in DOMAIN out : out[k] = AsEntry(l)
Lost      == {k \in DOMAIN due : ~Shown(due[k])}

\* The report has the last lines pushed before the crash.  Threads that go on
\* logging while the handler reads the ring without its lock, or the lock's
\* holder being the thread that crashed, cost at most one line per push under
\* way; without such a push the report is the ring, line by line.  Excepted are
\* overlapping installs, and a hx_ring_init that overlapped another and reset
\* the ring.
LastLinesReported ==
    hpc \in {"cb", "ud"} /\ inited /\ ~clash /\ ~remade =>
       /\ Cardinality(Lost) <= late
       /\ late = 0 => out = [k \in DOMAIN due |-> AsEntry(due[k])]

\* "Dump in chronological order" (hx_clog_core.c:595): the lines due that the
\* report has are in the order they were pushed, whatever is pushed meanwhile.
\* The order is lost if the handler, before the ring is full for the first
\* time, reads its two numbers from two states: then the walk does not start
\* at slot 0, where such a ring starts.
Torn == cseen < Cap /\ hseen # cseen
ReportInOrder ==
    hpc \in {"cb", "ud"} /\ inited /\ ~remade /\ ~Torn =>
       \A i, j \in DOMAIN out : \A k, l \in DOMAIN due :
          i < j /\ out[i] = AsEntry(due[k]) /\ out[j] = AsEntry(due[l]) => k < l

\* A crash under hx_clog's handler makes one report, and the process ends by
\* the action the application had before the install (by the default one if
\* chaining is off), unless installs overlapped each other or
\* the handler.
PreviousActionEndsIt ==
    ~clash => /\ runs <= 1
              /\ runs = 1 /\ hpc = "gone" /\ chain => fate = "app"
              /\ runs = 1 /\ hpc = "gone" /\ ~chain => fate = "dfl"

\* "Detach first so a concurrent crash never invokes a half-updated pair"
\* (hx_clog_core.c:1235): the callback is called with the user data it was set
\* with, unless the data is replaced between the two reads of the handler, or
\* the callback was last set by calls that overlapped.
CallbackPairKept ==
    ~reset /\ ~mixed => \A k \in DOMAIN called : called[k][1] = called[k][2]
=============================================================================
