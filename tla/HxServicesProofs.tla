-------------------------- MODULE HxServicesProofs --------------------------
(***************************************************************************)
(* Theorems about the components of HxServicesMC, which share no state:    *)
(* duplicate suppression (HxDup), the registry of loggers (HxRegistry) and *)
(* the network sink (HxNet), for any threads, messages, names, levels and  *)
(* number of calls; those about the locks are in HxLocksProofs.            *)
(***************************************************************************)
EXTENDS HxServicesMC, HxLocksProofs

-----------------------------------------------------------------------------
(***************************************************************************)
(* Duplicate suppression: the inductive invariant, in parts.               *)
(***************************************************************************)

\* Where each call can be.
PcsOf(c) == CASE c = "none"     -> {"idle"}
              [] c = "write"    -> {"filter", "check", "summary", "sumout", "emit"}
              [] c = "flush"    -> {"take", "summary", "sumout", "done"}
              [] c = "disable"  -> {"take", "summary", "sumout", "lock", "done"}
              [] c = "enable"   -> {"lock", "done"}
              [] c = "shutdown" -> {"take", "summary", "sumout", "down", "close", "done"}
              [] c = "init"     -> {"starting", "done"}
Summing == {"summary", "sumout"}

\* A thread carries its latest line exactly while it writes, and lines for a
\* summary only on the way to it.
PlaceAgrees(t) ==
    /\ pc[t] \in PcsOf(op[t])
    /\ op[t] = "write" <=> line[t] # NoLine
    /\ line[t] # NoLine => /\ sent[t] > 0 /\ line[t] = <<t, sent[t]>>
                           /\ msg[line[t]] \in Msg
    /\ sum[t] # {} => pc[t] \in Summing

\* init_lock: one shutdown or init at a time.
Down(t) == op[t] \in {"shutdown", "init"}
OneDown == \A t, u \in Caller : Down(t) /\ Down(u) => t = u

\* Lines are accepted only while the sinks are open.
UpAndOpen ==
    /\ initialized => open
    /\ \A t \in Caller :
          /\ op[t] = "shutdown" => (initialized <=> pc[t] \notin {"close", "done"})
          /\ pc[t] = "starting" => ~initialized

\* When nothing ran beside a disable or a shutdown, each finds what the one
\* before left: no repeats once it has told them, and none while down.
Calm ==
    ~raced =>
       /\ ~Overlap
       /\ ~initialized => repeats = {}
       /\ \A t \in Caller :
             /\ op[t] \in {"write", "flush"} => initialized
             /\ op[t] = "disable" /\ pc[t] \in Summing => initialized
             /\ Quiets(t) /\ pc[t] # "take" => repeats = {}

\* Where line l is: in its writer's hands, in one summary, or in a set.
Held(l)    == line[l[1]] = l
InSum(l)   == \E t \in Caller : l \in sum[t]
Located(l) == Held(l) \/ l \in written \/ l \in repeats \/ InSum(l) \/ l \in told

\* A line that was logged is in one of these places, and in one only.
Apart(l) ==
    /\ Held(l) => l \notin written /\ l \notin repeats /\ l \notin told /\ ~InSum(l)
    /\ l \in written => l \notin repeats /\ l \notin told /\ ~InSum(l)
    /\ l \in repeats => l \notin told /\ ~InSum(l)
    /\ InSum(l) => l \notin told
    /\ \A t, u \in Caller : l \in sum[t] /\ l \in sum[u] => t = u
    /\ Located(l) => l[2] <= sent[l[1]]
    /\ ~raced /\ l[2] <= sent[l[1]] => Located(l)

\* What a flush owes is told, in another thread's hands, or still to be taken.
OwedIsTold ==
    ~raced => \A t \in Caller : op[t] = "flush" =>
       \A l \in owed[t] : l \in told \/ InSum(l) \/ (pc[t] = "take" /\ l \in repeats)

DupInv == /\ DupTypeOK /\ OneDown /\ UpAndOpen /\ Calm
          /\ \A t \in Caller : PlaceAgrees(t)
          /\ \A l \in Line : Apart(l)
          /\ OwedIsTold /\ CountsOneMessage

-----------------------------------------------------------------------------
(***************************************************************************)
(* Type correctness.                                                       *)
(***************************************************************************)
DupFlagsOK == enabled \in BOOLEAN /\ initialized \in BOOLEAN /\ open \in BOOLEAN
              /\ raced \in BOOLEAN
DupSetsOK  == last \in SUBSET Msg /\ repeats \in SUBSET Line
              /\ written \in SUBSET Line /\ told \in SUBSET Line
              /\ sum \in [Caller -> SUBSET Line] /\ owed \in [Caller -> SUBSET Line]
DupPlaceOK == op \in [Caller -> Ops] /\ pc \in [Caller -> Pcs]
              /\ used \in 0..MaxOther
DupLineOK  == line \in [Caller -> Line \cup {NoLine}]
              /\ msg \in [Line -> Msg \cup {NoMsg}] /\ sent \in [Caller -> 0..MaxLines]

\* The type invariant by the parts of the state.
LEMMA DupTypes == DupTypeOK <=> DupFlagsOK /\ DupSetsOK /\ DupPlaceOK /\ DupLineOK
BY DEF DupTypeOK, DupFlagsOK, DupSetsOK, DupPlaceOK, DupLineOK

\* The lines of a thread.
LEMMA LineIs ==
    ASSUME NEW l \in Line
    PROVE  l[1] \in Caller /\ l[2] \in 1..MaxLines /\ l = <<l[1], l[2]>>
BY DEF Line

\* The line a thread logs next.
LEMMA SentLine ==
    ASSUME DupLineOK, NEW t \in Caller, sent[t] < MaxLines
    PROVE  /\ sent[t] + 1 \in 1..MaxLines /\ <<t, sent[t] + 1>> \in Line
           /\ <<t, sent[t] + 1>> # NoLine
<1>1. sent[t] + 1 \in 1..MaxLines
  BY DupAssumption DEF DupLineOK
<1> QED
  BY <1>1, DupAssumption DEF Line

\* Where a thread is tells what it is doing, and a writer has its line.
LEMMA Placed ==
    ASSUME DupInv, NEW t \in Caller
    PROVE  /\ pc[t] \in {"filter", "check", "emit"} => op[t] = "write"
           /\ pc[t] = "take" => op[t] \in {"flush", "disable", "shutdown"}
           /\ pc[t] \in Summing => op[t] \in {"write", "flush", "disable", "shutdown"}
           /\ pc[t] = "lock" => op[t] \in {"enable", "disable"}
           /\ pc[t] \in {"down", "close"} => op[t] = "shutdown"
           /\ pc[t] = "starting" => op[t] = "init"
           /\ pc[t] = "done" => op[t] \notin {"none", "write"}
           /\ pc[t] = "idle" <=> op[t] = "none"
           /\ op[t] = "write" => /\ line[t] \in Line /\ line[t] = <<t, sent[t]>>
                                /\ msg[line[t]] \in Msg
           /\ op[t] # "write" => line[t] = NoLine
<1>1. op[t] \in Ops /\ pc[t] \in PcsOf(op[t]) /\ PlaceAgrees(t)
      /\ line[t] \in Line \cup {NoLine}
  BY DEF DupInv, DupTypeOK, PlaceAgrees
<1>2. \/ op[t] = "none" /\ pc[t] = "idle"
      \/ op[t] = "write" /\ pc[t] \in {"filter", "check", "summary", "sumout", "emit"}
      \/ op[t] = "flush" /\ pc[t] \in {"take", "summary", "sumout", "done"}
      \/ op[t] = "disable" /\ pc[t] \in {"take", "summary", "sumout", "lock", "done"}
      \/ op[t] = "enable" /\ pc[t] \in {"lock", "done"}
      \/ op[t] = "shutdown"
           /\ pc[t] \in {"take", "summary", "sumout", "down", "close", "done"}
      \/ op[t] = "init" /\ pc[t] \in {"starting", "done"}
  BY <1>1 DEF Ops, Calls, PcsOf
<1>3. op[t] = "write" <=> line[t] # NoLine
  BY <1>1 DEF PlaceAgrees
<1>4. line[t] # NoLine => line[t] = <<t, sent[t]>> /\ msg[line[t]] \in Msg
  BY <1>1 DEF PlaceAgrees
<1> QED
  BY <1>1, <1>2, <1>3, <1>4 DEF Summing

\* Types of the flags.
LEMMA DupFlagsStep ==
    ASSUME DupInv, NEW t \in Caller, DupStep(t), raced' = (raced \/ Overlap')
    PROVE  DupFlagsOK'
<1>1. enabled \in BOOLEAN /\ initialized \in BOOLEAN /\ open \in BOOLEAN
  BY DEF DupInv, DupTypeOK
<1>2. raced' \in BOOLEAN
  <2>1. (raced \/ Overlap') \in BOOLEAN
    OBVIOUS
  <2> QED
    BY <2>1
<1>3. /\ enabled' = enabled \/ enabled' = TRUE \/ enabled' = FALSE
      /\ initialized' = initialized \/ initialized' = TRUE \/ initialized' = FALSE
      /\ open' = open \/ open' = TRUE \/ open' = FALSE
  BY DEF DupStep, WriteBegin, WriteFilter, Fold, NewMessage, CheckDisabled, Emit,
     TakePending, SummaryCheck, SummaryOut, FlushBegin, EnableBegin, DisableBegin,
     ShutdownBegin, InitBegin, Begin, SetEnabled, ShutdownMark, ShutdownClose,
     InitDone, Return, dupState
<1> QED
  BY <1>1, <1>2, <1>3 DEF DupFlagsOK

\* Types of all variables.
LEMMA DupTypeStep ==
    ASSUME DupInv, NEW t \in Caller, DupStep(t)
    PROVE  DupSetsOK' /\ DupPlaceOK' /\ DupLineOK'
<1>1. DupSetsOK /\ DupPlaceOK /\ DupLineOK
  BY DupTypes DEF DupInv
<1> USE DEF Goto, Leave, dupState, dupHist
<1>2. ASSUME NEW m \in Msg, WriteBegin(t, m) PROVE DupSetsOK' /\ DupPlaceOK' /\ DupLineOK'
  <2>1. sent[t] + 1 \in 0..MaxLines /\ <<t, sent[t] + 1>> \in Line
    BY <1>1, <1>2, SentLine, DupAssumption DEF WriteBegin
  <2>2. DupSetsOK' /\ DupPlaceOK'
    BY <1>1, <1>2 DEF WriteBegin, DupSetsOK, DupPlaceOK, Ops, Pcs
  <2>3. DupLineOK'
    BY <1>1, <1>2, <2>1 DEF WriteBegin, DupLineOK
  <2> QED
    BY <2>2, <2>3
<1>3. CASE Fold(t) \/ Emit(t)
  <2>1. line[t] \in Line
    BY <1>3, Placed DEF Fold, Emit
  <2> QED
    BY <1>1, <1>3, <2>1 DEF Fold, Emit, DupSetsOK, DupPlaceOK, DupLineOK, Ops, Pcs
<1>4. CASE NewMessage(t)
  <2>1. msg[line[t]] \in Msg
    BY <1>4, Placed DEF NewMessage
  <2> QED
    BY <1>1, <1>4, <2>1
    DEF NewMessage, TakeRepeats, DupSetsOK, DupPlaceOK, DupLineOK, Pcs
<1>5. CASE WriteFilter(t) \/ CheckDisabled(t) \/ Return(t) \/ ShutdownMark(t)
            \/ ShutdownClose(t) \/ InitDone(t) \/ SetEnabled(t)
  BY <1>1, <1>5 DEF WriteFilter, CheckDisabled, Return, ShutdownMark, ShutdownClose,
     InitDone, SetEnabled, DupSetsOK, DupPlaceOK, DupLineOK, Ops, Pcs
<1>6. CASE TakePending(t) \/ SummaryCheck(t) \/ SummaryOut(t)
  BY <1>1, <1>6 DEF TakePending, TakeRepeats, SummaryCheck, SummaryOut, AfterSummary,
     DupSetsOK, DupPlaceOK, DupLineOK, Pcs
<1>7. CASE FlushBegin(t) \/ EnableBegin(t) \/ DisableBegin(t) \/ ShutdownBegin(t)
            \/ InitBegin(t)
  BY <1>1, <1>7, DupAssumption DEF FlushBegin, EnableBegin, DisableBegin, ShutdownBegin,
     InitBegin, Begin, DupSetsOK, DupPlaceOK, DupLineOK, Ops, Calls, Pcs
<1> QED
  BY <1>2, <1>3, <1>4, <1>5, <1>6, <1>7 DEF DupStep

-----------------------------------------------------------------------------
(***************************************************************************)
(* Where the threads are.                                                  *)
(***************************************************************************)
DupBegin(t) == FlushBegin(t) \/ EnableBegin(t) \/ DisableBegin(t)
               \/ ShutdownBegin(t) \/ InitBegin(t)

\* A step is taken by one thread; what the others carry stays theirs.
LEMMA OthersRest ==
    ASSUME DupInv, NEW t \in Caller, DupStep(t), NEW u \in Caller, u # t
    PROVE  /\ op'[u] = op[u] /\ pc'[u] = pc[u] /\ line'[u] = line[u]
           /\ sum'[u] = sum[u] /\ sent'[u] = sent[u] /\ owed'[u] = owed[u]
           /\ line[u] # NoLine => msg'[line[u]] = msg[line[u]]
<1>1. DupSetsOK /\ DupPlaceOK /\ DupLineOK
  BY DupTypes DEF DupInv
<1> USE DEF Goto, Leave, dupState, dupHist, DupSetsOK, DupPlaceOK, DupLineOK
<1>2. ASSUME NEW m \in Msg, WriteBegin(t, m)
      PROVE  /\ op'[u] = op[u] /\ pc'[u] = pc[u] /\ line'[u] = line[u]
             /\ sum'[u] = sum[u] /\ sent'[u] = sent[u] /\ owed'[u] = owed[u]
             /\ line[u] # NoLine => msg'[line[u]] = msg[line[u]]
  <2>1. line[u] # NoLine => line[u] \in Line /\ line[u] # <<t, sent[t] + 1>>
    BY <1>1, Placed
  <2> QED
    BY <1>1, <1>2, <2>1 DEF WriteBegin
<1>3. CASE DupBegin(t)
  BY <1>1, <1>3 DEF DupBegin, FlushBegin, EnableBegin, DisableBegin, ShutdownBegin,
     InitBegin, Begin
<1>4. CASE WriteFilter(t) \/ CheckDisabled(t) \/ Return(t) \/ ShutdownMark(t)
            \/ ShutdownClose(t) \/ InitDone(t) \/ SetEnabled(t)
  BY <1>1, <1>4 DEF WriteFilter, CheckDisabled, Return, ShutdownMark, ShutdownClose,
     InitDone, SetEnabled
<1>5. CASE Fold(t) \/ Emit(t) \/ NewMessage(t) \/ TakePending(t) \/ SummaryCheck(t)
            \/ SummaryOut(t)
  BY <1>1, <1>5 DEF Fold, Emit, NewMessage, TakePending, TakeRepeats, SummaryCheck,
     SummaryOut
<1> QED
  BY <1>2, <1>3, <1>4, <1>5 DEF DupStep, DupBegin

\* What a step does to the place of the thread that takes it.
LEMMA OwnPlace ==
    ASSUME DupInv, NEW t \in Caller, DupStep(t)
    PROVE  /\ pc'[t] \in PcsOf(op'[t])
           /\ op'[t] = "write" <=> line'[t] # NoLine
           /\ sum'[t] # {} => pc'[t] \in Summing
           /\ Down(t)' => Down(t) \/ \A u \in Caller : ~Down(u)
<1>1. /\ DupSetsOK /\ DupPlaceOK /\ DupLineOK /\ PlaceAgrees(t)
      /\ op[t] = "write" <=> line[t] # NoLine
      /\ sum[t] # {} => pc[t] \in Summing
  BY DupTypes DEF DupInv, PlaceAgrees
<1> USE DEF Goto, Leave, dupState, dupHist, DupSetsOK, DupPlaceOK, DupLineOK, PcsOf,
            Summing, Down
<1>2. ASSUME NEW m \in Msg, WriteBegin(t, m)
      PROVE  op'[t] = "write" /\ pc'[t] = "filter" /\ line'[t] # NoLine /\ sum'[t] = {}
  BY <1>1, <1>2, SentLine, Placed DEF WriteBegin
<1>3. CASE DupBegin(t)
  <2>1. /\ op[t] = "none" /\ UNCHANGED <<line, sum>>
        /\ \/ op'[t] = "flush" /\ pc'[t] = "take"
           \/ op'[t] = "enable" /\ pc'[t] = "lock"
           \/ op'[t] = "disable" /\ pc'[t] = "take"
           \/ op'[t] = "shutdown" /\ pc'[t] = "take" /\ \A u \in Caller : ~Down(u)
           \/ op'[t] = "init" /\ pc'[t] = "starting" /\ \A u \in Caller : ~Down(u)
    BY <1>1, <1>3 DEF DupBegin, FlushBegin, EnableBegin, DisableBegin, ShutdownBegin,
       InitBegin, Begin
  <2>2. sum[t] = {} /\ line[t] = NoLine
    BY <1>1, <2>1, Placed
  <2> QED
    BY <2>1, <2>2
<1>4. CASE Fold(t) \/ Emit(t) \/ Return(t)
  <2>1. op'[t] = "none" /\ pc'[t] = "idle" /\ sum'[t] = sum[t] /\ line'[t] = NoLine
        /\ pc[t] \notin Summing
    BY <1>1, <1>4, Placed DEF Fold, Emit, Return
  <2> QED
    BY <1>1, <2>1
<1>5. CASE WriteFilter(t) \/ CheckDisabled(t) \/ ShutdownMark(t) \/ ShutdownClose(t)
            \/ InitDone(t) \/ SetEnabled(t)
  <2>1. UNCHANGED <<op, line, sum>> /\ pc[t] \notin Summing
        /\ \/ op[t] = "write" /\ pc'[t] \in {"check", "emit"}
           \/ op[t] = "shutdown" /\ pc'[t] \in {"close", "done"}
           \/ op[t] = "init" /\ pc'[t] = "done"
           \/ op[t] \in {"enable", "disable"} /\ pc'[t] = "done"
    BY <1>1, <1>5, Placed DEF WriteFilter, CheckDisabled, ShutdownMark, ShutdownClose,
       InitDone, SetEnabled
  <2> QED
    BY <1>1, <2>1
<1>6. CASE NewMessage(t) \/ TakePending(t) \/ SummaryCheck(t) \/ SummaryOut(t)
  <2>1. /\ UNCHANGED <<op, line>>
        /\ op[t] \in {"write", "flush", "disable", "shutdown"}
        /\ \/ pc'[t] = "summary" /\ op[t] = "write"
           \/ pc'[t] = "emit" /\ op[t] = "write" /\ sum'[t] = {}
           \/ pc'[t] = "summary" /\ op[t] # "write"
           \/ pc'[t] = "sumout"
           \/ pc'[t] = AfterSummary(t) /\ sum'[t] = {}
    BY <1>1, <1>6, Placed DEF NewMessage, TakePending, TakeRepeats, SummaryCheck,
       SummaryOut
  <2> QED
    BY <1>1, <2>1 DEF AfterSummary
<1> QED
  BY <1>2, <1>3, <1>4, <1>5, <1>6 DEF DupStep, DupBegin

\* Every step keeps where each thread is in agreement with what it does.
LEMMA PlaceStep ==
    ASSUME DupInv, NEW t \in Caller, DupStep(t)
    PROVE  (\A u \in Caller : PlaceAgrees(u)') /\ OneDown'
<1>1. DupSetsOK /\ DupPlaceOK /\ DupLineOK
  BY DupTypes DEF DupInv
<1>2. line'[t] # NoLine => /\ sent'[t] > 0 /\ line'[t] = <<t, sent'[t]>>
                           /\ msg'[line'[t]] \in Msg
  <2>1. CASE \E m \in Msg : WriteBegin(t, m)
    BY <1>1, <2>1, SentLine DEF WriteBegin, DupLineOK
  <2>2. CASE ~\E m \in Msg : WriteBegin(t, m)
    <3>1. UNCHANGED <<sent, msg>> /\ (line'[t] = line[t] \/ line'[t] = NoLine)
      BY <1>1, <2>2 DEF DupStep, WriteFilter, Fold, NewMessage, CheckDisabled, Emit,
         TakePending, SummaryCheck, SummaryOut, FlushBegin, EnableBegin, DisableBegin,
         ShutdownBegin, InitBegin, Begin, SetEnabled, ShutdownMark, ShutdownClose,
         InitDone, Return, dupState, dupHist, DupLineOK
    <3> QED
      BY <3>1 DEF DupInv, PlaceAgrees
  <2> QED
    BY <2>1, <2>2
<1>3. PlaceAgrees(t)'
  BY <1>2, OwnPlace DEF PlaceAgrees
<1>4. ASSUME NEW u \in Caller, u # t PROVE PlaceAgrees(u)'
  BY <1>4, OthersRest DEF DupInv, PlaceAgrees
<1>5. OneDown'
  <2>1. \A u \in Caller : u # t => (Down(u)' <=> Down(u))
    BY OthersRest DEF Down
  <2> QED
    BY <2>1, OwnPlace DEF DupInv, OneDown
<1> QED
  BY <1>3, <1>4, <1>5

-----------------------------------------------------------------------------
(***************************************************************************)
(* Up, down, and switched off.                                             *)
(***************************************************************************)

\* The state a call tells of: only three steps change initialized or open,
\* and only a begun call makes a thread write, flush, quieten or start.
LEMMA StepChanges ==
    ASSUME DupInv, NEW t \in Caller, DupStep(t)
    PROVE  /\ op[t] # "none" \/ op'[t] # "none"
           /\ \/ UNCHANGED <<initialized, open>>
              \/ op[t] = "shutdown" /\ pc[t] = "down" /\ pc'[t] = "close"
                   /\ initialized' = FALSE /\ UNCHANGED <<open, repeats, op>>
              \/ op[t] = "shutdown" /\ pc[t] = "close" /\ pc'[t] = "done"
                   /\ open' = FALSE /\ UNCHANGED <<initialized, repeats, op>>
              \/ op[t] = "init" /\ pc[t] = "starting" /\ pc'[t] = "done"
                   /\ initialized' = TRUE /\ open' = TRUE /\ UNCHANGED <<repeats, op>>
           /\ repeats' \in {repeats, {}} \/ op[t] = "write"
           /\ op'[t] # op[t] =>
                 /\ UNCHANGED initialized
                 /\ op'[t] \in {"write", "flush", "shutdown"} => initialized
                 /\ op'[t] \in {"disable", "shutdown", "flush"} => pc'[t] = "take"
                 /\ op'[t] = "init" => ~initialized
           /\ op'[t] = op[t] /\ Quiets(t) /\ pc[t] # "take" =>
                 /\ repeats' \in {repeats, {}}
                 /\ pc'[t] \in Summing => pc[t] \in Summing
           /\ op'[t] = op[t] /\ op[t] \in {"disable", "shutdown"} /\ pc[t] = "take" =>
                 /\ repeats' = {} /\ UNCHANGED initialized
                 /\ pc'[t] \in Summing => repeats # {}
           /\ op'[t] = op[t] /\ op[t] = "shutdown"
                 /\ pc[t] \in {"take", "summary", "sumout"} =>
              pc'[t] \in {"summary", "sumout", "down"}
           /\ pc'[t] = "starting" => op'[t] # op[t] /\ op'[t] = "init"
<1>1. DupSetsOK /\ DupPlaceOK /\ DupLineOK
  BY DupTypes DEF DupInv
<1> USE DEF Goto, Leave, dupState, dupHist, DupSetsOK, DupPlaceOK, DupLineOK, Quiets,
            Summing
<1>2. CASE (\E m \in Msg : WriteBegin(t, m)) \/ DupBegin(t)
  BY <1>1, <1>2 DEF WriteBegin, DupBegin, FlushBegin, EnableBegin, DisableBegin,
     ShutdownBegin, InitBegin, Begin
<1>3. CASE Fold(t) \/ Emit(t) \/ Return(t)
  BY <1>1, <1>3, Placed DEF Fold, Emit, Return
<1>4. CASE WriteFilter(t) \/ CheckDisabled(t) \/ SetEnabled(t)
  BY <1>1, <1>4, Placed DEF WriteFilter, CheckDisabled, SetEnabled
<1>5. CASE ShutdownMark(t) \/ ShutdownClose(t) \/ InitDone(t)
  BY <1>1, <1>5, Placed DEF ShutdownMark, ShutdownClose, InitDone
<1>6. CASE NewMessage(t)
  BY <1>1, <1>6, Placed DEF NewMessage, TakeRepeats
<1>7. CASE TakePending(t)
  BY <1>1, <1>7, Placed DEF TakePending, TakeRepeats, AfterSummary
<1>8. CASE SummaryCheck(t) \/ SummaryOut(t)
  BY <1>1, <1>8, Placed DEF SummaryCheck, SummaryOut, AfterSummary
<1> QED
  BY <1>2, <1>3, <1>4, <1>5, <1>6, <1>7, <1>8 DEF DupStep, DupBegin

\* A shutdown goes on from down to its end.
LEMMA ShutdownGoesOn ==
    ASSUME DupInv, NEW t \in Caller, DupStep(t), op[t] = "shutdown", op'[t] = op[t]
    PROVE  /\ pc[t] = "down" => initialized' = FALSE /\ pc'[t] = "close"
           /\ pc[t] = "close" => UNCHANGED initialized /\ pc'[t] = "done"
           /\ pc[t] # "done"
<1>1. DupPlaceOK
  BY DupTypes DEF DupInv
<1>2. pc[t] # "idle" /\ pc[t] \notin {"filter", "check", "emit", "lock", "starting"}
  BY Placed
<1> QED
  BY <1>1, <1>2 DEF DupStep, WriteBegin, WriteFilter, Fold, NewMessage, CheckDisabled,
     Emit, TakePending, SummaryCheck, SummaryOut, FlushBegin, EnableBegin, DisableBegin,
     ShutdownBegin, InitBegin, Begin, SetEnabled, ShutdownMark, ShutdownClose, InitDone,
     Return, Goto, Leave, DupPlaceOK

\* Every step keeps the sinks open while lines are accepted.
LEMMA UpStep ==
    ASSUME DupInv, NEW t \in Caller, DupStep(t)
    PROVE  UpAndOpen'
<1>1. UpAndOpen /\ OneDown
  BY DEF DupInv
<1>2. initialized' => open'
  BY <1>1, StepChanges DEF UpAndOpen
<1>3. ASSUME NEW u \in Caller, op'[u] = "shutdown"
      PROVE  initialized' <=> pc'[u] \notin {"close", "done"}
  <2>1. CASE u = t /\ op'[t] # op[t]
    <3>1. UNCHANGED initialized /\ initialized /\ pc'[u] = "take"
      BY <1>3, <2>1, StepChanges
    <3> QED
      BY <3>1
  <2>2. CASE u = t /\ op'[t] = op[t]
    <3>1. /\ op[t] = "shutdown" /\ (initialized <=> pc[t] \notin {"close", "done"})
          /\ pc[t] \in {"take", "summary", "sumout", "down", "close", "done"}
      BY <1>1, <1>3, <2>2 DEF UpAndOpen, DupInv, PlaceAgrees, PcsOf
    <3>2. CASE pc[t] \in {"take", "summary", "sumout"}
      <4>1. UNCHANGED initialized /\ initialized
        BY <3>1, <3>2, StepChanges
      <4>2. pc'[t] \in {"summary", "sumout", "down"}
        BY <2>2, <3>1, <3>2, StepChanges
      <4> QED
        BY <2>2, <4>1, <4>2
    <3>3. CASE pc[t] = "down"
      <4>1. initialized' = FALSE /\ pc'[t] = "close"
        BY <2>2, <3>1, <3>3, ShutdownGoesOn
      <4> QED
        BY <2>2, <4>1
    <3>4. CASE pc[t] \in {"close", "done"}
      <4>1. UNCHANGED initialized /\ ~initialized /\ pc'[t] = "done"
        BY <2>2, <3>1, <3>4, ShutdownGoesOn
      <4> QED
        BY <2>2, <4>1
    <3> QED
      BY <3>1, <3>2, <3>3, <3>4
  <2>3. CASE u # t
    <3>1. op[u] = "shutdown" /\ pc'[u] = pc[u]
      BY <1>3, <2>3, OthersRest
    <3>2. op[t] \notin {"shutdown", "init"}
      BY <1>1, <2>3, <3>1 DEF OneDown, Down
    <3>3. UNCHANGED initialized
      BY <3>2, StepChanges
    <3> QED
      BY <1>1, <3>1, <3>3 DEF UpAndOpen
  <2> QED
    BY <2>1, <2>2, <2>3
<1>4. ASSUME NEW u \in Caller, pc'[u] = "starting" PROVE ~initialized'
  <2>1. CASE u = t
    BY <1>4, <2>1, StepChanges
  <2>2. CASE u # t
    <3>1. op[u] = "init" /\ pc[u] = "starting"
      BY <1>4, <2>2, OthersRest, Placed
    <3>2. op[t] \notin {"shutdown", "init"}
      BY <1>1, <2>2, <3>1 DEF OneDown, Down
    <3> QED
      BY <1>1, <3>1, <3>2, StepChanges DEF UpAndOpen
  <2> QED
    BY <2>1, <2>2
<1> QED
  BY <1>2, <1>3, <1>4 DEF UpAndOpen

\* Every step keeps what holds while nothing ran beside a disable or a shutdown.
LEMMA CalmStep ==
    ASSUME DupInv, NEW t \in Caller, DupStep(t), raced' = (raced \/ Overlap')
    PROVE  Calm'
<1> SUFFICES ASSUME ~raced'
             PROVE  /\ ~Overlap'
                    /\ ~initialized' => repeats' = {}
                    /\ \A u \in Caller :
                          /\ op'[u] \in {"write", "flush"} => initialized'
                          /\ op'[u] = "disable" /\ pc'[u] \in Summing => initialized'
                          /\ Quiets(u)' /\ pc'[u] # "take" => repeats' = {}
  BY DEF Calm
<1>1. ~raced /\ ~Overlap'
  OBVIOUS
<1>2. /\ ~Overlap /\ (~initialized => repeats = {})
      /\ \A u \in Caller :
            /\ op[u] \in {"write", "flush"} => initialized
            /\ op[u] = "disable" /\ pc[u] \in Summing => initialized
            /\ Quiets(u) /\ pc[u] # "take" => repeats = {}
  BY <1>1 DEF DupInv, Calm
<1>3. \A u \in Caller : u # t => ~Quiets(u)' /\ ~Quiets(u)
  <2>1. ASSUME NEW u \in Caller, u # t PROVE ~Quiets(u)' /\ ~Quiets(u)
    <3>1. Quiets(u)' <=> Quiets(u)
      BY <2>1, OthersRest DEF Quiets
    <3>2. CASE op[t] # "none"
      BY <1>2, <2>1, <3>1, <3>2 DEF Overlap
    <3>3. CASE op'[t] # "none"
      BY <1>1, <2>1, <3>1, <3>3 DEF Overlap
    <3> QED
      BY <3>2, <3>3, StepChanges
  <2> QED
    BY <2>1
<1>4. ~initialized' => repeats' = {}
  <2>1. CASE op[t] = "write"
    <3>1. UNCHANGED initialized /\ initialized
      BY <1>2, <2>1, StepChanges
    <3> QED
      BY <3>1
  <2>2. CASE op[t] # "write" /\ UNCHANGED initialized
    BY <1>2, <2>2, StepChanges
  <2>3. CASE op[t] # "write" /\ ~UNCHANGED initialized
    BY <1>2, <2>3, StepChanges DEF Quiets
  <2> QED
    BY <2>1, <2>2, <2>3
<1>5. ASSUME NEW u \in Caller, op'[u] \in {"write", "flush"} PROVE initialized'
  <2>1. CASE UNCHANGED initialized
    BY <1>2, <1>5, <2>1, StepChanges, OthersRest
  <2>2. CASE op[t] = "shutdown" /\ op'[t] = "shutdown"
    <3>1. u # t /\ Quiets(t)'
      BY <1>5, <2>2 DEF Quiets
    <3> QED
      BY <1>1, <1>5, <3>1 DEF Overlap
  <2> QED
    BY <2>1, <2>2, StepChanges
<1>6. ASSUME NEW u \in Caller, op'[u] = "disable", pc'[u] \in Summing PROVE initialized'
  <2>1. u = t
    BY <1>3, <1>6 DEF Quiets
  <2>2. op[t] = "disable" /\ UNCHANGED initialized
    BY <1>6, <2>1, StepChanges DEF Summing
  <2>3. CASE pc[t] = "take"
    BY <1>2, <1>6, <2>1, <2>2, <2>3, StepChanges
  <2>4. CASE pc[t] # "take"
    BY <1>2, <1>6, <2>1, <2>2, <2>4, StepChanges DEF Quiets
  <2> QED
    BY <2>3, <2>4
<1>7. ASSUME NEW u \in Caller, Quiets(u)', pc'[u] # "take" PROVE repeats' = {}
  <2>1. u = t
    BY <1>3, <1>7
  <2>2. op'[t] = op[t] /\ Quiets(t)
    BY <1>7, <2>1, StepChanges DEF Quiets
  <2>3. CASE pc[t] = "take"
    BY <2>2, <2>3, StepChanges DEF Quiets
  <2>4. CASE pc[t] # "take"
    BY <1>2, <2>2, <2>4, StepChanges
  <2> QED
    BY <2>3, <2>4
<1> QED
  BY <1>1, <1>4, <1>5, <1>6, <1>7

-----------------------------------------------------------------------------
(***************************************************************************)
(* Every line in one place.                                                *)
(***************************************************************************)

\* While nothing raced, who has a line or a count in hand finds the sinks open.
LEMMA HandsAreUp ==
    ASSUME DupInv, ~raced, NEW t \in Caller,
           op[t] \in {"write", "flush"} \/ pc[t] \in Summing
    PROVE  initialized /\ open
<1>1. Calm /\ UpAndOpen
  BY DEF DupInv
<1>2. pc[t] \in Summing => op[t] \in {"write", "flush", "disable", "shutdown"}
  BY Placed
<1> QED
  BY <1>1, <1>2 DEF Calm, UpAndOpen, Summing

\* A line begins in its writer's hands.
LEMMA ApartBegin ==
    ASSUME DupInv, NEW t \in Caller, NEW m \in Msg, WriteBegin(t, m),
           raced' = (raced \/ Overlap'), NEW l \in Line
    PROVE  Apart(l)'
<1>1. DupLineOK /\ DupSetsOK
  BY DupTypes DEF DupInv
<1>2. /\ line' = [line EXCEPT ![t] = <<t, sent[t] + 1>>]
      /\ sent' = [sent EXCEPT ![t] = sent[t] + 1] /\ op[t] = "none"
      /\ UNCHANGED <<written, repeats, told, sum>>
  BY DEF WriteBegin, dupState
<1>3. /\ l[1] \in Caller /\ l[2] \in 1..MaxLines /\ l = <<l[1], l[2]>>
      /\ Apart(l) /\ line[t] = NoLine
  BY <1>2, LineIs, Placed DEF DupInv
<1>4. /\ InSum(l)' <=> InSum(l)
      /\ \A u, v \in Caller : l \in sum'[u] /\ l \in sum'[v] => u = v
      /\ sent[t] \in Nat /\ sent[t] + 1 > sent[t] /\ ~raced' => ~raced
  BY <1>1, <1>2, <1>3 DEF InSum, Apart, DupLineOK
<1>5. CASE l = <<t, sent[t] + 1>>
  <2>1. ~Located(l) /\ Held(l)' /\ l[2] <= sent'[l[1]]
    BY <1>1, <1>2, <1>3, <1>4, <1>5 DEF Apart, Held, DupLineOK
  <2> QED
    BY <1>2, <1>4, <2>1 DEF Apart, Located
<1>6. CASE l # <<t, sent[t] + 1>>
  <2>1. Held(l)' <=> Held(l)
    BY <1>1, <1>2, <1>3, <1>6, DupAssumption DEF Held, DupLineOK
  <2>2. l[2] <= sent'[l[1]] <=> l[2] <= sent[l[1]]
    BY <1>1, <1>2, <1>3, <1>4, <1>6 DEF DupLineOK
  <2> QED
    BY <1>2, <1>3, <1>4, <2>1, <2>2 DEF Apart, Located
<1> QED
  BY <1>5, <1>6

\* A line leaves its writer's hands for the count, or for the sinks.
LEMMA ApartLeave ==
    ASSUME DupInv, NEW t \in Caller, Fold(t) \/ Emit(t),
           raced' = (raced \/ Overlap'), NEW l \in Line
    PROVE  Apart(l)'
<1>1. DupLineOK /\ DupSetsOK /\ op[t] = "write"
      /\ line[t] \in Line /\ line[t] = <<t, sent[t]>>
  BY DupTypes, Placed DEF DupInv, Fold, Emit
<1>2. /\ line' = [line EXCEPT ![t] = NoLine]
      /\ UNCHANGED <<sent, told, sum>>
      /\ \/ repeats' = repeats \cup {line[t]} /\ written' = written
         \/ repeats' = repeats /\ written' = written \cup {line[t]}
         \/ repeats' = repeats /\ written' = written /\ ~open
  BY DEF Fold, Emit, dupState, dupHist
<1>3. /\ l[1] \in Caller /\ l[2] \in 1..MaxLines /\ l = <<l[1], l[2]>> /\ Apart(l)
  BY LineIs DEF DupInv
<1>4. ~raced' => ~raced /\ open
  BY <1>1, HandsAreUp
<1>5. /\ InSum(l)' <=> InSum(l)
      /\ \A u, v \in Caller : l \in sum'[u] /\ l \in sum'[v] => u = v
  BY <1>2, <1>3 DEF InSum, Apart
<1>6. CASE l = line[t]
  <2>1. Held(l) /\ ~Held(l)'
    BY <1>1, <1>2, <1>3, <1>6, DupAssumption DEF Held, DupLineOK
  <2> QED
    BY <1>2, <1>3, <1>4, <1>5, <1>6, <2>1 DEF Apart, Located
<1>7. CASE l # line[t]
  <2>1. Held(l)' <=> Held(l)
    BY <1>1, <1>2, <1>3, <1>7, DupAssumption DEF Held, DupLineOK
  <2>2. (l \in written' <=> l \in written) /\ (l \in repeats' <=> l \in repeats)
    BY <1>2, <1>7
  <2> QED
    BY <1>2, <1>3, <1>4, <1>5, <2>1, <2>2 DEF Apart, Located
<1> QED
  BY <1>6, <1>7

\* A count is taken as a whole, for a summary of the thread that takes it.
LEMMA ApartTake ==
    ASSUME DupInv, NEW t \in Caller, NewMessage(t) \/ TakePending(t),
           raced' = (raced \/ Overlap'), NEW l \in Line
    PROVE  Apart(l)'
<1>1. DupSetsOK /\ sum[t] = {}
  <2>1. pc[t] \notin Summing
    BY DEF NewMessage, TakePending, Summing
  <2> QED
    BY <2>1, DupTypes DEF DupInv, PlaceAgrees
<1>2. /\ UNCHANGED <<line, sent, written, told>>
      /\ sum' = [sum EXCEPT ![t] = repeats] /\ repeats' = {}
  BY DEF NewMessage, TakePending, TakeRepeats, dupHist
<1>3. sum'[t] = repeats /\ \A u \in Caller : u # t => sum'[u] = sum[u]
  BY <1>1, <1>2 DEF DupSetsOK
<1>4. Apart(l) /\ (~raced' => ~raced)
  BY DEF DupInv
<1>5. InSum(l)' <=> InSum(l) \/ l \in repeats
  BY <1>1, <1>3 DEF InSum
<1>6. \A u, v \in Caller : l \in sum'[u] /\ l \in sum'[v] => u = v
  BY <1>3, <1>4 DEF Apart, InSum
<1>7. Held(l)' <=> Held(l)
  BY <1>2 DEF Held
<1> QED
  BY <1>2, <1>4, <1>5, <1>6, <1>7 DEF Apart, Located

\* A count in hand is written, or lost with the sinks.
LEMMA ApartTell ==
    ASSUME DupInv, NEW t \in Caller, SummaryCheck(t) \/ SummaryOut(t),
           raced' = (raced \/ Overlap'), NEW l \in Line
    PROVE  Apart(l)'
<1>1. DupSetsOK /\ pc[t] \in Summing
  BY DupTypes DEF DupInv, SummaryCheck, SummaryOut, Summing
<1>2. /\ UNCHANGED <<line, sent, written, repeats>>
      /\ \/ sum' = sum /\ told' = told
         \/ sum' = [sum EXCEPT ![t] = {}] /\ told' = told /\ ~(initialized /\ open)
         \/ sum' = [sum EXCEPT ![t] = {}] /\ told' = told \cup sum[t]
  BY DEF SummaryCheck, SummaryOut, dupState, dupHist
<1>3. \A u \in Caller : u # t => sum'[u] = sum[u]
  BY <1>1, <1>2 DEF DupSetsOK
<1>4. Apart(l) /\ (~raced' => ~raced /\ initialized /\ open)
  BY <1>1, HandsAreUp DEF DupInv
<1>5. Held(l)' <=> Held(l)
  BY <1>2 DEF Held
<1>6. CASE sum' = sum /\ told' = told
  BY <1>2, <1>4, <1>5, <1>6 DEF Apart, Located, InSum
<1>7. CASE sum' = [sum EXCEPT ![t] = {}]
  <2>1. sum'[t] = {}
    BY <1>1, <1>7 DEF DupSetsOK
  <2>2. /\ InSum(l)' <=> \E u \in Caller : u # t /\ l \in sum[u]
        /\ \A u, v \in Caller : l \in sum'[u] /\ l \in sum'[v] => u = v
    BY <1>3, <1>4, <2>1 DEF InSum, Apart
  <2>3. CASE l \in sum[t]
    BY <1>2, <1>4, <1>5, <1>7, <2>1, <2>2, <2>3 DEF Apart, Located, InSum
  <2>4. CASE l \notin sum[t]
    <3>1. (InSum(l)' <=> InSum(l)) /\ (l \in told' <=> l \in told)
      BY <1>2, <2>2, <2>4 DEF InSum
    <3> QED
      BY <1>2, <1>4, <1>5, <2>2, <3>1 DEF Apart, Located
  <2> QED
    BY <2>3, <2>4
<1> QED
  BY <1>2, <1>6, <1>7

\* Every step keeps each line in one place.
LEMMA ApartStep ==
    ASSUME DupInv, NEW t \in Caller, DupStep(t), raced' = (raced \/ Overlap'),
           NEW l \in Line
    PROVE  Apart(l)'
<1>1. CASE SetEnabled(t)
  <2>1. UNCHANGED <<line, sent, written, told, sum>>
    BY <1>1 DEF SetEnabled, dupHist
  <2>2. CASE op[t] = "enable"
    BY <1>1, <2>1, <2>2 DEF SetEnabled, DupInv, Apart, Located, InSum, Held
  <2>3. CASE op[t] # "enable"
    <3>1. repeats' = {} /\ (~raced => repeats = {})
      BY <1>1, <2>3, Placed DEF SetEnabled, DupInv, Calm, Quiets
    <3> QED
      BY <2>1, <3>1 DEF DupInv, Apart, Located, InSum, Held
  <2> QED
    BY <2>2, <2>3
<1>2. CASE \/ WriteFilter(t) \/ CheckDisabled(t) \/ Return(t) \/ ShutdownMark(t)
           \/ ShutdownClose(t) \/ InitDone(t) \/ DupBegin(t)
  <2>1. UNCHANGED <<line, sent, written, told, sum, repeats>>
    BY <1>2 DEF WriteFilter, CheckDisabled, Return, ShutdownMark, ShutdownClose,
       InitDone, DupBegin, FlushBegin, EnableBegin, DisableBegin, ShutdownBegin,
       InitBegin, Begin, dupState, dupHist
  <2> QED
    BY <2>1 DEF DupInv, Apart, Located, InSum, Held
<1> QED
  BY <1>1, <1>2, ApartBegin, ApartLeave, ApartTake, ApartTell DEF DupStep, DupBegin

\* While nothing races, what a summary or the count holds is not lost.
LEMMA CountKept ==
    ASSUME DupInv, NEW t \in Caller, DupStep(t), raced' = (raced \/ Overlap'), ~raced',
           NEW l \in Line
    PROVE  /\ l \in told => l \in told'
           /\ InSum(l) => InSum(l)' \/ l \in told'
           /\ l \in repeats => (l \in repeats' /\ ~TakePending(t)) \/ InSum(l)'
<1>1. DupSetsOK /\ ~raced
  BY DupTypes DEF DupInv
<1>2. CASE NewMessage(t) \/ TakePending(t)
  <2>1. /\ told' = told /\ sum' = [sum EXCEPT ![t] = repeats]
    BY <1>2 DEF NewMessage, TakePending, TakeRepeats, dupHist
  <2>2. sum[t] = {}
    <3>1. pc[t] \notin Summing
      BY <1>2 DEF NewMessage, TakePending, Summing
    <3> QED
      BY <3>1 DEF DupInv, PlaceAgrees
  <2> QED
    BY <1>1, <2>1, <2>2 DEF InSum, DupSetsOK
<1>3. CASE SummaryCheck(t) \/ SummaryOut(t)
  <2>1. pc[t] \in Summing /\ pc[t] # "take"
    BY <1>3 DEF SummaryCheck, SummaryOut, Summing
  <2>2. initialized /\ open
    BY <1>1, <2>1, HandsAreUp
  <2>3. /\ repeats' = repeats
        /\ \/ sum' = sum /\ told' = told
           \/ sum' = [sum EXCEPT ![t] = {}] /\ told' = told \cup sum[t]
    BY <1>3, <2>2 DEF SummaryCheck, SummaryOut, dupState, dupHist
  <2> QED
    BY <1>1, <2>1, <2>3 DEF InSum, DupSetsOK, TakePending
<1>4. CASE SetEnabled(t)
  <2>1. /\ pc[t] = "lock" /\ UNCHANGED <<told, sum>>
        /\ op[t] = "enable" => repeats' = repeats
    BY <1>4 DEF SetEnabled, dupHist
  <2>2. op[t] # "enable" => repeats = {}
    BY <1>1, <2>1, Placed DEF DupInv, Calm, Quiets
  <2> QED
    BY <2>1, <2>2 DEF InSum, TakePending
<1>5. CASE \/ WriteFilter(t) \/ CheckDisabled(t) \/ Return(t) \/ ShutdownMark(t)
           \/ ShutdownClose(t) \/ InitDone(t) \/ DupBegin(t) \/ Fold(t) \/ Emit(t)
           \/ \E m \in Msg : WriteBegin(t, m)
  <2>1. UNCHANGED <<told, sum>> /\ repeats \subseteq repeats'
    BY <1>5 DEF WriteFilter, CheckDisabled, Return, ShutdownMark, ShutdownClose,
       InitDone, DupBegin, FlushBegin, EnableBegin, DisableBegin, ShutdownBegin,
       InitBegin, Begin, Fold, Emit, WriteBegin, dupState, dupHist
  <2>2. ~TakePending(t)
    BY <1>1, <1>5, Placed DEF WriteFilter, CheckDisabled, Return, ShutdownMark,
       ShutdownClose, InitDone, DupBegin, FlushBegin, EnableBegin, DisableBegin,
       ShutdownBegin, InitBegin, Begin, Fold, Emit, WriteBegin, TakePending
  <2> QED
    BY <2>1, <2>2 DEF InSum
<1> QED
  BY <1>2, <1>3, <1>4, <1>5 DEF DupStep, DupBegin

\* Every step keeps what a flush owes.
LEMMA OwedStep ==
    ASSUME DupInv, NEW t \in Caller, DupStep(t), raced' = (raced \/ Overlap')
    PROVE  OwedIsTold'
<1> SUFFICES ASSUME ~raced', NEW u \in Caller, op'[u] = "flush", NEW l \in owed'[u]
             PROVE  l \in told' \/ InSum(l)' \/ (pc'[u] = "take" /\ l \in repeats')
  BY DEF OwedIsTold
<1>1. DupSetsOK /\ DupPlaceOK /\ OwedIsTold /\ ~raced
  BY DupTypes DEF DupInv
<1>2. CASE u = t /\ op[t] # "flush"
  <2>1. FlushBegin(t)
    BY <1>1, <1>2, StepChanges
    DEF DupStep, WriteBegin, WriteFilter, Fold, NewMessage, CheckDisabled, Emit,
        TakePending, SummaryCheck, SummaryOut, EnableBegin, DisableBegin,
        ShutdownBegin, InitBegin, Begin, SetEnabled, ShutdownMark, ShutdownClose,
        InitDone, Return, Leave, DupPlaceOK
  <2> QED
    BY <1>1, <1>2, <2>1 DEF FlushBegin, Begin, Goto, dupState, DupSetsOK, DupPlaceOK
<1>3. CASE op[u] = "flush"
  <2>1. owed'[u] = owed[u]
    <3>1. CASE u = t
      <4>1. op[t] # "none"
        BY <1>3, <3>1
      <4> QED
        BY <3>1, <4>1
        DEF DupStep, WriteBegin, WriteFilter, Fold, NewMessage, CheckDisabled, Emit,
            TakePending, SummaryCheck, SummaryOut, FlushBegin, EnableBegin,
            DisableBegin, ShutdownBegin, InitBegin, Begin, SetEnabled, ShutdownMark,
            ShutdownClose, InitDone, Return, dupHist
    <3> QED
      BY <3>1, OthersRest
  <2>2. l \in Line
    BY <1>1, <2>1 DEF DupSetsOK
  <2>3. l \in told \/ InSum(l) \/ (pc[u] = "take" /\ l \in repeats)
    BY <1>1, <1>3, <2>1 DEF OwedIsTold
  <2>4. CASE pc[u] = "take" /\ l \in repeats /\ l \in repeats' /\ ~TakePending(t)
    <3>1. pc'[u] = "take"
      <4>1. CASE u = t
        BY <1>3, <2>4, <4>1
        DEF DupStep, WriteBegin, WriteFilter, Fold, NewMessage, CheckDisabled, Emit,
            SummaryCheck, SummaryOut, FlushBegin, EnableBegin, DisableBegin,
            ShutdownBegin, InitBegin, Begin, SetEnabled, ShutdownMark,
            ShutdownClose, InitDone, Return
      <4> QED
        BY <2>4, <4>1, OthersRest
    <3> QED
      BY <2>4, <3>1
  <2> QED
    BY <2>2, <2>3, <2>4, CountKept
<1>4. u # t => op[u] = "flush"
  BY OthersRest
<1> QED
  BY <1>2, <1>3, <1>4

\* Every step keeps the repeats to one message.
LEMMA MessageStep ==
    ASSUME DupInv, NEW t \in Caller, DupStep(t)
    PROVE  CountsOneMessage'
<1>1. DupSetsOK /\ DupLineOK /\ CountsOneMessage
  BY DupTypes DEF DupInv
<1> USE DEF CountsOneMessage, SameMessage
<1>2. ASSUME NEW m \in Msg, WriteBegin(t, m) PROVE CountsOneMessage'
  <2>1. /\ UNCHANGED <<last, repeats>> /\ sent[t] \in Nat
        /\ msg' = [msg EXCEPT ![<<t, sent[t] + 1>>] = m]
    BY <1>1, <1>2 DEF WriteBegin, dupState, DupLineOK
  <2>2. ASSUME NEW l \in repeats PROVE msg'[l] = msg[l]
    <3>1. l \in Line /\ l[2] <= sent[l[1]]
      BY <1>1 DEF DupInv, DupSetsOK, Apart, Located
    <3>2. l # <<t, sent[t] + 1>>
      BY <2>1, <3>1
    <3> QED
      BY <1>1, <2>1, <3>1, <3>2 DEF DupLineOK
  <2> QED
    BY <1>1, <2>1, <2>2
<1>3. CASE Fold(t)
  BY <1>1, <1>3 DEF Fold, dupHist
<1>4. CASE NewMessage(t) \/ TakePending(t)
  BY <1>4 DEF NewMessage, TakePending, TakeRepeats
<1>5. CASE SetEnabled(t)
  BY <1>1, <1>5 DEF SetEnabled, dupHist
<1>6. CASE \/ WriteFilter(t) \/ CheckDisabled(t) \/ Return(t) \/ ShutdownMark(t)
           \/ ShutdownClose(t) \/ InitDone(t) \/ DupBegin(t) \/ Emit(t)
           \/ SummaryCheck(t) \/ SummaryOut(t)
  <2>1. UNCHANGED <<last, repeats, msg>>
    BY <1>6 DEF WriteFilter, CheckDisabled, Return, ShutdownMark, ShutdownClose,
       InitDone, DupBegin, FlushBegin, EnableBegin, DisableBegin, ShutdownBegin,
       InitBegin, Begin, Emit, SummaryCheck, SummaryOut, dupState, dupHist
  <2> QED
    BY <1>1, <2>1
<1> QED
  BY <1>2, <1>3, <1>4, <1>5, <1>6 DEF DupStep, DupBegin

-----------------------------------------------------------------------------
(***************************************************************************)
(* The invariant of duplicate suppression, and what it promises.           *)
(***************************************************************************)
LEMMA DupInvInit == DupInit => DupInv
<1> SUFFICES ASSUME DupInit PROVE DupInv
  OBVIOUS
<1> USE DEF DupInit
<1>1. DupFlagsOK
  BY Zenon DEF DupFlagsOK
<1>2. DupSetsOK /\ DupPlaceOK /\ DupLineOK
  BY DupAssumption DEF DupSetsOK, DupPlaceOK, DupLineOK, Ops, Pcs
<1>3. OneDown /\ UpAndOpen /\ Calm
  BY DEF OneDown, Down, UpAndOpen, Calm, Overlap, Quiets
<1>4. \A t \in Caller : PlaceAgrees(t)
  BY DEF PlaceAgrees, PcsOf
<1>5. ASSUME NEW l \in Line PROVE Apart(l)
  <2>1. ~Located(l)
    BY LineIs, DupAssumption DEF Located, Held, InSum
  <2>2. ~(l[2] <= sent[l[1]])
    BY LineIs, DupAssumption
  <2> QED
    BY <2>1, <2>2 DEF Apart, Located
<1>6. OwedIsTold /\ CountsOneMessage
  BY DEF OwedIsTold, CountsOneMessage
<1> QED
  BY <1>1, <1>2, <1>3, <1>4, <1>5, <1>6, DupTypes DEF DupInv

\* Every step keeps the inductive invariant.
LEMMA DupInvStep == DupInv /\ [DupNext]_dupVars => DupInv'
<1> SUFFICES ASSUME DupInv, [DupNext]_dupVars PROVE DupInv'
  OBVIOUS
<1>1. ASSUME NEW t \in Caller, DupStep(t), raced' = (raced \/ Overlap') PROVE DupInv'
  <2>1. DupTypeOK'
    BY <1>1, DupFlagsStep, DupTypeStep
    DEF DupTypeOK, DupFlagsOK, DupSetsOK, DupPlaceOK, DupLineOK
  <2> QED
    BY <1>1, <2>1, PlaceStep, UpStep, CalmStep, ApartStep, OwedStep, MessageStep
    DEF DupInv
<1>2. CASE UNCHANGED dupVars
  BY <1>2 DEF dupVars, dupState, dupHist, DupInv, DupTypeOK, OneDown, Down, UpAndOpen,
     Calm, Overlap, Quiets, PlaceAgrees, Apart, Located, Held, InSum, OwedIsTold,
     CountsOneMessage, SameMessage
<1> QED
  BY <1>1, <1>2 DEF DupNext

\* The places of the lines, one by one, make the sets of RepeatsAreTold.
LEMMA DupInvTells == DupInv => RepeatsAreTold
<1> SUFFICES ASSUME DupInv PROVE RepeatsAreTold
  OBVIOUS
<1>1. DupSetsOK /\ DupLineOK
  BY DupTypes DEF DupInv
<1>2. Carried \subseteq Line /\ InHand \subseteq Line
  BY <1>1 DEF Carried, InHand, DupLineOK, DupSetsOK
<1>3. \A l \in Line : l \in Carried <=> Held(l)
  <2> SUFFICES ASSUME NEW l \in Line PROVE l \in Carried <=> Held(l)
    OBVIOUS
  <2>1. l[1] \in Caller /\ l # NoLine
    BY LineIs, DupAssumption
  <2>2. ASSUME NEW t \in Caller, line[t] = l PROVE t = l[1]
    BY <2>1, <2>2 DEF DupInv, PlaceAgrees
  <2> QED
    BY <2>1, <2>2 DEF Carried, Held
<1>4. \A l \in Line : l \in InHand <=> InSum(l)
  BY DEF InHand, InSum
<1>5. \A l \in Line : Apart(l)
  BY DEF DupInv
<1>6. /\ Carried \cap (written \cup repeats \cup InHand \cup told) = {}
      /\ written \cap (repeats \cup InHand \cup told) = {}
      /\ repeats \cap (InHand \cup told) = {} /\ InHand \cap told = {}
  BY <1>1, <1>2, <1>3, <1>4, <1>5 DEF Apart, DupSetsOK
<1>7. \A t, u \in Caller : t # u => sum[t] \cap sum[u] = {}
  BY <1>1, <1>5 DEF Apart, DupSetsOK
<1>8. \A l \in Line : l \in Accounted <=> Located(l)
  BY <1>3, <1>4 DEF Accounted, Located
<1>9. Accounted \subseteq Line
  BY <1>1, <1>2 DEF Accounted, DupSetsOK
<1>10. Accounted \subseteq Begun /\ (~raced => Accounted = Begun)
  BY <1>5, <1>8, <1>9 DEF Begun, Apart
<1>11. FlushTells
  <2> SUFFICES ASSUME NEW t \in Caller, op[t] = "flush", pc[t] = "done", ~raced,
                      NEW l \in owed[t]
               PROVE  l \in told \cup InHand
    BY DEF FlushTells
  <2>1. l \in Line /\ (l \in told \/ InSum(l))
    BY <1>1 DEF DupInv, OwedIsTold, DupSetsOK
  <2> QED
    BY <1>4, <2>1
<1> QED
  BY <1>6, <1>7, <1>10, <1>11 DEF RepeatsAreTold, DupInv

\* The inductive invariant of duplicate suppression.
THEOREM DupInvariant == DupSpec => []DupInv
BY DupInvInit, DupInvStep, PTL DEF DupSpec

\* Folding loses nothing and tells nothing twice: every line that was logged
\* is in one place, and as long as nothing raced with switching the suppression
\* off or a shutdown, it is in one, and a flush tells what it owed
\* (dup_check_and_update, dup_flush_pending, dup_emit_summary).
THEOREM RepeatsGetTold == DupSpec => []RepeatsAreTold
BY DupInvariant, DupInvTells, PTL

-----------------------------------------------------------------------------
(***************************************************************************)
(* The registry of loggers: the inductive invariant.                       *)
(***************************************************************************)

\* A rule is recorded only for a name under which nothing else is stored.
RulesPlain == \A p \in Name : rule[p] # NoLevel => IsPlain(p)

\* Logger i obeys every rule that covers it.
Obeys(i) == \A p \in Name :
               rule[p] # NoLevel /\ Covers(p, registry[i].name)
               => registry[i].level = rule[p]
RulesRegistered == \A p \in Name : rule[p] # NoLevel => Registered(p)

RegInv ==
    /\ RegTypeOK /\ RulesPlain /\ RulesRegistered
    /\ \A i \in DOMAIN registry : Obeys(i)
    /\ PrefixLoggerWaits /\ OneLoggerPerName

\* The invariant says what is promised.
LEMMA RegInvHolds == RegInv => PrefixLevelHolds
BY DEF RegInv, PrefixLevelHolds, RulesRegistered, Obeys

\* A logger made by a call is one.
LEMMA LoggersTyped ==
  ASSUME RegTypeOK
  PROVE  \A i \in DOMAIN registry : /\ registry[i] \in Logger
                                     /\ registry[i].name \in Name
<1>1. registry \in Seq(Logger)
  BY DEF RegTypeOK
<1>2. \A i \in DOMAIN registry : registry[i] \in Logger
  BY <1>1
<1> QED
  BY <1>2 DEF Logger

\* The invariant holds at the start.
LEMMA RegInvInit == RegInit => RegInv
BY LevelAssumption DEF RegInit, RegInv, RegTypeOK, RulesPlain, RulesRegistered,
     PrefixLoggerWaits, OneLoggerPerName, Doing, Idle

\* The loggers the newest one may take its level from obey every rule that
\* covers it, because a rule's own logger is among its ancestors.
LEMMA InheritedObeys ==
  ASSUME RegInv, NEW n \in Name, ~Registered(n), NEW l \in Inherited(n)
  PROVE  /\ l \in Level
         /\ \A p \in Name : rule[p] # NoLevel /\ Covers(p, Stored[n]) => l = rule[p]
<1> DEFINE over == {i \in DOMAIN registry : registry[i].name \in Above[Stored[n]]}
<1>1. /\ registry \in Seq(Logger) /\ global \in Level
      /\ \A i \in DOMAIN registry : registry[i] \in Logger
  BY DEF RegInv, RegTypeOK
<1>2. l \in Level
  <2>1. CASE over = {}
    BY <1>1, <2>1 DEF Inherited
  <2>2. CASE over # {}
    <3>1. PICK i \in over : l = registry[i].level
      BY <2>2 DEF Inherited
    <3> QED
      BY <1>1, <3>1 DEF Logger
  <2> QED
    BY <2>1, <2>2
<1>3. ASSUME NEW p \in Name, rule[p] # NoLevel, Covers(p, Stored[n])
      PROVE  l = rule[p]
  <2>1. IsPlain(p) /\ Registered(p)
    BY <1>3 DEF RegInv, RulesPlain, RulesRegistered
  <2>2. PICK j \in DOMAIN registry : registry[j].name = p
    BY <2>1 DEF Registered
  <2>3. p \in Above[Stored[n]]
    <3>1. CASE p = Stored[n]
      BY <2>1, <3>1 DEF IsPlain, IsLong
    <3> QED
      BY <1>3, <3>1 DEF Covers
  <2>4. j \in over
    BY <2>2, <2>3
  <2>5. PICK k \in over : /\ l = registry[k].level
                          /\ \A i \in over : Covers(registry[i].name, registry[k].name)
    BY <2>4 DEF Inherited
  <2>6. Covers(p, registry[k].name)
    BY <2>2, <2>4, <2>5
  <2>7. Obeys(k)
    BY DEF RegInv
  <2> QED
    BY <1>3, <2>5, <2>6, <2>7 DEF Obeys
<1> QED
  BY <1>2, <1>3

\* What hx_clog_logger_get leaves: at most one new logger, at the end, which
\* obeys the rules; and the name itself, unless it is cut, is registered.
LEMMA GetKeeps ==
  ASSUME RegInv, NEW n \in Name, GetLogger(n) \/ GetFails(n), UNCHANGED rule
  PROVE  /\ registry' \in Seq(Logger)
         /\ \A m \in Name : Registered(m) => Registered(m)'
         /\ \A i \in DOMAIN registry' : Obeys(i)'
         /\ OneLoggerPerName'
         /\ GetLogger(n) /\ ~IsLong(n) => Registered(n)'
<1>1. registry \in Seq(Logger) /\ Stored[n] \in Name
  BY StoredAssumption DEF RegInv, RegTypeOK
<1>2. CASE UNCHANGED registry
  <2>1. GetLogger(n) => Registered(n)
    <3> SUFFICES ASSUME NEW l \in Inherited(n),
                        registry' = Append(registry, [name |-> Stored[n], level |-> l])
                 PROVE  FALSE
      BY DEF GetLogger
    <3> QED
      BY <1>1, <1>2
  <2> QED
    BY <1>1, <1>2, <2>1 DEF RegInv, Registered, Obeys, OneLoggerPerName
<1>3. CASE ~UNCHANGED registry
  <2>1. ~Registered(n)
    BY <1>3 DEF GetLogger, GetFails
  <2>2. PICK l \in Inherited(n) :
           registry' = Append(registry, [name |-> Stored[n], level |-> l])
    BY <1>3 DEF GetLogger, GetFails
  <2>3. /\ l \in Level
        /\ \A p \in Name : rule[p] # NoLevel /\ Covers(p, Stored[n]) => l = rule[p]
    BY <2>1, InheritedObeys
  <2> DEFINE new == [name |-> Stored[n], level |-> l]
  <2>4. new \in Logger /\ new.name = Stored[n] /\ new.level = l
    BY <1>1, <2>3 DEF Logger
  <2> HIDE DEF new
  <2>5. /\ registry' \in Seq(Logger)
        /\ Len(registry') = Len(registry) + 1
        /\ DOMAIN registry' = DOMAIN registry \cup {Len(registry) + 1}
        /\ registry'[Len(registry) + 1] = new
        /\ \A i \in DOMAIN registry : i # Len(registry) + 1 /\ registry'[i] = registry[i]
    BY <1>1, <2>2, <2>4 DEF new
  <2>6. \A m \in Name : Registered(m) => Registered(m)'
    BY <2>5 DEF Registered
  <2>7. \A i \in DOMAIN registry' : Obeys(i)'
    BY <2>3, <2>4, <2>5 DEF RegInv, Obeys
  <2>8. OneLoggerPerName'
    <3>1. Stored[n] = n => \A i \in DOMAIN registry : registry[i].name # n
      BY <2>1 DEF Registered
    <3>2. Stored[n] # n => ~IsPlain(Stored[n])
      BY DEF IsPlain, IsLong
    <3> SUFFICES ASSUME NEW i \in DOMAIN registry', NEW j \in DOMAIN registry',
                        registry'[i].name = registry'[j].name, i # j
                 PROVE  ~IsPlain(registry'[i].name)
      BY DEF OneLoggerPerName
    <3>3. CASE i \in DOMAIN registry /\ j \in DOMAIN registry
      BY <2>5, <3>3 DEF RegInv, OneLoggerPerName
    <3>4. CASE i = Len(registry) + 1 \/ j = Len(registry) + 1
      BY <2>4, <2>5, <3>1, <3>2, <3>4
    <3> QED
      BY <2>5, <3>3, <3>4
  <2>9. ~IsLong(n) => Registered(n)'
    BY <2>4, <2>5 DEF Registered, IsLong
  <2> QED
    BY <2>5, <2>6, <2>7, <2>8, <2>9
<1> QED
  BY <1>2, <1>3

\* Setting some of the loggers to one level.
LEMMA SetKeeps ==
  ASSUME RegInv, NEW l \in Level, NEW S \in SUBSET DOMAIN registry,
         registry' = [i \in DOMAIN registry |->
                        IF i \in S THEN [registry[i] EXCEPT !.level = l]
                        ELSE registry[i]]
  PROVE  /\ registry' \in Seq(Logger) /\ DOMAIN registry' = DOMAIN registry
         /\ \A i \in DOMAIN registry :
               /\ registry'[i].name = registry[i].name
               /\ registry'[i].level = IF i \in S THEN l ELSE registry[i].level
         /\ OneLoggerPerName'
         /\ \A m : Registered(m)' <=> Registered(m)
<1>1. registry \in Seq(Logger) /\ \A i \in DOMAIN registry : registry[i] \in Logger
  BY DEF RegInv, RegTypeOK
<1>2. DOMAIN registry = 1..Len(registry) /\ Len(registry) \in Nat
  BY <1>1
<1>3. \A i \in DOMAIN registry :
         /\ registry'[i] \in Logger
         /\ registry'[i].name = registry[i].name
         /\ registry'[i].level = IF i \in S THEN l ELSE registry[i].level
  BY <1>1 DEF Logger
<1>4. registry' \in [1..Len(registry) -> Logger] /\ DOMAIN registry' = DOMAIN registry
  BY <1>2, <1>3
<1>5. registry' \in Seq(Logger)
  BY <1>2, <1>4
<1>6. OneLoggerPerName'
  BY <1>3, <1>4 DEF RegInv, OneLoggerPerName
<1>7. \A m : Registered(m)' <=> Registered(m)
  BY <1>3, <1>4 DEF Registered
<1> QED
  BY <1>3, <1>4, <1>5, <1>6, <1>7

\* A rule that setting the loggers named in hit to l leaves in force was in
\* force before, and agrees with l wherever it covers one of them.
LEMMA RulesAfterKeeps ==
  ASSUME RegInv, NEW hit \in SUBSET Name, NEW l \in Level
  PROVE  /\ RulesAfter(hit, l) \in [Name -> Level \cup {NoLevel}]
         /\ \A q \in Name : RulesAfter(hit, l)[q] # NoLevel =>
               /\ rule[q] = RulesAfter(hit, l)[q]
               /\ \A n \in hit : Covers(q, n) => rule[q] = l
BY DEF RegInv, RegTypeOK, RulesAfter

\* Every step keeps the invariant.
LEMMA RegInvStep == RegInv /\ [RegNext]_regVars => RegInv'
<1> SUFFICES ASSUME RegInv, [RegNext]_regVars PROVE RegInv'
  OBVIOUS
<1>0. RegTypeOK /\ RulesPlain /\ RulesRegistered /\ PrefixLoggerWaits /\ OneLoggerPerName
  BY DEF RegInv
<1>1. ASSUME NEW t \in Client, NEW n \in Name, Get(t, n)
      PROVE  RegInv'
  <2>1. /\ UNCHANGED <<global, deflevel, doing, rule>>
        /\ calls' \in 0..MaxCalls
    BY <1>0, <1>1, LevelAssumption DEF Get, Call, RegTypeOK
  <2>2. /\ registry' \in Seq(Logger)
        /\ \A m \in Name : Registered(m) => Registered(m)'
        /\ \A i \in DOMAIN registry' : Obeys(i)'
        /\ OneLoggerPerName'
    BY <1>1, <2>1, GetKeeps DEF Get
  <2>3. RegTypeOK'
    BY <1>0, <2>1, <2>2 DEF RegTypeOK
  <2>4. RulesPlain' /\ RulesRegistered'
    BY <1>0, <2>1, <2>2 DEF RulesPlain, RulesRegistered
  <2>5. PrefixLoggerWaits'
    <3> SUFFICES ASSUME NEW u \in Client, doing[u].op = "prefix", ~doing[u].cut,
                        ~IsLong(doing[u].name)
                 PROVE  Registered(doing[u].name)'
      BY <2>1 DEF PrefixLoggerWaits
    <3>1. doing[u].name \in Name
      BY <1>0 DEF RegTypeOK, Doing, Idle, Prefix, Store
    <3> QED
      BY <1>0, <2>1, <2>2, <3>1 DEF PrefixLoggerWaits
  <2> QED
    BY <2>2, <2>3, <2>4, <2>5 DEF RegInv
<1>2. ASSUME NEW t \in Client, NEW p \in Name, NEW l \in Level, PrefixBegin(t, p, l)
      PROVE  RegInv'
  <2>1. /\ UNCHANGED <<global, deflevel, rule>>
        /\ calls' \in 0..MaxCalls
    BY <1>0, <1>2, LevelAssumption DEF PrefixBegin, Call, RegTypeOK
  <2>2. PICK cut \in BOOLEAN :
           /\ IF cut THEN GetFails(p) ELSE GetLogger(p)
           /\ doing' = [doing EXCEPT ![t] = [op |-> "prefix", name |-> p,
                                             level |-> l, cut |-> cut]]
    BY <1>2 DEF PrefixBegin
  <2>3. /\ registry' \in Seq(Logger)
        /\ \A m \in Name : Registered(m) => Registered(m)'
        /\ \A i \in DOMAIN registry' : Obeys(i)'
        /\ OneLoggerPerName'
        /\ GetLogger(p) /\ ~IsLong(p) => Registered(p)'
    BY <2>1, <2>2, GetKeeps
  <2>4. doing' \in [Client -> Doing]
    <3>1. [op |-> "prefix", name |-> p, level |-> l, cut |-> cut] \in Prefix
      BY DEF Prefix
    <3> QED
      BY <1>0, <2>2, <3>1 DEF RegTypeOK, Doing
  <2>5. RegTypeOK'
    BY <1>0, <2>1, <2>3, <2>4 DEF RegTypeOK
  <2>6. RulesPlain' /\ RulesRegistered'
    BY <1>0, <2>1, <2>3 DEF RulesPlain, RulesRegistered
  <2>7. PrefixLoggerWaits'
    <3> SUFFICES ASSUME NEW u \in Client, doing'[u].op = "prefix", ~doing'[u].cut,
                        ~IsLong(doing'[u].name)
                 PROVE  Registered(doing[u].name)'
      BY DEF PrefixLoggerWaits
    <3>1. CASE u = t
      <4>1. doing'[u].name = p /\ doing'[u].cut = cut
        BY <1>0, <2>2, <3>1 DEF RegTypeOK
      <4> QED
        BY <2>2, <2>3, <4>1
    <3>2. CASE u # t
      <4>1. doing'[u] = doing[u] /\ doing[u].name \in Name
        BY <1>0, <2>2, <3>2 DEF RegTypeOK, Doing, Idle, Prefix, Store
      <4> QED
        BY <1>0, <2>3, <4>1 DEF PrefixLoggerWaits
    <3> QED
      BY <3>1, <3>2
  <2> QED
    BY <2>3, <2>5, <2>6, <2>7 DEF RegInv
<1>3. ASSUME NEW t \in Client, PrefixSweep(t)
      PROVE  RegInv'
  <2> DEFINE p == doing[t].name
             l == doing[t].level
             hit == {n \in Name : Covers(p, n)}
             S == {i \in DOMAIN registry : Covers(p, registry[i].name)}
  <2>1. p \in Name /\ l \in Level /\ doing[t].cut \in BOOLEAN /\ doing[t].op = "prefix"
    BY <1>0, <1>3 DEF PrefixSweep, RegTypeOK, Doing, Idle, Prefix, Store
  <2>2. /\ UNCHANGED <<global, deflevel, calls>>
        /\ registry' = [i \in DOMAIN registry |->
                          IF i \in S THEN [registry[i] EXCEPT !.level = l]
                          ELSE registry[i]]
        /\ rule' = [RulesAfter(hit, l) EXCEPT
                      ![p] = IF IsPlain(p) /\ ~doing[t].cut THEN l ELSE @]
        /\ doing' = [doing EXCEPT ![t] = Idle]
    BY <1>3 DEF PrefixSweep, Sweep
  <2>3. hit \in SUBSET Name /\ p \in hit /\ S \in SUBSET DOMAIN registry
    BY <2>1 DEF Covers
  <2> HIDE DEF p, l, hit, S
  <2>4. /\ registry' \in Seq(Logger) /\ DOMAIN registry' = DOMAIN registry
        /\ \A i \in DOMAIN registry :
              /\ registry'[i].name = registry[i].name
              /\ registry'[i].level = IF i \in S THEN l ELSE registry[i].level
        /\ OneLoggerPerName'
        /\ \A m : Registered(m)' <=> Registered(m)
    BY <2>1, <2>2, <2>3, SetKeeps
  <2>5. /\ RulesAfter(hit, l) \in [Name -> Level \cup {NoLevel}]
        /\ \A q \in Name : RulesAfter(hit, l)[q] # NoLevel =>
              /\ rule[q] = RulesAfter(hit, l)[q]
              /\ \A n \in hit : Covers(q, n) => rule[q] = l
    BY <2>1, <2>3, RulesAfterKeeps
  <2>6. /\ rule' \in [Name -> Level \cup {NoLevel}]
        /\ \A q \in Name : rule'[q] # NoLevel =>
              \/ q = p /\ rule'[q] = l /\ IsPlain(p) /\ ~doing[t].cut
              \/ /\ rule'[q] = rule[q]
                 /\ \A n \in hit : Covers(q, n) => rule[q] = l
    BY <2>1, <2>2, <2>5
  <2>7. RegTypeOK'
    <3>1. doing' \in [Client -> Doing]
      BY <1>0, <2>2 DEF RegTypeOK, Doing
    <3> QED
      BY <1>0, <2>2, <2>4, <2>6, <3>1 DEF RegTypeOK
  <2>8. RulesPlain'
    BY <1>0, <2>6 DEF RulesPlain
  <2>9. RulesRegistered'
    <3>1. ~doing[t].cut /\ IsPlain(p) => Registered(p)
      BY <1>0, <2>1 DEF PrefixLoggerWaits, IsPlain, p
    <3> SUFFICES ASSUME NEW q \in Name, rule'[q] # NoLevel
                 PROVE  Registered(q)'
      BY DEF RulesRegistered
    <3>2. Registered(q)
      BY <1>0, <2>6, <3>1 DEF RulesRegistered
    <3> QED
      BY <2>4, <3>2
  <2>10. ASSUME NEW i \in DOMAIN registry'
         PROVE  Obeys(i)'
    <3> SUFFICES ASSUME NEW q \in Name, rule'[q] # NoLevel,
                        Covers(q, registry'[i].name)
                 PROVE  registry'[i].level = rule'[q]
      BY DEF Obeys
    <3>1. /\ i \in DOMAIN registry /\ registry'[i].name = registry[i].name
          /\ registry[i].name \in Name
          /\ Obeys(i)
      BY <1>0, <2>4, LoggersTyped DEF RegInv
    <3>2. i \in S <=> Covers(p, registry[i].name)
      BY <3>1 DEF S
    <3>3. i \in S => registry[i].name \in hit
      BY <3>1, <3>2 DEF hit
    <3>4. CASE q = p /\ rule'[q] = l
      BY <2>4, <3>1, <3>2, <3>4
    <3>5. CASE rule'[q] = rule[q] /\ \A n \in hit : Covers(q, n) => rule[q] = l
      BY <2>4, <3>1, <3>3, <3>5 DEF Obeys
    <3> QED
      BY <2>6, <3>4, <3>5
  <2>11. PrefixLoggerWaits'
    <3>1. \A u \in Client : doing'[u] = doing[u] \/ doing'[u].op # "prefix"
      BY <1>0, <2>2 DEF RegTypeOK, Idle
    <3> QED
      BY <1>0, <2>4, <3>1 DEF PrefixLoggerWaits
  <2> QED
    BY <2>4, <2>7, <2>8, <2>9, <2>10, <2>11 DEF RegInv
<1>4. ASSUME NEW t \in Client, NEW l \in Level, SweepAll(t, l)
      PROVE  RegInv'
  <2>1. /\ UNCHANGED <<global, deflevel, doing>>
        /\ calls' \in 0..MaxCalls
        /\ registry' = [i \in DOMAIN registry |->
                          IF i \in DOMAIN registry
                          THEN [registry[i] EXCEPT !.level = l] ELSE registry[i]]
        /\ rule' = [q \in Name |-> IF rule[q] = l THEN l ELSE NoLevel]
    BY <1>0, <1>4, LevelAssumption DEF SweepAll, Call, RegTypeOK
  <2>2. /\ registry' \in Seq(Logger) /\ DOMAIN registry' = DOMAIN registry
        /\ \A i \in DOMAIN registry :
              /\ registry'[i].name = registry[i].name
              /\ registry'[i].level = l
        /\ OneLoggerPerName'
        /\ \A m : Registered(m)' <=> Registered(m)
    <3>1. DOMAIN registry \in SUBSET DOMAIN registry
      OBVIOUS
    <3>2. /\ registry' \in Seq(Logger) /\ DOMAIN registry' = DOMAIN registry
          /\ \A i \in DOMAIN registry :
                /\ registry'[i].name = registry[i].name
                /\ registry'[i].level = IF i \in DOMAIN registry THEN l
                                        ELSE registry[i].level
          /\ OneLoggerPerName'
          /\ \A m : Registered(m)' <=> Registered(m)
      BY <2>1, <3>1, SetKeeps
    <3> QED
      BY <3>2
  <2>3. \A q \in Name : rule'[q] # NoLevel => rule'[q] = l /\ rule[q] = l
    BY <2>1
  <2>4. RegTypeOK'
    BY <1>0, <2>1, <2>2 DEF RegTypeOK
  <2>5. RulesPlain' /\ RulesRegistered'
    BY <1>0, <2>2, <2>3 DEF RulesPlain, RulesRegistered
  <2>6. \A i \in DOMAIN registry' : Obeys(i)'
    BY <2>2, <2>3 DEF Obeys
  <2>7. PrefixLoggerWaits'
    BY <1>0, <2>1, <2>2 DEF PrefixLoggerWaits
  <2> QED
    BY <2>2, <2>4, <2>5, <2>6, <2>7 DEF RegInv
<1>5. ASSUME NEW t \in Client, NEW k \in DOMAIN registry, NEW l \in Level,
             SetLogger(t, k, l)
      PROVE  RegInv'
  <2>0. registry[k].name \in Name
    BY <1>0, LoggersTyped
  <2>1. /\ UNCHANGED <<global, deflevel, doing>>
        /\ calls' \in 0..MaxCalls
        /\ rule' = RulesAfter({registry[k].name}, l)
    BY <1>0, <1>5, LevelAssumption DEF SetLogger, Call, RegTypeOK
  <2>2. registry' = [i \in DOMAIN registry |->
                       IF i \in {k} THEN [registry[i] EXCEPT !.level = l]
                       ELSE registry[i]]
    BY <1>5, <2>0 DEF SetLogger
  <2>3. /\ registry' \in Seq(Logger) /\ DOMAIN registry' = DOMAIN registry
        /\ \A i \in DOMAIN registry :
              /\ registry'[i].name = registry[i].name
              /\ registry'[i].level = IF i \in {k} THEN l ELSE registry[i].level
        /\ OneLoggerPerName'
        /\ \A m : Registered(m)' <=> Registered(m)
    BY <2>2, SetKeeps
  <2>4. /\ rule' \in [Name -> Level \cup {NoLevel}]
        /\ \A q \in Name : rule'[q] # NoLevel =>
              /\ rule[q] = rule'[q]
              /\ Covers(q, registry[k].name) => rule[q] = l
    <3>1. {registry[k].name} \in SUBSET Name
      BY <2>0
    <3> QED
      BY <2>1, <3>1, RulesAfterKeeps
  <2>5. RegTypeOK'
    BY <1>0, <2>1, <2>3, <2>4 DEF RegTypeOK
  <2>6. RulesPlain' /\ RulesRegistered'
    BY <1>0, <2>3, <2>4 DEF RulesPlain, RulesRegistered
  <2>7. \A i \in DOMAIN registry' : Obeys(i)'
    BY <2>3, <2>4 DEF RegInv, Obeys
  <2>8. PrefixLoggerWaits'
    BY <1>0, <2>1, <2>3 DEF PrefixLoggerWaits
  <2> QED
    BY <2>3, <2>5, <2>6, <2>7, <2>8 DEF RegInv
<1>6. ASSUME NEW t \in Client, DropAll(t)
      PROVE  RegInv'
  <2>1. /\ UNCHANGED <<global, deflevel>> /\ calls' \in 0..MaxCalls
        /\ registry' = <<>> /\ rule' = [n \in Name |-> NoLevel]
        /\ doing' = [u \in Client |-> IF doing[u].op = "prefix"
                        THEN [doing[u] EXCEPT !.cut = TRUE] ELSE doing[u]]
    BY <1>0, <1>6, LevelAssumption DEF DropAll, Call, RegTypeOK
  <2>2. \A u \in Client : /\ doing'[u] \in Doing
                          /\ doing'[u].op = "prefix" => doing'[u].cut = TRUE
    <3> SUFFICES ASSUME NEW u \in Client
                 PROVE  /\ doing'[u] \in Doing
                        /\ doing'[u].op = "prefix" => doing'[u].cut = TRUE
      OBVIOUS
    <3>1. doing[u] \in Prefix \/ doing[u] \in {Idle} \cup Store
      BY <1>0 DEF RegTypeOK, Doing
    <3>2. CASE doing[u] \in Prefix
      <4>1. doing'[u] = [doing[u] EXCEPT !.cut = TRUE]
        BY <2>1, <3>2 DEF Prefix
      <4>2. doing'[u] \in Prefix /\ doing'[u].cut = TRUE
        BY <3>2, <4>1 DEF Prefix
      <4> QED
        BY <4>2 DEF Doing
    <3>3. CASE doing[u] \in {Idle} \cup Store
      BY <2>1, <3>3 DEF Doing, Idle, Store
    <3> QED
      BY <3>1, <3>2, <3>3
  <2>3. RegTypeOK'
    BY <1>0, <2>1, <2>2 DEF RegTypeOK
  <2>4. RulesPlain' /\ RulesRegistered' /\ (\A i \in DOMAIN registry' : Obeys(i)')
    BY <2>1 DEF RulesPlain, RulesRegistered, Obeys
  <2>5. PrefixLoggerWaits' /\ OneLoggerPerName'
    BY <2>1, <2>2 DEF PrefixLoggerWaits, OneLoggerPerName
  <2> QED
    BY <2>3, <2>4, <2>5 DEF RegInv
<1>7. ASSUME NEW t \in Client, NEW l \in Level,
             SetLevel(t, l) \/ SetDefaultLogger(t, l)
      PROVE  RegInv'
  <2>1. /\ UNCHANGED <<registry, rule>> /\ calls' \in 0..MaxCalls
        /\ global' \in Level /\ deflevel' \in Level
        /\ \E o \in {"default", "global"} :
              doing' = [doing EXCEPT ![t] = [op |-> o, level |-> l]]
    BY <1>0, <1>7, LevelAssumption DEF SetLevel, SetDefaultLogger, Call, RegTypeOK
  <2>2. PICK o \in {"default", "global"} :
           doing' = [doing EXCEPT ![t] = [op |-> o, level |-> l]]
    BY <2>1
  <2>3. \A u \in Client : /\ doing'[u] \in Doing
                          /\ doing'[u] = doing[u] \/ doing'[u].op # "prefix"
    BY <1>0, <2>2 DEF RegTypeOK, Doing, Store
  <2>4. doing' \in [Client -> Doing]
    BY <1>0, <2>2, <2>3 DEF RegTypeOK
  <2> QED
    BY <1>0, <2>1, <2>3, <2>4 DEF RegInv, RegTypeOK, RulesPlain, RulesRegistered,
       Registered, Obeys, PrefixLoggerWaits, OneLoggerPerName
<1>8. ASSUME NEW t \in Client, StoreSecond(t)
      PROVE  RegInv'
  <2>1. doing[t].level \in Level
    BY <1>0, <1>8 DEF StoreSecond, RegTypeOK, Doing, Idle, Prefix, Store
  <2>2. /\ UNCHANGED <<registry, rule, calls>>
        /\ global' \in Level /\ deflevel' \in Level
        /\ doing' = [doing EXCEPT ![t] = Idle]
    BY <1>0, <1>8, <2>1 DEF StoreSecond, RegTypeOK
  <2>3. doing' \in [Client -> Doing]
    BY <1>0, <2>2 DEF RegTypeOK, Doing
  <2>4. \A u \in Client : doing'[u] = doing[u] \/ doing'[u].op # "prefix"
    BY <1>0, <2>2 DEF RegTypeOK, Idle
  <2> QED
    BY <1>0, <2>2, <2>3, <2>4 DEF RegInv, RegTypeOK, RulesPlain, RulesRegistered,
       Registered, Obeys, PrefixLoggerWaits, OneLoggerPerName
<1>9. CASE UNCHANGED regVars
  BY <1>0, <1>9 DEF RegInv, regVars, RegTypeOK, RulesPlain, RulesRegistered,
     Registered, Obeys, PrefixLoggerWaits, OneLoggerPerName
<1> QED
  BY <1>1, <1>2, <1>3, <1>4, <1>5, <1>6, <1>7, <1>8, <1>9 DEF RegNext

\* The inductive invariant of the registry.
THEOREM RegistryInvariant == RegSpec => []RegInv
BY RegInvInit, RegInvStep, PTL DEF RegSpec

\* The level set for a prefix holds for the prefix and everything below it,
\* whenever and by whichever thread a logger is created, until a call sets it
\* otherwise; a name has one logger (hx_clog_set_level_for_prefix,
\* hx_clog_logger_get).
THEOREM PrefixLevelIsKept == RegSpec => []PrefixLevelHolds
BY RegistryInvariant, RegInvHolds, PTL

-----------------------------------------------------------------------------
(***************************************************************************)
(* The network sink, for any back-off, any number of pieces per line, any  *)
(* clock that does not go back and any failures.  The proof follows the    *)
(* last piece on the wire: it is what the next one must fit.               *)
(***************************************************************************)

Sent == Len(wire)
Last == wire[Sent]

\* The sink's own state: it sends only while connected, and not past the line.
PhaseAgrees ==
    /\ npc = "sending" => connected /\ off < Chunks
    /\ npc = "opening" => ~connected /\ off = 0
    /\ proto = "UDP" => wire = <<>>

\* A connection attempt lies in the past, and its back-off began there or later.
AttemptsPast ==
    /\ last_attempt <= now
    /\ starts # <<>> => starts[Len(starts)] <= last_attempt

\* The last piece is of this line if a piece of this line was sent, and of an
\* earlier line otherwise; on the open connection it ends its line.
LastPieceFits ==
    /\ npc = "sending" /\ off > 0 =>
          wire # <<>> /\ Last = [conn |-> Len(starts), line |-> cur, piece |-> off]
    /\ wire # <<>> =>
          /\ Last.conn <= Len(starts) /\ Last.line <= cur
          /\ npc \in {"opening", "sending"} /\ off = 0 => Last.line < cur
          /\ npc = "opening" => Last.conn < Len(starts)
          /\ connected /\ Last.conn = Len(starts) /\ (npc = "sending" => off = 0)
                => Last.piece = Chunks

NetInv == NetTypeOK /\ PhaseAgrees /\ AttemptsPast /\ LastPieceFits
          /\ WholeLines /\ OneReportPerWindow

-----------------------------------------------------------------------------
\* The invariant holds at the start.
LEMMA NetInvInit == NetInit => NetInv
<1> SUFFICES ASSUME NetInit PROVE NetInv
  OBVIOUS
<1> USE NetAssumption DEF NetInit
<1>1. NetTypeOK
  <2>1. wire \in Seq(Piece) /\ starts \in Seq(Nat)
    OBVIOUS
  <2>2. connected \in BOOLEAN
    BY Zenon
  <2>3. now \in Nat /\ last_attempt \in Nat /\ reports \in Nat
        /\ cur \in 0..MaxWrites /\ off \in 0..Chunks
    OBVIOUS
  <2>4. proto \in {"TCP", "UDP"} /\ npc \in {"idle", "opening", "sending", "closed"}
    BY Zenon
  <2> QED
    BY <2>1, <2>2, <2>3, <2>4, Zenon DEF NetTypeOK
<1>2. PhaseAgrees /\ AttemptsPast /\ LastPieceFits
  BY DEF PhaseAgrees, AttemptsPast, LastPieceFits
<1>3. WholeLines
  BY DEF WholeLines
<1>4. OneReportPerWindow
  BY DEF OneReportPerWindow
<1> QED
  BY <1>1, <1>2, <1>3, <1>4 DEF NetInv

\* The pieces of a line follow each other on the wire.
LEMMA NextPieceFits ==
    ASSUME NetInv, SendPart
    PROVE  WholeLines' /\ LastPieceFits' /\ wire' \in Seq(Piece)
<1> DEFINE p == [conn |-> Len(starts), line |-> cur, piece |-> off + 1]
<1>1. p \in Piece /\ wire \in Seq(Piece) /\ Sent \in Nat
  BY DEF NetInv, NetTypeOK, Piece, Sent
<1>2. /\ wire' = Append(wire, p) /\ wire' \in Seq(Piece) /\ Len(wire') = Sent + 1
      /\ wire'[Sent + 1] = p /\ \A i \in 1..Sent : wire'[i] = wire[i]
  BY <1>1 DEF SendPart, Sent
<1>3. off \in Nat /\ cur \in Nat /\ Len(starts) \in Nat /\ Chunks \in Nat \ {0}
  BY NetAssumption DEF NetInv, NetTypeOK
<1>4. Sent > 0 => /\ Last \in Piece
                  /\ IF Last.conn = p.conn
                     THEN Continues(Last, p) \/ (Last.piece = Chunks /\ Follows(Last, p))
                     ELSE p.piece = 1 /\ Last.line < p.line
  <2> SUFFICES ASSUME Sent > 0
               PROVE  /\ Last \in Piece
                      /\ IF Last.conn = p.conn
                         THEN \/ Continues(Last, p)
                              \/ Last.piece = Chunks /\ Follows(Last, p)
                         ELSE p.piece = 1 /\ Last.line < p.line
    OBVIOUS
  <2>1. wire # <<>> /\ Last \in Piece
    BY <1>1 DEF Last, Sent
  <2>2. npc = "sending" /\ connected
    BY DEF SendPart, NetInv, PhaseAgrees
  <2>3. CASE off > 0
    BY <1>3, <2>1, <2>2, <2>3 DEF NetInv, LastPieceFits, Continues
  <2>4. CASE off = 0
    BY <1>3, <2>1, <2>2, <2>4 DEF NetInv, LastPieceFits, Follows
  <2> QED
    BY <1>3, <2>3, <2>4
<1>5. Sent = 0 => p.piece = 1
  BY <1>1 DEF NetInv, LastPieceFits, NetTypeOK, SendPart, Sent
<1>6. WholeLines'
  <2> SUFFICES ASSUME NEW i \in 1..Sent + 1
               PROVE  IF i > 1 /\ wire'[i - 1].conn = wire'[i].conn
                      THEN \/ Continues(wire'[i - 1], wire'[i])
                           \/ /\ wire'[i - 1].piece = Chunks
                              /\ Follows(wire'[i - 1], wire'[i])
                      ELSE /\ wire'[i].piece = 1
                           /\ i > 1 => wire'[i - 1].line < wire'[i].line
    BY <1>2 DEF WholeLines, Continues, Follows
  <2>1. CASE i = Sent + 1
    BY <1>1, <1>2, <1>4, <1>5, <2>1 DEF Last
  <2>2. CASE i \in 1..Sent
    <3>1. /\ wire'[i] = wire[i] /\ (i > 1 => wire'[i - 1] = wire[i - 1])
          /\ i \in DOMAIN wire
      BY <1>1, <1>2, <2>2 DEF Sent
    <3> QED
      BY <1>1, <2>2, <3>1 DEF NetInv, WholeLines, Sent, Continues, Follows
  <2> QED
    BY <1>1, <2>1, <2>2
<1>7. LastPieceFits'
  <2>1. Last' = p /\ wire' # <<>>
    BY <1>1, <1>2 DEF Last, Sent
  <2>2. npc' \in {"idle", "sending"} /\ off' = off + 1 /\ off' > 0
        /\ (npc' = "idle" => off' = Chunks) /\ UNCHANGED <<starts, cur>>
    BY DEF SendPart, LastPart, NetInv, NetTypeOK
  <2> QED
    BY <2>1, <2>2, NetAssumption DEF LastPieceFits, NetInv, NetTypeOK
<1> QED
  BY <1>2, <1>6, <1>7

\* A new attempt starts a back-off after the previous one.
LEMMA AttemptFits ==
    ASSUME NetInv, WriteAttempt
    PROVE  OneReportPerWindow' /\ AttemptsPast' /\ starts' \in Seq(Nat)
<1>1. starts \in Seq(Nat) /\ Len(starts) \in Nat /\ now \in Nat /\ last_attempt \in Nat
      /\ reports \in Nat /\ RetrySecs \in Nat
  BY NetAssumption DEF NetInv, NetTypeOK
<1>2. /\ starts' = Append(starts, now) /\ starts' \in Seq(Nat)
      /\ Len(starts') = Len(starts) + 1 /\ starts'[Len(starts) + 1] = now
      /\ \A i \in 1..Len(starts) : starts'[i] = starts[i] /\ starts[i] \in Nat
  BY <1>1 DEF WriteAttempt
<1>3. Len(starts) > 0 => now - starts[Len(starts)] >= RetrySecs
  BY <1>1, <1>2 DEF WriteAttempt, InBackoff, NetInv, AttemptsPast
<1>4. \A i \in 2..Len(starts') : starts'[i] - starts'[i - 1] >= RetrySecs
  <2> TAKE i \in 2..Len(starts')
  <2>1. CASE i = Len(starts) + 1
    BY <1>1, <1>2, <1>3, <2>1
  <2>2. CASE i \in 2..Len(starts)
    BY <1>1, <1>2, <2>2 DEF NetInv, OneReportPerWindow
  <2> QED
    BY <1>1, <1>2, <2>1, <2>2
<1> QED
  BY <1>1, <1>2, <1>4
  DEF OneReportPerWindow, AttemptsPast, NetInv, WriteAttempt

\* Every step keeps the invariant.
LEMMA NetInvStep == NetInv /\ [NetNext]_netVars => NetInv'
<1> SUFFICES ASSUME NetInv, [NetNext]_netVars PROVE NetInv'
  OBVIOUS
<1> USE NetAssumption DEF NetInv
<1>1. CASE SendPart
  <2>1. NetTypeOK'
    BY <1>1, NextPieceFits DEF NetTypeOK, SendPart, LastPart, PhaseAgrees
  <2>2. PhaseAgrees' /\ AttemptsPast' /\ OneReportPerWindow'
    BY <1>1 DEF NetTypeOK, SendPart, LastPart, PhaseAgrees, AttemptsPast,
                OneReportPerWindow
  <2> QED
    BY <1>1, <2>1, <2>2, NextPieceFits
<1>2. CASE WriteAttempt
  <2>1. NetTypeOK' /\ PhaseAgrees' /\ WholeLines'
    BY <1>2, AttemptFits
    DEF NetTypeOK, WriteAttempt, NextLine, PhaseAgrees, WholeLines
  <2>2. LastPieceFits'
    <3>1. Len(starts') = Len(starts) + 1 /\ Len(starts) \in Nat /\ cur \in Nat
      BY <1>2 DEF WriteAttempt, NetTypeOK
    <3>2. wire # <<>> => Last \in Piece
      BY DEF NetTypeOK, Last, Sent
    <3> QED
      BY <1>2, <3>1, <3>2
      DEF WriteAttempt, NextLine, LastPieceFits, Last, Sent, Piece
  <2> QED
    BY <1>2, <2>1, <2>2, AttemptFits
<1>3. CASE WriteDropped \/ WriteConnected
  <2>1. wire # <<>> => Last \in Piece
    BY DEF NetTypeOK, Last, Sent
  <2>2. LastPieceFits'
    BY <1>3, <2>1
    DEF WriteDropped, WriteConnected, NextLine, LastPieceFits, NetTypeOK, Last, Sent, Piece
  <2>3. WholeLines' /\ OneReportPerWindow'
    BY <1>3 DEF WriteDropped, WriteConnected, NextLine, WholeLines, OneReportPerWindow
  <2>4. NetTypeOK' /\ PhaseAgrees' /\ AttemptsPast'
    BY <1>3
    DEF WriteDropped, WriteConnected, NextLine, NetTypeOK, PhaseAgrees, AttemptsPast
  <2> QED
    BY <2>2, <2>3, <2>4
<1>4. CASE OpenDone \/ OpenFails \/ SendFails \/ SendDatagram \/ DatagramFails
           \/ NetClose \/ Tick \/ UNCHANGED netVars
  <2> USE DEF OpenDone, OpenFails, SendFails, SendDatagram, DatagramFails, NetClose,
              Tick, netVars, Disconnect, Report
  <2>1. NetTypeOK'
    <3>1. UNCHANGED <<proto, cur, off, wire, starts>>
      BY <1>4
    <3>2. now' \in Nat /\ last_attempt' \in Nat /\ reports' \in Nat
      BY <1>4 DEF NetTypeOK
    <3>3. /\ connected' \in {TRUE, FALSE, connected}
          /\ npc' \in {"idle", "opening", "sending", "closed"}
      <4>1. CASE OpenDone
        BY <4>1
      <4>2. CASE OpenFails
        BY <4>2
      <4>3. CASE SendFails \/ DatagramFails
        BY <4>3
      <4>4. CASE SendDatagram \/ NetClose
        BY <4>4
      <4>5. CASE Tick \/ UNCHANGED netVars
        BY <4>5 DEF NetTypeOK
      <4> QED
        BY <1>4, <4>1, <4>2, <4>3, <4>4, <4>5
    <3>4. connected' \in BOOLEAN
      BY <3>3, Zenon DEF NetTypeOK
    <3> QED
      BY <3>1, <3>2, <3>3, <3>4 DEF NetTypeOK
  <2>2. PhaseAgrees' /\ AttemptsPast'
    BY <1>4 DEF NetTypeOK, PhaseAgrees, AttemptsPast
  <2>3. WholeLines'
    BY <1>4 DEF WholeLines
  <2>4. OneReportPerWindow'
    <3>1. UNCHANGED starts /\ Len(starts) \in Nat /\ reports \in Nat
      BY <1>4 DEF NetTypeOK
    <3>2. npc = "sending" => connected
      BY DEF PhaseAgrees
    <3>3. \/ UNCHANGED reports /\ (connected' \/ npc' = "opening"
                                   => connected \/ npc = "opening")
          \/ /\ reports' = reports + 1 /\ ~connected' /\ npc' = "idle"
             /\ connected \/ npc = "opening"
      BY <1>4, <3>2 DEF PhaseAgrees
    <3> QED
      BY <3>1, <3>3 DEF OneReportPerWindow
  <2>5. LastPieceFits'
    <3>1. wire # <<>> => Last \in Piece
      BY DEF NetTypeOK, Last, Sent
    <3>2. UNCHANGED <<wire, starts, cur, off>> /\ Last' = Last
      BY <1>4 DEF Last, Sent
    <3>3. npc' = "opening" => npc = "opening"
      BY <1>4
    <3>4. npc' = "sending" => \/ npc = "sending"
                              \/ npc = "opening" /\ off = 0
      BY <1>4 DEF PhaseAgrees
    <3>5. connected' => \/ connected /\ (npc = "sending" => npc' = "sending" \/ wire = <<>>)
                        \/ npc = "opening"
      BY <1>4 DEF PhaseAgrees
    <3> QED
      BY <3>1, <3>2, <3>3, <3>4, <3>5 DEF NetTypeOK, LastPieceFits, Piece
  <2> QED
    BY <2>1, <2>2, <2>3, <2>4, <2>5
<1> QED
  BY <1>1, <1>2, <1>3, <1>4 DEF NetNext

\* The inductive invariant of the network sink.
THEOREM NetInvariant == NetSpec => []NetInv
BY NetInvInit, NetInvStep, PTL DEF NetSpec

\* Whatever the failures, the pieces on one connection are whole lines in
\* order, but for a cut last one (net_write, net_disconnect).
THEOREM LinesAreWhole == NetSpec => []WholeLines
<1>1. NetInv => WholeLines
  BY DEF NetInv
<1> QED
  BY <1>1, NetInvariant, PTL

\* Attempts are RetrySecs apart and lead to at most one report each.
THEOREM ReportsAreRare == NetSpec => []OneReportPerWindow
<1>1. NetInv => OneReportPerWindow
  BY DEF NetInv
<1> QED
  BY <1>1, NetInvariant, PTL

-----------------------------------------------------------------------------
(***************************************************************************)
(* The four components side by side.                                       *)
(***************************************************************************)

\* Every variable of the registry, of duplicate suppression, of the network
\* sink and of the locks keeps its type.
THEOREM ServicesTypeCorrect == ASSUME QuietCallbacks PROVE ServicesSpec => []ServicesTypeOK
<1> DEFINE Inv == RegInv /\ DupInv /\ NetInv /\ LocksInv
           vars == <<regVars, dupVars, netVars, lockVars>>
<1>1. ServicesInit => Inv
  BY RegInvInit, DupInvInit, NetInvInit, LocksStart DEF ServicesInit
<1>2. Inv /\ [ServicesNext]_vars => Inv'
  <2> SUFFICES ASSUME Inv, [ServicesNext]_vars PROVE Inv'
    OBVIOUS
  <2>1. /\ [RegNext]_regVars /\ [DupNext]_dupVars
        /\ [NetNext]_netVars /\ [LocksNext]_lockVars
    BY DEF ServicesNext
  <2> QED
    BY <2>1, QuietCallbacks, RegInvStep, DupInvStep, NetInvStep, LocksKept
<1>3. Inv => ServicesTypeOK
  BY DEF RegInv, DupInv, NetInv, LocksInv, ServicesTypeOK
<1> QED
  BY <1>1, <1>2, <1>3, PTL DEF ServicesSpec
=============================================================================
