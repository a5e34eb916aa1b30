--------------------------- MODULE HxCrashProofs ----------------------------
(***************************************************************************)
(* Theorems about crash reports: for any threads, any ring, any number of  *)
(* lines and of installs, a crash makes one report, it has the last lines, *)
(* the callback is called with its own user data, and the process ends by  *)
(* the action the application had, with the exceptions the properties      *)
(* name.                                                                   *)
(***************************************************************************)
EXTENDS HxCrash, FiniteSetTheorems, SequenceTheorems, TLAPS

-----------------------------------------------------------------------------
(***************************************************************************)
(* The inductive invariant, in parts.                                      *)
(***************************************************************************)

\* What the operations hold besides CrashTypeOK: a line that is being pushed
\* is a line, and the dump's loop stays in the ring.
LocalsAgree ==
    /\ \A t \in Thread : ppc[t] # "out" => pline[t] >= 1
    /\ len # -1 => slot < Cap

\* Without a ring nothing is in it and nobody pushes.
NoRing == ~inited => pushed = <<>> /\ \A t \in Thread : ppc[t] = "out"

\* Before a crash no handler runs.
NoHandler == victim = None => hpc = "none" /\ called = <<>>

\* Unless setters overlapped, one thread sets the callback at a time, it is
\* detached until the user data is that thread's, and the handler has read the
\* callback of the current user data.
OneSetter ==
    /\ cb = 0 \/ cb = ud
    /\ \A t \in Thread \ {victim} : spc[t] # "out" => cb = 0
    /\ \A t, u \in Thread \ {victim} : spc[t] # "out" /\ spc[u] # "out" => t = u
    /\ \A t \in Thread \ {victim} : spc[t] = "cb" => ud = sval[t]
    /\ hpc = "ud" /\ ~reset => hcb = 0 \/ hcb = ud
PairAgrees == NoHandler /\ (~mixed => OneSetter)

\* Who has the signal, while installs do not overlap.
HandlerPcs == {"open", "dump", "slots", "cb", "ud", "restore"}
OneInstall ==
    /\ \A t, u \in Thread : ipc[t] \in Installing /\ ipc[u] \in Installing => t = u
    /\ \A t \in Thread : ipc[t] \in Installing => ~installed /\ victim = None
ActionAgrees ==
    /\ victim = None <=> hpc = "none"
    /\ fate = "alive" <=> hpc # "gone"
    /\ victim = None =>
          /\ runs = 0
          /\ installed => act = "hx" /\ prev = "app"
          /\ \A t \in Thread : ipc[t] = "flag" => act = "hx" /\ prev = "app"
          /\ ~installed /\ (\A t \in Thread : ipc[t] # "flag") => act = "app"
    /\ hpc \in HandlerPcs => runs = 1 /\ act = "hx" /\ prev = "app"
    /\ hpc = "raise" => runs = 1 /\ act = Restored("app")
    /\ hpc = "gone" => runs <= 1 /\ (runs = 1 => fate = Restored("app"))

\* The lock of the ring is held by the thread inside the push, if any.
Inside == {"text", "len", "head", "count"}
LockAgrees == \A t \in Thread : rlock = t <=> ppc[t] \in Inside
Pushing(p) == rlock # None /\ ppc[rlock] = p

\* The ring as a circle: slot x, for x from -Cap on and below twice Cap.
Wrap(x) == IF x < 0 THEN x + Cap ELSE IF x >= Cap THEN x - Cap ELSE x
AtMost(n) == IF n < Cap THEN n ELSE Cap

\* Before a crash the slots behind the head hold the latest lines, except the
\* oldest one of a full ring while it is being overwritten.
Base == IF Pushing("count") THEN Wrap(head - 1) ELSE head
RingHolds ==
    /\ count = AtMost(Len(pushed))
    /\ \A k \in 1..count :
          \/ k = Cap /\ rlock # None /\ ~Pushing("text")
          \/ ring[Wrap(Base - k)] = AsEntry(pushed[Len(pushed) + 1 - k])
    /\ Pushing("len") => ring[head].text = pline[rlock]
    /\ Pushing("head") => ring[head] = AsEntry(pline[rlock])
    /\ Pushing("count") => ring[Wrap(head - 1)] = AsEntry(pline[rlock])

\* From the crash to the end of the dump, with the head at h when the last
\* line due was pushed, and since then a changes of the head and b of the count:
\* line k of those due is still in its slot unless it is one of the late oldest.
Home(h, k) == Wrap(h - Len(due) - 1 + k)
Moved(h, a, b) ==
    /\ head = Wrap(h + a) /\ count = AtMost(Len(due) + b)
    /\ b <= a /\ a <= late
    /\ rlock = None => a = b
    /\ Pushing("count") => a = b + 1
    /\ rlock # None /\ ~Pushing("count") => a = b /\ a < late
    /\ \A k \in 1..Len(due) : k > late => ring[Home(h, k)] = AsEntry(due[k])

\* What the dump read: a head and a count of the time since the crash; the
\* slots it passed are in the report.
SeenHead(h, a)  == hseen # -1 => \E d \in 0..a : hseen = Wrap(h + d)
SeenCount(b)    == cseen # -1 => \E e \in 0..b : cseen = AtMost(Len(due) + e)
Passed(h) ==
    \A i \in Slots, k \in 1..Len(due) :
       k > late /\ Wrap(Wrap(hseen - cseen) + i) = Home(h, k) =>
          /\ i < slot => Shown(due[k])
          /\ i = slot /\ len # -1 => len = due[k]
InOrder ==
    late = 0 => /\ slot <= Len(due) /\ out = [k \in 1..slot |-> AsEntry(due[k])]
                /\ len # -1 => slot < Len(due) /\ len = due[slot + 1]
Dumping(h, a, b) ==
    /\ Moved(h, a, b)
    /\ hpc \in {"dump", "slots"} => SeenHead(h, a) /\ SeenCount(b)
    /\ hpc = "dump" => slot = 0 /\ len = -1 /\ out = <<>> /\ (hseen = -1 \/ cseen = -1)
    /\ hpc = "slots" => hseen # -1 /\ cseen # -1 /\ Passed(h) /\ InOrder

FewLate == late = 0 \/ late < Len(due)
DumpAgrees ==
    /\ victim # None => Len(due) <= Cap
    /\ hpc \in {"dump", "slots"} => inited
    /\ victim # None /\ ~inited => due = <<>>
    /\ hpc \in {"open", "dump", "slots"} /\ inited /\ FewLate =>
          \E h \in Slots, a, b \in 0..late : Dumping(h, a, b)
    /\ hpc \in {"cb", "ud"} =>
          /\ Lost \subseteq 1..late
          /\ late = 0 => out = [k \in DOMAIN due |-> AsEntry(due[k])]

CrashInv ==
    /\ CrashTypeOK /\ LocalsAgree /\ NoRing /\ PairAgrees /\ CallbackPairKept
    /\ ~clash => OneInstall /\ ActionAgrees
    /\ ~clash /\ ~remade => /\ LockAgrees
                            /\ victim = None => RingHolds
                            /\ DumpAgrees

-----------------------------------------------------------------------------
(***************************************************************************)
(* Which steps touch which part of the state.                              *)
(***************************************************************************)
PushStep(t) == \/ Push(t) \/ PushLock(t) \/ PushText(t) \/ PushLen(t) \/ PushHead(t)
               \/ PushCount(t)
InstStep(t) == \/ Install(t) \/ InstallRing(t) \/ InstallAlloc(t) \/ InstallAction(t)
               \/ InstallFlag(t) \/ Uninstall(t) \/ Shutdown(t)
               \/ Start(t) \/ StartRing(t) \/ StartAlloc(t)
SetStep(t)  == SetDetach(t) \/ SetData(t) \/ SetCallback(t)
HandStep    == \/ Open \/ DumpHead \/ DumpCount \/ DumpLen \/ DumpText \/ DumpEnd
               \/ ReadCallback \/ CallCallback \/ Restore \/ Raise

\* Every step is one of a few kinds.
LEMMA StepCases ==
    ASSUME [CrashNext]_crashVars
    PROVE  \/ UNCHANGED crashVars
           \/ \E t \in Thread : PushStep(t) \/ InstStep(t) \/ SetStep(t) \/ Crash(t)
           \/ HandStep
BY DEF CrashNext, PushStep, InstStep, SetStep, HandStep

-----------------------------------------------------------------------------
(***************************************************************************)
(* Type correctness.                                                       *)
(***************************************************************************)
RingFlags   == inited \in BOOLEAN /\ remade \in BOOLEAN
RingTypes ==
    /\ ring \in [Slots -> [text : 0..MaxPushes, len : 0..MaxPushes]]
    /\ head \in Slots /\ count \in 0..Cap
    /\ rlock \in Thread \cup {None}
    /\ ppc \in [Thread -> {"out", "lock", "text", "len", "head", "count"}]
    /\ pline \in [Thread -> 0..MaxPushes] /\ pushed \in Seq(1..MaxPushes)
    /\ given \in 0..MaxPushes /\ napi \in 0..MaxApi
InstTypes ==
    /\ act \in Action /\ prev \in Action
    /\ ipc \in [Thread -> {"out"} \cup Installing \cup Starting]
InstFlags == installed \in BOOLEAN /\ chain \in BOOLEAN /\ clash \in BOOLEAN
             /\ reset \in BOOLEAN
PairTypes == /\ cb \in Nat /\ ud \in Nat /\ spc \in [Thread -> {"out", "ud", "cb"}]
             /\ sval \in [Thread -> Nat]
PairFlag  == mixed \in BOOLEAN
HandTypes ==
    /\ victim \in Thread \cup {None}
    /\ hpc \in {"none", "open", "dump", "slots", "cb", "ud", "restore", "raise", "gone"}
    /\ hseen \in Slots \cup {-1} /\ cseen \in 0..Cap \cup {-1}
    /\ slot \in 0..Cap /\ len \in 0..MaxPushes \cup {-1}
    /\ out \in Seq([text : 0..MaxPushes, len : 0..MaxPushes])
    /\ hcb \in Nat /\ called \in Seq(Nat \X Nat) /\ fate \in Action \cup {"alive"}
    /\ runs \in Nat /\ due \in Seq(1..MaxPushes) /\ late \in Nat

\* The type invariant by the parts of the state.
LEMMA Types == CrashTypeOK <=> /\ RingFlags /\ RingTypes /\ InstTypes /\ InstFlags
                               /\ PairTypes /\ PairFlag /\ HandTypes
BY DEF CrashTypeOK, RingFlags, RingTypes, InstTypes, InstFlags, PairTypes, PairFlag,
       HandTypes

\* The remainders the code takes, without division.
LEMMA Around ==
    ASSUME NEW x \in 0..(2 * Cap - 1)
    PROVE  x % Cap = Wrap(x) /\ x % Cap \in Slots
<1>1. Cap \in Nat /\ Cap > 0
  BY CrashAssumption
<1>2. CASE x < Cap
  BY <1>1, <1>2 DEF Wrap, Slots
<1>3. CASE x >= Cap
  <2>1. x - Cap \in 0..(Cap - 1)
    BY <1>1, <1>3
  <2>2. x % Cap = x - Cap
    BY <1>1, <1>3, <2>1
  <2> QED
    BY <1>1, <1>3, <2>1, <2>2 DEF Wrap, Slots
<1> QED
  BY <1>1, <1>2, <1>3

\* One slot on, and where the dump is.
LEMMA NextSlot ==
    ASSUME NEW h \in Slots
    PROVE  NextHead(h) = Wrap(h + 1) /\ NextHead(h) \in Slots
<1>1. Cap \in Nat /\ Cap > 0 /\ h + 1 \in 0..(2 * Cap - 1)
  BY CrashAssumption DEF Slots
<1> QED
  BY <1>1, Around DEF NextHead

\* Where a dump that saw head h and count c starts.
LEMMA StartOf ==
    ASSUME NEW h \in Slots, NEW c \in 0..Cap
    PROVE  StartSlot(h, c) = Wrap(h - c) /\ StartSlot(h, c) \in Slots
<1>1. Cap \in Nat /\ Cap > 0 /\ h + Cap - c \in 0..(2 * Cap - 1)
  BY CrashAssumption DEF Slots
<1>2. Wrap(h + Cap - c) = Wrap(h - c)
  BY <1>1 DEF Slots, Wrap
<1> QED
  BY <1>1, <1>2, Around DEF StartSlot

\* The dump reads slots of the ring, even before it knows both numbers.
LEMMA IndexIn ==
    ASSUME CrashTypeOK
    PROVE  Index \in Slots
<1>1. Cap \in Nat /\ Cap > 0
  BY CrashAssumption
<1>2. hseen \in Int /\ cseen \in Int /\ slot \in Int
  BY <1>1 DEF CrashTypeOK, Slots
<1> DEFINE s == StartSlot(hseen, cseen)
<1>3. s \in Int
  BY <1>1, <1>2 DEF StartSlot
<1> HIDE DEF s
<1>4. (s + slot) \in Int
  BY <1>2, <1>3
<1>5. (s + slot) % Cap \in Slots
  BY <1>1, <1>4 DEF Slots
<1> QED
  BY <1>5 DEF Index, s

\* The last lines of the pushed ones.
LEMMA LastLinesAre ==
    ASSUME CrashTypeOK
    PROVE  /\ LastLines \in Seq(1..MaxPushes)
           /\ Len(LastLines) = AtMost(Len(pushed))
           /\ \A k \in 1..Len(LastLines) :
                 LastLines[k] = pushed[Len(pushed) - AtMost(Len(pushed)) + k]
<1>1. Cap \in Nat /\ Cap > 0 /\ pushed \in Seq(1..MaxPushes) /\ Len(pushed) \in Nat
  BY CrashAssumption DEF CrashTypeOK
<1> DEFINE n == Len(pushed)
           m == IF n > Cap THEN n - Cap + 1 ELSE 1
<1>2. LastLines = SubSeq(pushed, m, n)
  BY DEF LastLines
<1>3. n \in Nat
  BY <1>1
<1>4. \A i \in 1..n : pushed[i] \in 1..MaxPushes
  BY <1>1, ElementOfSeq
<1> HIDE DEF n
<1>5. m \in 1..(n + 1) /\ n - m + 1 = AtMost(n)
  <2>1. CASE n > Cap
    BY <1>1, <1>3, <2>1 DEF AtMost
  <2>2. CASE ~ (n > Cap)
    BY <1>1, <1>3, <2>2 DEF AtMost
  <2> QED
    BY <2>1, <2>2
<1> HIDE DEF m
<1>6. \A i \in m..n : pushed[i] \in 1..MaxPushes
  BY <1>3, <1>4, <1>5
<1>7. /\ LastLines \in Seq(1..MaxPushes)
      /\ Len(LastLines) = IF m <= n THEN n - m + 1 ELSE 0
      /\ \A i \in 1..(n - m + 1) : LastLines[i] = pushed[m + i - 1]
  <2>1. m \in Int /\ n \in Int
    BY <1>3, <1>5
  <2> QED
    BY <2>1, <1>2, <1>6, SubSeqProperties
<1>8. AtMost(n) \in Nat /\ m - 1 = n - AtMost(n)
  BY <1>1, <1>3, <1>5 DEF AtMost
<1>9. Len(LastLines) = AtMost(n)
  BY <1>3, <1>5, <1>7, <1>8
<1>10. \A i \in 1..AtMost(n) : m + i - 1 = n - AtMost(n) + i
  BY <1>3, <1>5, <1>8
<1> QED
  BY <1>5, <1>7, <1>9, <1>10 DEF n

\* Types of the ring and of the pushes.
LEMMA RingTypesKept ==
    ASSUME CrashTypeOK, LocalsAgree, [CrashNext]_crashVars
    PROVE  RingTypes' /\ RingFlags'
<1> SUFFICES ASSUME RingTypes, RingFlags
             PROVE  RingTypes' /\ RingFlags'
  BY Types
<1>n. /\ Cap \in Nat /\ Cap > 0 /\ 0 \in Slots /\ MaxPushes \in Nat /\ MaxApi \in Nat
      /\ Empty \in [Slots -> [text : 0..MaxPushes, len : 0..MaxPushes]]
  BY CrashAssumption DEF Slots, Empty
<1>s. CASE UNCHANGED <<ringVars, napi>>
  BY <1>s DEF RingTypes, RingFlags, ringVars
<1>r. ASSUME UNCHANGED ringVars, napi' \in 0..MaxApi
      PROVE  RingTypes' /\ RingFlags'
  BY <1>r DEF RingTypes, RingFlags, ringVars
<1>a. ASSUME Api PROVE napi' \in 0..MaxApi
  BY <1>a, <1>n DEF Api, RingTypes
<1>1. ASSUME NEW t \in Thread, PushStep(t)
      PROVE  RingTypes' /\ RingFlags'
  <2>1. CASE Push(t)
    <3>1. given + 1 \in 0..MaxPushes
      BY <2>1, <1>n DEF Push, RingTypes
    <3> QED
      BY <2>1, <3>1, <1>n DEF Push, PushGo, RingTypes, RingFlags, OutsideRing
  <2>2. CASE PushLock(t)
    BY <2>2, <1>n DEF PushLock, PushGo, RingTypes, RingFlags, OutsideRing
  <2>3. CASE PushText(t)
    BY <2>3, <1>n DEF PushText, PushGo, RingTypes, RingFlags, OutsideRing
  <2>4. CASE PushLen(t)
    BY <2>4, <1>n DEF PushLen, PushGo, RingTypes, RingFlags, OutsideRing
  <2>5. CASE PushHead(t)
    <3>1. NextHead(head) \in Slots
      BY NextSlot DEF RingTypes
    <3> QED
      BY <2>5, <3>1 DEF PushHead, PushGo, RingTypes, RingFlags, OutsideRing
  <2>6. CASE PushCount(t)
    <3>1. pline[t] \in 1..MaxPushes
      BY <2>6 DEF PushCount, PushAt, LocalsAgree, RingTypes
    <3>2. pushed' \in Seq(1..MaxPushes)
      BY <2>6, <3>1 DEF PushCount, RingTypes
    <3>3. count' \in 0..Cap
      BY <2>6, <1>n DEF PushCount, RingTypes
    <3> QED
      BY <2>6, <3>2, <3>3 DEF PushCount, PushGo, RingTypes, RingFlags, OutsideRing
  <2> QED
    BY <1>1, <2>1, <2>2, <2>3, <2>4, <2>5, <2>6 DEF PushStep
<1>2. ASSUME NEW t \in Thread, InstStep(t)
      PROVE  RingTypes' /\ RingFlags'
  <2>1. CASE Install(t) \/ Uninstall(t)
    BY <2>1, <1>r, <1>a DEF Install, Uninstall
  <2>2. CASE InstallRing(t) \/ StartRing(t) \/ InstallAction(t) \/ InstallFlag(t)
    BY <2>2, <1>s DEF InstallRing, StartRing, RingCheck, InstallAction, InstallFlag
  <2>3. CASE InstallAlloc(t) \/ StartAlloc(t)
    <3>0. UNCHANGED napi /\ (UNCHANGED ringVars \/ NewRing)
      BY <2>3 DEF InstallAlloc, StartAlloc, RingAlloc
    <3>1. CASE UNCHANGED ringVars
      BY <3>0, <3>1, <1>s
    <3>2. CASE NewRing
      <4>1. remade' \in BOOLEAN /\ inited' \in BOOLEAN
        BY <3>2 DEF NewRing
      <4> QED
        BY <3>0, <3>2, <4>1, <1>n DEF NewRing, RingTypes, RingFlags
    <3> QED
      BY <3>0, <3>1, <3>2
  <2>4. CASE Shutdown(t)
    <3>1. napi' \in 0..MaxApi
      BY <2>4, <1>a DEF Shutdown
    <3>2. RingTypes'
      BY <2>4, <3>1, <1>n DEF Shutdown, RingTypes
    <3> QED
      BY <2>4, <3>2 DEF Shutdown, RingFlags
  <2>5. CASE Start(t)
    BY <2>5, <1>r, <1>a DEF Start
  <2> QED
    BY <1>2, <2>1, <2>2, <2>3, <2>4, <2>5 DEF InstStep
<1>3. ASSUME NEW t \in Thread, SetStep(t)
      PROVE  RingTypes' /\ RingFlags'
  BY <1>3, <1>r, <1>a, <1>s DEF SetStep, SetDetach, SetData, SetCallback
<1>4. ASSUME NEW t \in Thread, Crash(t)
      PROVE  RingTypes' /\ RingFlags'
  BY <1>4, <1>s DEF Crash, Outside
<1>5. CASE HandStep
  BY <1>5, <1>s DEF HandStep, Open, DumpHead, DumpCount, DumpLen, DumpText, DumpEnd,
                   ReadCallback, CallCallback, Restore, Raise, Outside
<1>6. CASE UNCHANGED crashVars
  BY <1>6, <1>s DEF crashVars
<1> QED
  BY <1>1, <1>2, <1>3, <1>4, <1>5, <1>6, StepCases

\* Types of the installs.
LEMMA InstTypesKept ==
    ASSUME CrashTypeOK, [CrashNext]_crashVars
    PROVE  InstTypes' /\ InstFlags'
<1> SUFFICES ASSUME InstTypes, InstFlags
             PROVE  InstTypes' /\ InstFlags'
  BY Types
<1>s. CASE UNCHANGED <<instVars, chain, reset>>
  BY <1>s DEF InstTypes, InstFlags, instVars
<1>1. ASSUME NEW t \in Thread, InstStep(t)
      PROVE  InstTypes' /\ InstFlags'
  <2>1. CASE Install(t)
    <3>1. InstTypes'
      BY <2>1 DEF Install, InstGo, InstTypes, Installing
    <3>2. clash' \in BOOLEAN
      BY <2>1 DEF Install, InstFlags
    <3> QED
      BY <2>1, <3>1, <3>2 DEF Install, InstFlags, handVars
  <2>2. CASE InstallRing(t) \/ InstallAlloc(t) \/ StartRing(t) \/ StartAlloc(t) \/ Start(t)
    <3>1. UNCHANGED <<installed, act, prev, clash, chain, reset>>
      BY <2>2 DEF InstallRing, InstallAlloc, StartRing, StartAlloc, Start, RingCheck,
                 RingAlloc, handVars
    <3>2. \E p \in {"out"} \cup Installing \cup Starting : InstGo(t, p)
      BY <2>2 DEF InstallRing, InstallAlloc, StartRing, StartAlloc, Start, RingCheck,
                 RingAlloc, Installing, Starting
    <3> QED
      BY <3>1, <3>2 DEF InstGo, InstTypes, InstFlags
  <2>4. CASE InstallAction(t)
    <3>1. InstTypes'
      BY <2>4 DEF InstallAction, InstGo, InstTypes, Action, Installing
    <3>2. clash' \in BOOLEAN
      BY <2>4 DEF InstallAction
    <3> QED
      BY <2>4, <3>1, <3>2 DEF InstallAction, InstFlags, handVars
  <2>5. CASE InstallFlag(t)
    BY <2>5 DEF InstallFlag, InstGo, InstTypes, InstFlags, handVars
  <2>6. CASE Uninstall(t)
    <3>1. InstTypes'
      BY <2>6 DEF Uninstall, InstTypes
    <3>2. clash' \in BOOLEAN
      BY <2>6 DEF Uninstall
    <3> QED
      BY <2>6, <3>1, <3>2 DEF Uninstall, InstFlags, handVars
  <2>7. CASE Shutdown(t)
    <3>1. InstTypes'
      BY <2>7 DEF Shutdown, InstTypes
    <3> QED
      BY <2>7, <3>1 DEF Shutdown, InstFlags, handVars
  <2> QED
    BY <1>1, <2>1, <2>2, <2>4, <2>5, <2>6, <2>7 DEF InstStep
<1>2. ASSUME NEW t \in Thread, Crash(t)
      PROVE  InstTypes' /\ InstFlags'
  <2>1. InstTypes'
    BY <1>2 DEF Crash, InstTypes
  <2>2. clash' \in BOOLEAN
    BY <1>2 DEF Crash
  <2> QED
    BY <1>2, <2>1, <2>2 DEF Crash, InstFlags, Outside
<1>3. ASSUME NEW t \in Thread, SetStep(t)
      PROVE  InstTypes' /\ InstFlags'
  <2>1. CASE SetDetach(t) \/ SetCallback(t)
    BY <2>1, <1>s DEF SetDetach, SetCallback, handVars
  <2>2. CASE SetData(t)
    <3>1. InstTypes'
      BY <2>2 DEF SetData, instVars, InstTypes
    <3>2. reset' \in BOOLEAN
      BY <2>2 DEF SetData
    <3> QED
      BY <2>2, <3>1, <3>2 DEF SetData, instVars, InstFlags
  <2> QED
    BY <1>3, <2>1, <2>2 DEF SetStep
<1>4. ASSUME NEW t \in Thread, PushStep(t)
      PROVE  InstTypes' /\ InstFlags'
  BY <1>4, <1>s DEF PushStep, Push, PushLock, PushText, PushLen, PushHead, PushCount,
                   OutsideRing, handVars
<1>5. CASE HandStep
  <2>1. CASE Restore
    BY <2>1 DEF Restore, Restored, Outside, InstTypes, InstFlags, Action
  <2>2. CASE HandStep /\ ~Restore
    BY <2>2, <1>s DEF HandStep, Open, DumpHead, DumpCount, DumpLen, DumpText, DumpEnd,
                     ReadCallback, CallCallback, Raise, Outside
  <2> QED
    BY <1>5, <2>1, <2>2
<1>6. CASE UNCHANGED crashVars
  BY <1>6, <1>s DEF crashVars, handVars
<1> QED
  BY <1>1, <1>2, <1>3, <1>4, <1>5, <1>6, StepCases

\* Types of the callback and its data.
LEMMA PairTypesKept ==
    ASSUME CrashTypeOK, [CrashNext]_crashVars
    PROVE  PairTypes' /\ PairFlag'
<1> SUFFICES ASSUME PairTypes, PairFlag, RingTypes
             PROVE  PairTypes' /\ PairFlag'
  BY Types
<1>s. CASE UNCHANGED cbVars
  BY <1>s DEF PairTypes, PairFlag, cbVars
<1>1. ASSUME NEW t \in Thread, SetStep(t)
      PROVE  PairTypes' /\ PairFlag'
  <2>1. CASE SetDetach(t)
    <3>1. napi + 2 \in Nat
      BY CrashAssumption DEF RingTypes
    <3>2. mixed' \in BOOLEAN
      BY <2>1 DEF SetDetach
    <3> QED
      BY <2>1, <3>1, <3>2 DEF SetDetach, Detached, SetGo, PairTypes, PairFlag
  <2>2. CASE SetData(t) \/ SetCallback(t)
    BY <2>2 DEF SetData, SetCallback, SetGo, PairTypes, PairFlag
  <2> QED
    BY <1>1, <2>1, <2>2 DEF SetStep
<1>2. ASSUME NEW t \in Thread, PushStep(t) \/ InstStep(t) \/ Crash(t)
      PROVE  UNCHANGED cbVars
  <2>1. CASE PushStep(t)
    BY <2>1 DEF PushStep, Push, PushLock, PushText, PushLen, PushHead, PushCount,
               OutsideRing
  <2>2. CASE InstStep(t)
    BY <2>2 DEF InstStep, Install, InstallRing, InstallAlloc, InstallAction,
               InstallFlag, Uninstall, Shutdown, Start, StartRing, StartAlloc,
               RingCheck, RingAlloc
  <2> QED
    BY <1>2, <2>1, <2>2 DEF Crash, Outside
<1>3. ASSUME HandStep
      PROVE  UNCHANGED cbVars
  BY <1>3 DEF HandStep, Open, DumpHead, DumpCount, DumpLen, DumpText, DumpEnd,
              ReadCallback, CallCallback, Restore, Raise, Outside
<1>4. CASE UNCHANGED crashVars
  BY <1>4, <1>s DEF crashVars
<1> QED
  BY <1>1, <1>2, <1>3, <1>4, <1>s, StepCases

\* Types of the handler.
LEMMA HandTypesKept ==
    ASSUME CrashTypeOK, LocalsAgree, [CrashNext]_crashVars
    PROVE  HandTypes'
<1> SUFFICES ASSUME HandTypes, PairTypes, RingTypes, InstTypes
             PROVE  HandTypes'
  BY Types
<1>n. Cap \in Nat /\ Cap > 0 /\ MaxPushes \in Nat
  BY CrashAssumption
<1>s. CASE UNCHANGED handVars
  BY <1>s DEF HandTypes, handVars, dumpVars
<1>1. ASSUME NEW t \in Thread, PushStep(t)
      PROVE  HandTypes'
  <2>1. CASE PushLock(t)
    <3>1. late' \in Nat
      BY <2>1 DEF PushLock, HandTypes
    <3> QED
      BY <2>1, <3>1 DEF PushLock, HandTypes, dumpVars
  <2>2. CASE PushStep(t) /\ ~PushLock(t)
    BY <2>2, <1>s DEF PushStep, Push, PushText, PushLen, PushHead, PushCount
  <2> QED
    BY <1>1, <2>1, <2>2
<1>2. ASSUME NEW t \in Thread, InstStep(t)
      PROVE  HandTypes'
  BY <1>2, <1>s DEF InstStep, Install, InstallRing, InstallAlloc, InstallAction,
                   InstallFlag, Uninstall, Shutdown, Start, StartRing, StartAlloc,
               RingCheck, RingAlloc
<1>3. ASSUME NEW t \in Thread, SetStep(t)
      PROVE  HandTypes'
  BY <1>3 DEF SetStep, SetDetach, SetData, SetCallback, HandTypes, handVars, dumpVars
<1>4. ASSUME NEW t \in Thread, Crash(t)
      PROVE  HandTypes'
  <2>1. due' \in Seq(1..MaxPushes) /\ late' \in Nat /\ victim' \in Thread
    BY <1>4, LastLinesAre DEF Crash
  <2>2. runs' \in Nat /\ hpc' \in {"open", "gone"} /\ fate' \in Action \cup {"alive"}
    BY <1>4 DEF Crash, ToHandler, HandTypes, InstTypes
  <2> QED
    BY <1>4, <2>1, <2>2 DEF Crash, HandTypes, dumpVars
<1>5. CASE HandStep
  <2>0. Index \in Slots
    BY IndexIn
  <2>1. CASE Open
    <3>1. hpc' \in {"restore", "dump", "cb"} /\ out' = <<>>
      BY <2>1 DEF Open
    <3>2. out' \in Seq([text : 0..MaxPushes, len : 0..MaxPushes])
      BY <3>1, EmptySeq
    <3>3. 0 \in 0..Cap
      BY <1>n
    <3> QED
      BY <2>1, <3>1, <3>2, <3>3 DEF Open, HandTypes
  <2>2. CASE DumpHead \/ DumpCount
    BY <2>2 DEF DumpHead, DumpCount, HandTypes, RingTypes
  <2>3. CASE DumpLen
    <3>1. len' \in 0..MaxPushes
      BY <2>0, <2>3 DEF DumpLen, RingTypes
    <3> QED
      BY <2>3, <3>1 DEF DumpLen, HandTypes
  <2>4. CASE DumpText
    <3>1. ring[Index].text \in 0..MaxPushes /\ len \in 0..MaxPushes
      BY <2>0, <2>4 DEF DumpText, RingTypes, HandTypes
    <3>2. [text |-> ring[Index].text, len |-> len] \in [text : 0..MaxPushes, len : 0..MaxPushes]
      BY <3>1
    <3>3. out' \in Seq([text : 0..MaxPushes, len : 0..MaxPushes])
      <4> DEFINE E == [text : 0..MaxPushes, len : 0..MaxPushes]
                 e == [text |-> ring[Index].text, len |-> len]
      <4>1. e \in E /\ out \in Seq(E)
        BY <3>2 DEF HandTypes
      <4>2. out' = IF len = 0 THEN out ELSE Append(out, e)
        BY <2>4 DEF DumpText
      <4> HIDE DEF E, e
      <4>3. out' \in Seq(E)
        BY <4>1, <4>2
      <4> QED
        BY <4>3 DEF E
    <3>4. slot + 1 \in 0..Cap
      BY <2>4, <1>n DEF DumpText, LocalsAgree, HandTypes
    <3> QED
      BY <2>4, <3>3, <3>4 DEF DumpText, HandTypes
  <2>5. CASE DumpEnd
    BY <2>5 DEF DumpEnd, dumpVars, HandTypes
  <2>6. CASE ReadCallback
    BY <2>6 DEF ReadCallback, dumpVars, HandTypes, PairTypes
  <2>7. CASE CallCallback
    <3>1. <<hcb, ud>> \in Nat \X Nat
      BY DEF HandTypes, PairTypes
    <3>2. called' \in Seq(Nat \X Nat)
      BY <2>7, <3>1 DEF CallCallback, HandTypes
    <3> QED
      BY <2>7, <3>2 DEF CallCallback, dumpVars, HandTypes
  <2>8. CASE Restore
    BY <2>8 DEF Restore, dumpVars, HandTypes
  <2>9. CASE Raise
    <3>1. runs' \in Nat /\ hpc' \in {"open", "gone"} /\ fate' \in Action \cup {"alive"}
      BY <2>9 DEF Raise, ToHandler, HandTypes, InstTypes
    <3> QED
      BY <2>9, <3>1 DEF Raise, dumpVars, HandTypes
  <2> QED
    BY <1>5, <2>1, <2>2, <2>3, <2>4, <2>5, <2>6, <2>7, <2>8, <2>9 DEF HandStep
<1>6. CASE UNCHANGED crashVars
  BY <1>6, <1>s DEF crashVars
<1> QED
  BY <1>1, <1>2, <1>3, <1>4, <1>5, <1>6, StepCases

-----------------------------------------------------------------------------
(***************************************************************************)
(* Pushes and the ring's life, and the callback with its user data.        *)
(***************************************************************************)
LEMMA LocalsKept ==
    ASSUME CrashTypeOK, LocalsAgree, [CrashNext]_crashVars
    PROVE  LocalsAgree'
<1>n. Cap \in Nat /\ Cap > 0 /\ MaxPushes \in Nat
  BY CrashAssumption
<1>t. RingTypes /\ HandTypes
  BY Types
<1> DEFINE Lines == \A t \in Thread : ppc[t] # "out" => pline[t] >= 1
           Loop  == len # -1 => slot < Cap
<1>1. Lines'
  <2>s. CASE UNCHANGED <<ppc, pline>>
    BY <2>s DEF LocalsAgree
  <2>1. ASSUME NEW t \in Thread, PushStep(t)
        PROVE  Lines'
    <3>1. CASE Push(t)
      <4>1. given + 1 >= 1
        BY <1>t DEF RingTypes
      <4> QED
        BY <3>1, <4>1, <1>t DEF Push, PushGo, LocalsAgree, RingTypes
    <3>2. CASE PushStep(t) /\ ~Push(t)
      BY <3>2, <1>t DEF PushStep, PushLock, PushText, PushLen, PushHead, PushCount, PushAt,
                      PushGo, LocalsAgree, RingTypes
    <3> QED
      BY <2>1, <3>1, <3>2
  <2>2. ASSUME NEW t \in Thread, InstStep(t)
        PROVE  UNCHANGED <<ppc, pline>>
    BY <2>2 DEF InstStep, Install, InstallRing, InstallAlloc, InstallAction, NewRing,
               InstallFlag, Uninstall, Shutdown, Start, StartRing, StartAlloc,
               RingCheck, RingAlloc, ringVars
  <2>3. ASSUME NEW t \in Thread, SetStep(t) \/ Crash(t)
        PROVE  UNCHANGED <<ppc, pline>>
    BY <2>3 DEF SetStep, SetDetach, SetData, SetCallback, Crash, Outside, ringVars
  <2>4. ASSUME HandStep
        PROVE  UNCHANGED <<ppc, pline>>
    BY <2>4 DEF HandStep, Open, DumpHead, DumpCount, DumpLen, DumpText, DumpEnd,
               ReadCallback, CallCallback, Restore, Raise, Outside, ringVars
  <2>5. CASE UNCHANGED crashVars
    BY <2>5, <2>s DEF crashVars, ringVars
  <2> QED
    BY <2>1, <2>2, <2>3, <2>4, <2>5, <2>s, StepCases
<1>2. Loop'
  <2>s. CASE UNCHANGED <<slot, len>>
    BY <2>s DEF LocalsAgree
  <2>1. CASE DumpLen
    BY <2>1, <1>n, <1>t DEF DumpLen, RingTypes, HandTypes
  <2>2. CASE DumpText \/ Open
    BY <2>2 DEF DumpText, Open
  <2>3. CASE HandStep /\ ~DumpLen /\ ~DumpText /\ ~Open
    BY <2>3, <2>s DEF HandStep, DumpHead, DumpCount, DumpEnd, dumpVars,
                    ReadCallback, CallCallback, Restore, Raise
  <2>4. ASSUME NEW t \in Thread, PushStep(t) \/ InstStep(t) \/ SetStep(t) \/ Crash(t)
        PROVE  UNCHANGED <<slot, len>>
    <3>1. CASE PushStep(t)
      BY <3>1 DEF PushStep, Push, PushLock, PushText, PushLen, PushHead, PushCount,
                 handVars, dumpVars
    <3>2. CASE InstStep(t)
      BY <3>2 DEF InstStep, Install, InstallRing, InstallAlloc, InstallAction,
                 InstallFlag, Uninstall, Shutdown, Start, StartRing, StartAlloc,
               RingCheck, RingAlloc, handVars, dumpVars
    <3> QED
      BY <2>4, <3>1, <3>2 DEF SetStep, SetDetach, SetData, SetCallback, Crash, handVars,
                 dumpVars
  <2>5. CASE UNCHANGED crashVars
    BY <2>5, <2>s DEF crashVars, handVars, dumpVars
  <2> QED
    BY <2>1, <2>2, <2>3, <2>4, <2>5, <2>s, StepCases
<1> QED
  BY <1>1, <1>2 DEF LocalsAgree

\* Only a ring that exists is pushed into.
LEMMA NoRingKept ==
    ASSUME CrashTypeOK, NoRing, [CrashNext]_crashVars
    PROVE  NoRing'
<1>t. RingTypes
  BY Types
<1>s. CASE UNCHANGED ringVars
  BY <1>s DEF NoRing, ringVars
<1>1. ASSUME NEW t \in Thread, PushStep(t)
      PROVE  NoRing'
  <2>1. CASE Push(t)
    BY <2>1, <1>t DEF Push, PushGo, NoRing, RingTypes
  <2>2. CASE PushStep(t) /\ ~Push(t)
    <3>1. ppc[t] # "out" /\ inited' = inited
      BY <2>2 DEF PushStep, PushLock, PushText, PushLen, PushHead, PushCount, PushAt
    <3> QED
      BY <3>1 DEF NoRing
  <2> QED
    BY <1>1, <2>1, <2>2
<1>2. ASSUME NEW t \in Thread, InstStep(t)
      PROVE  NoRing'
  <2>1. CASE Shutdown(t)
    BY <2>1 DEF Shutdown, NoRing
  <2>2. CASE InstallAlloc(t) \/ StartAlloc(t)
    BY <2>2, <1>s DEF InstallAlloc, StartAlloc, RingAlloc, NewRing, NoRing
  <2>3. CASE InstStep(t) /\ ~Shutdown(t) /\ ~InstallAlloc(t) /\ ~StartAlloc(t)
    BY <2>3, <1>s DEF InstStep, Install, InstallRing, InstallAction, InstallFlag, Uninstall,
                     Start, StartRing, RingCheck
  <2> QED
    BY <1>2, <2>1, <2>2, <2>3
<1>3. ASSUME NEW t \in Thread, SetStep(t) \/ Crash(t)
      PROVE  UNCHANGED ringVars
  BY <1>3 DEF SetStep, SetDetach, SetData, SetCallback, Crash, Outside
<1>4. ASSUME HandStep
      PROVE  UNCHANGED ringVars
  BY <1>4 DEF HandStep, Open, DumpHead, DumpCount, DumpLen, DumpText, DumpEnd,
             ReadCallback, CallCallback, Restore, Raise, Outside
<1>5. CASE UNCHANGED crashVars
  BY <1>5, <1>s DEF crashVars
<1> QED
  BY <1>1, <1>2, <1>3, <1>4, <1>5, <1>s, StepCases

\* Who crashes did not before, and no other step changes the victim.
LEMMA VictimStays ==
    ASSUME [CrashNext]_crashVars, ~\E t \in Thread : Crash(t)
    PROVE  UNCHANGED victim
<1>1. ASSUME NEW t \in Thread, PushStep(t) \/ SetStep(t)
      PROVE  UNCHANGED victim
  BY <1>1 DEF PushStep, Push, PushLock, PushText, PushLen, PushHead, PushCount, SetStep,
             SetDetach, SetData, SetCallback, handVars
<1>2. ASSUME NEW t \in Thread, InstStep(t)
      PROVE  UNCHANGED victim
  BY <1>2 DEF InstStep, Install, InstallRing, InstallAlloc, InstallAction,
             InstallFlag, Uninstall, Shutdown, Start, StartRing, StartAlloc,
             RingCheck, RingAlloc, handVars
<1>3. ASSUME HandStep
      PROVE  UNCHANGED victim
  BY <1>3 DEF HandStep, Open, DumpHead, DumpCount, DumpLen, DumpText, DumpEnd,
             ReadCallback, CallCallback, Restore, Raise
<1>4. CASE UNCHANGED crashVars
  BY <1>4 DEF crashVars, handVars
<1> QED
  BY <1>1, <1>2, <1>3, <1>4, StepCases

\* A setter keeps the callback and its data a pair.
LEMMA PairKeptBySetter ==
    ASSUME CrashTypeOK, PairAgrees, CallbackPairKept, NEW t \in Thread, SetStep(t)
    PROVE  PairAgrees' /\ CallbackPairKept'
<1>t. PairTypes /\ HandTypes
  BY Types
<1>0. UNCHANGED <<victim, hpc, hcb, called>> /\ t # victim
  BY DEF SetStep, SetDetach, SetData, SetCallback, handVars, Free, Runs
<1>1. NoHandler'
  BY <1>0 DEF PairAgrees, NoHandler
<1>2. CASE SetDetach(t)
  <2>1. spc' = [spc EXCEPT ![t] = "ud"] /\ cb' = 0 /\ UNCHANGED reset
        /\ mixed' = (Overlaps(t) \/ (mixed /\ victim # None))
    BY <1>2 DEF SetDetach, SetGo, Detached, handVars
  <2>2. ASSUME ~mixed'
        PROVE  \A u \in Thread \ {t, victim} : spc[u] = "out"
    BY <2>1, <2>2 DEF Overlaps
  <2>3. ASSUME ~mixed'
        PROVE  OneSetter'
    <3>1. \A u \in Thread \ {victim'} : spc'[u] # "out" => u = t
      BY <1>0, <2>1, <2>2, <2>3, <1>t DEF PairTypes
    <3>2. spc'[t] = "ud"
      BY <2>1, <1>t DEF PairTypes
    <3>3. hpc' = "ud" /\ ~reset' => hcb' = 0 \/ hcb' = ud'
      <4>1. CASE victim = None
        BY <1>0, <4>1 DEF PairAgrees, NoHandler
      <4>2. CASE victim # None
        <5>1. ~mixed
          BY <2>1, <2>3, <4>2
        <5>2. ud' = ud
          BY <1>2 DEF SetDetach
        <5> QED
          BY <1>0, <2>1, <5>1, <5>2 DEF PairAgrees, OneSetter
      <4> QED
        BY <4>1, <4>2
    <3> QED
      BY <2>1, <3>1, <3>2, <3>3 DEF OneSetter
  <2>4. CallbackPairKept'
    <3>1. CASE victim = None
      BY <1>0, <3>1 DEF PairAgrees, NoHandler, CallbackPairKept
    <3>2. CASE victim # None
      BY <1>0, <2>1, <3>2 DEF CallbackPairKept
    <3> QED
      BY <3>1, <3>2
  <2> QED
    BY <1>1, <2>3, <2>4 DEF PairAgrees
<1>3. CASE SetData(t)
  <2>1. spc' = [spc EXCEPT ![t] = "cb"] /\ ud' = sval[t] /\ UNCHANGED <<cb, sval, mixed>>
        /\ spc[t] = "ud" /\ reset' = (reset \/ hpc = "ud")
    BY <1>3 DEF SetData, SetGo
  <2>2. ASSUME ~mixed'
        PROVE  OneSetter'
    <3>1. OneSetter /\ cb = 0
      BY <1>0, <2>1, <2>2 DEF PairAgrees, OneSetter
    <3>2. \A u \in Thread : spc'[u] # "out" => spc[u] # "out"
      BY <2>1, <1>t DEF PairTypes
    <3>3. \A u \in Thread \ {victim} : spc'[u] = "cb" => u = t
      BY <1>0, <2>1, <3>1, <3>2, <1>t DEF OneSetter, PairTypes
    <3> QED
      BY <1>0, <2>1, <3>1, <3>2, <3>3 DEF OneSetter
  <2>3. CallbackPairKept'
    BY <1>0, <2>1 DEF CallbackPairKept
  <2> QED
    BY <1>1, <2>2, <2>3 DEF PairAgrees
<1>4. CASE SetCallback(t)
  <2>1. spc' = [spc EXCEPT ![t] = "out"] /\ cb' = sval[t]
        /\ UNCHANGED <<ud, sval, mixed, reset>> /\ spc[t] = "cb"
    BY <1>4 DEF SetCallback, SetGo, handVars
  <2>2. ASSUME ~mixed'
        PROVE  OneSetter'
    <3>1. OneSetter /\ ud = sval[t]
      BY <1>0, <2>1, <2>2 DEF PairAgrees, OneSetter
    <3>2. \A u \in Thread \ {victim} : spc'[u] = "out"
      BY <1>0, <2>1, <3>1, <1>t DEF OneSetter, PairTypes
    <3> QED
      BY <1>0, <2>1, <3>1, <3>2 DEF OneSetter
  <2>3. CallbackPairKept'
    BY <1>0, <2>1 DEF CallbackPairKept
  <2> QED
    BY <1>1, <2>2, <2>3 DEF PairAgrees
<1> QED
  BY <1>2, <1>3, <1>4 DEF SetStep

\* The callback and its data stay a pair.
LEMMA PairKept ==
    ASSUME CrashTypeOK, PairAgrees, CallbackPairKept, [CrashNext]_crashVars
    PROVE  PairAgrees' /\ CallbackPairKept'
<1>t. PairTypes /\ HandTypes
  BY Types
<1>s. CASE UNCHANGED <<cbVars, victim, hpc, hcb, reset, called>>
  BY <1>s DEF PairAgrees, NoHandler, OneSetter, CallbackPairKept, cbVars
<1>h. ASSUME UNCHANGED <<cbVars, victim, hcb, reset, called>>, hpc' # "ud", victim # None
      PROVE  PairAgrees' /\ CallbackPairKept'
  BY <1>h DEF PairAgrees, NoHandler, OneSetter, CallbackPairKept, cbVars
<1>1. ASSUME NEW t \in Thread, SetStep(t)
      PROVE  PairAgrees' /\ CallbackPairKept'
  BY <1>1, PairKeptBySetter
<1>2. ASSUME NEW t \in Thread, PushStep(t)
      PROVE  UNCHANGED <<cbVars, victim, hpc, hcb, reset, called>>
  BY <1>2 DEF PushStep, Push, PushLock, PushText, PushLen, PushHead, PushCount,
             OutsideRing, handVars
<1>3. ASSUME NEW t \in Thread, InstStep(t)
      PROVE  UNCHANGED <<cbVars, victim, hpc, hcb, reset, called>>
  BY <1>3 DEF InstStep, Install, InstallRing, InstallAlloc, InstallAction,
             InstallFlag, Uninstall, Shutdown, Start, StartRing, StartAlloc,
             RingCheck, RingAlloc, handVars
<1>4. ASSUME NEW t \in Thread, Crash(t)
      PROVE  PairAgrees' /\ CallbackPairKept'
  <2>1. hpc' # "ud" /\ UNCHANGED <<cbVars, hcb, reset, called>> /\ victim = None
        /\ victim' = t /\ t # None
    BY <1>4, CrashAssumption DEF Crash, ToHandler, Outside
  <2>2. victim \notin Thread
    BY <2>1, CrashAssumption
  <2> QED
    BY <2>1, <2>2 DEF PairAgrees, NoHandler, OneSetter, CallbackPairKept, cbVars
<1>5. CASE HandStep
  <2>0. victim # None /\ UNCHANGED victim
    <3>1. hpc # "none" /\ UNCHANGED victim
      BY <1>5 DEF HandStep, Open, DumpHead, DumpCount, DumpLen, DumpText, DumpEnd,
                 ReadCallback, CallCallback, Restore, Raise
    <3> QED
      BY <3>1 DEF PairAgrees, NoHandler
  <2>1. CASE ReadCallback
    BY <2>0, <2>1 DEF ReadCallback, Outside, cbVars, PairAgrees, NoHandler, OneSetter,
                     CallbackPairKept
  <2>2. CASE CallCallback
    <3>1. PairAgrees'
      BY <2>0, <2>2 DEF CallCallback, Outside, cbVars, PairAgrees, NoHandler, OneSetter
    <3>2. ASSUME ~reset, ~mixed, NEW k \in DOMAIN called'
          PROVE  called'[k][1] = called'[k][2]
      <4>1. CASE hcb = 0
        BY <2>2, <3>2, <4>1 DEF CallCallback, CallbackPairKept
      <4>2. CASE hcb # 0
        <5>1. hcb = ud /\ called' = Append(called, <<hcb, ud>>)
          BY <2>2, <3>2, <4>2 DEF CallCallback, PairAgrees, OneSetter
        <5>2. called \in Seq(Nat \X Nat) /\ <<hcb, ud>> \in Nat \X Nat
          BY <1>t DEF HandTypes, PairTypes
        <5>3. \A j \in DOMAIN called : called[j][1] = called[j][2]
          BY <3>2 DEF CallbackPairKept
        <5>4. \/ k \in DOMAIN called /\ called'[k] = called[k]
              \/ called'[k] = <<hcb, ud>>
          BY <5>1, <5>2, <3>2
        <5> QED
          BY <5>1, <5>3, <5>4
      <4> QED
        BY <4>1, <4>2
    <3>3. reset' = reset /\ mixed' = mixed
      BY <2>2 DEF CallCallback, Outside, cbVars
    <3> QED
      BY <3>1, <3>2, <3>3 DEF CallbackPairKept
  <2>3. CASE HandStep /\ ~ReadCallback /\ ~CallCallback
    <3>1. UNCHANGED <<cbVars, hcb, reset, called>>
      BY <2>3 DEF HandStep, Open, DumpHead, DumpCount, DumpLen, DumpText, DumpEnd,
                 Restore, Raise, Outside, dumpVars
    <3>2. hpc' # "ud"
      BY <2>3 DEF HandStep, Open, DumpHead, DumpCount, DumpLen, DumpText, DumpEnd,
                 Restore, Raise, ToHandler
    <3> QED
      BY <2>0, <3>1, <3>2, <1>h
  <2> QED
    BY <1>5, <2>1, <2>2, <2>3
<1>6. CASE UNCHANGED crashVars
  BY <1>6, <1>s DEF crashVars, handVars
<1> QED
  BY <1>1, <1>2, <1>3, <1>4, <1>5, <1>6, <1>s, StepCases

-----------------------------------------------------------------------------
(***************************************************************************)
(* The action of the signal.                                               *)
(***************************************************************************)

\* Steps that do not concern the signal leave its state alone.
sigVars == <<installed, act, prev, ipc, clash, chain, victim, hpc, fate, runs, inited>>

\* Pushes and the setting of the callback are such steps.
LEMMA QuietSteps ==
    ASSUME [CrashNext]_crashVars
    PROVE  \/ UNCHANGED sigVars
           \/ \E t \in Thread : InstStep(t) \/ Crash(t)
           \/ HandStep
<1>1. ASSUME NEW t \in Thread, PushStep(t)
      PROVE  UNCHANGED sigVars
  BY <1>1 DEF PushStep, Push, PushLock, PushText, PushLen, PushHead, PushCount,
             OutsideRing, instVars, handVars, sigVars
<1>2. ASSUME NEW t \in Thread, SetStep(t)
      PROVE  UNCHANGED sigVars
  BY <1>2 DEF SetStep, SetDetach, SetData, SetCallback, ringVars, instVars, handVars,
             sigVars
<1>3. ASSUME UNCHANGED crashVars
      PROVE  UNCHANGED sigVars
  BY <1>3 DEF crashVars, ringVars, instVars, handVars, sigVars
<1> QED
  BY <1>1, <1>2, <1>3, StepCases

\* Once installs overlapped they did.
LEMMA ClashStays ==
    ASSUME [CrashNext]_crashVars, clash
    PROVE  clash'
<1>1. ASSUME NEW t \in Thread, InstStep(t) \/ Crash(t)
      PROVE  clash'
  BY <1>1 DEF InstStep, Install, InstallRing, InstallAlloc, InstallAction, InstallFlag,
             Uninstall, Shutdown, Start, StartRing, StartAlloc, RingCheck, RingAlloc, instVars, Crash
<1>2. ASSUME HandStep
      PROVE  clash'
  BY <1>2 DEF HandStep, Open, DumpHead, DumpCount, DumpLen, DumpText, DumpEnd,
             ReadCallback, CallCallback, Restore, Raise, instVars
<1> QED
  BY <1>1, <1>2, QuietSteps DEF sigVars

\* While installs do not overlap, one thread installs at a time.
LEMMA OneInstallKept ==
    ASSUME CrashTypeOK, OneInstall, ActionAgrees, [CrashNext]_crashVars, ~clash'
    PROVE  OneInstall'
<1>t. InstTypes /\ HandTypes
  BY Types
<1>v. None \notin Thread
  BY CrashAssumption
<1>s. CASE UNCHANGED <<installed, ipc, victim>>
  BY <1>s DEF OneInstall
\* A thread goes on in its own install, or in init.
<1>g. ASSUME NEW t \in Thread, NEW p, InstGo(t, p),
             p \in Installing => ipc[t] \in Installing, UNCHANGED <<installed, victim>>
      PROVE  OneInstall'
  <2>1. \A u \in Thread : ipc'[u] \in Installing => ipc[u] \in Installing
    BY <1>g, <1>t DEF InstGo, InstTypes
  <2> QED
    BY <1>g, <2>1 DEF OneInstall
<1>1. ASSUME NEW t \in Thread, InstStep(t)
      PROVE  OneInstall'
  <2>1. CASE Install(t)
    <3>1. CASE installed
      BY <2>1, <3>1, <1>s DEF Install, handVars
    <3>2. CASE ~installed
      <4>1. ~Others(t)
        BY <2>1, <3>2 DEF Install
      <4>2. victim = None /\ \A u \in Thread \ {t} : ipc[u] \notin Installing
        BY <4>1 DEF Others
      <4>3. ipc' = [ipc EXCEPT ![t] = "ring"] /\ UNCHANGED <<installed, victim>>
        BY <2>1, <3>2 DEF Install, InstGo, handVars
      <4>4. \A u \in Thread \ {t} : ipc'[u] \notin Installing
        BY <4>2, <4>3, <1>t DEF InstTypes
      <4> QED
        BY <3>2, <4>2, <4>3, <4>4 DEF OneInstall
    <3> QED
      BY <3>1, <3>2
  <2>2. CASE InstallRing(t) \/ InstallAlloc(t)
    <3>1. ipc[t] \in Installing /\ UNCHANGED <<installed, victim>>
      BY <2>2 DEF InstallRing, InstallAlloc, RingCheck, RingAlloc, InstAt, Installing, handVars
    <3>2. \E p : InstGo(t, p)
      BY <2>2 DEF InstallRing, InstallAlloc, RingCheck, RingAlloc
    <3> QED
      BY <3>1, <3>2, <1>g
  <2>3. CASE Start(t) \/ StartRing(t) \/ StartAlloc(t)
    <3>1. UNCHANGED <<installed, victim>>
      BY <2>3 DEF Start, StartRing, StartAlloc, RingCheck, RingAlloc, handVars
    <3>2. \E p : InstGo(t, p) /\ p \notin Installing
      BY <2>3 DEF Start, StartRing, StartAlloc, RingCheck, RingAlloc, Installing
    <3> QED
      BY <3>1, <3>2, <1>g
  <2>4. CASE InstallAction(t)
    <3>1. ipc[t] \in Installing /\ UNCHANGED <<installed, victim>>
      BY <2>4 DEF InstallAction, InstAt, Installing, handVars
    <3>2. \E p : InstGo(t, p)
      BY <2>4 DEF InstallAction
    <3> QED
      BY <3>1, <3>2, <1>g
  <2>5. CASE InstallFlag(t)
    <3>1. ipc[t] \in Installing /\ ipc' = [ipc EXCEPT ![t] = "out"]
      BY <2>5 DEF InstallFlag, InstAt, InstGo, Installing
    <3>2. \A u \in Thread : ipc'[u] \notin Installing
      BY <3>1, <1>t DEF OneInstall, InstTypes, Installing
    <3> QED
      BY <3>2 DEF OneInstall
  <2>6. CASE Uninstall(t)
    <3>1. installed' = FALSE /\ UNCHANGED <<ipc, victim>>
      BY <2>6 DEF Uninstall, handVars
    <3> QED
      BY <3>1 DEF OneInstall
  <2>7. CASE Shutdown(t)
    <3>1. installed' = FALSE /\ UNCHANGED <<ipc, victim>>
      BY <2>7 DEF Shutdown, handVars
    <3> QED
      BY <3>1 DEF OneInstall
  <2> QED
    BY <1>1, <2>1, <2>2, <2>3, <2>4, <2>5, <2>6, <2>7 DEF InstStep
<1>2. ASSUME NEW t \in Thread, Crash(t)
      PROVE  OneInstall'
  <2>1. \A u \in Thread : ipc'[u] \notin Installing
    BY <1>2 DEF Crash
  <2> QED
    BY <2>1 DEF OneInstall
<1>3. ASSUME HandStep
      PROVE  UNCHANGED <<installed, ipc, victim>>
  BY <1>3 DEF HandStep, Open, DumpHead, DumpCount, DumpLen, DumpText, DumpEnd,
             ReadCallback, CallCallback, Restore, Raise, Outside, instVars
<1> QED
  BY <1>1, <1>2, <1>3, <1>s, QuietSteps DEF sigVars

\* The action of the signal is the one its installer or the handler made.
LEMMA ActionKept ==
    ASSUME CrashTypeOK, OneInstall, ActionAgrees, [CrashNext]_crashVars, ~clash'
    PROVE  ActionAgrees'
<1>t. InstTypes /\ HandTypes
  BY Types
<1>v. None \notin Thread
  BY CrashAssumption
<1>s. CASE UNCHANGED sigVars
  BY <1>s DEF ActionAgrees, sigVars, Restored
<1>1. ASSUME NEW t \in Thread, InstStep(t)
      PROVE  ActionAgrees'
  <2>0. UNCHANGED <<victim, hpc, fate, runs, chain>> /\ fate = "alive"
    BY <1>1 DEF InstStep, Install, InstallRing, InstallAlloc, InstallAction, InstallFlag,
               Uninstall, Shutdown, Start, StartRing, StartAlloc, RingCheck, RingAlloc,
               handVars, Free, InstAt, Runs
  <2>1. CASE Install(t)
    <3>1. UNCHANGED <<installed, act, prev>>
      BY <2>1 DEF Install
    <3>2. \A u \in Thread : ipc'[u] = "flag" => ipc[u] = "flag"
      BY <2>1, <1>t DEF Install, InstGo, InstTypes
    <3>3. (\A u \in Thread : ipc'[u] # "flag") => (\A u \in Thread : ipc[u] # "flag")
      BY <2>1, <1>t DEF Install, InstGo, InstTypes, Free
    <3> QED
      BY <2>0, <3>1, <3>2, <3>3 DEF ActionAgrees, Restored
  <2>2. CASE InstallRing(t) \/ InstallAlloc(t) \/ Start(t) \/ StartRing(t) \/ StartAlloc(t)
    <3>1. UNCHANGED <<installed, act, prev>> /\ ipc[t] # "flag"
      BY <2>2 DEF InstallRing, InstallAlloc, Start, StartRing, StartAlloc, RingCheck,
                 RingAlloc, InstAt, Free
    <3>4. \E p : p # "flag" /\ InstGo(t, p)
      BY <2>2 DEF InstallRing, InstallAlloc, Start, StartRing, StartAlloc, RingCheck,
                 RingAlloc
    <3>2. \A u \in Thread : ipc'[u] = "flag" => ipc[u] = "flag"
      BY <3>4, <1>t DEF InstGo, InstTypes
    <3>3. (\A u \in Thread : ipc'[u] # "flag") => (\A u \in Thread : ipc[u] # "flag")
      BY <3>1, <3>4, <1>t DEF InstGo, InstTypes
    <3> QED
      BY <2>0, <3>1, <3>2, <3>3 DEF ActionAgrees, Restored
  <2>3. CASE InstallAction(t)
    <3>1. ipc[t] = "action" /\ installed' = installed
      BY <2>3 DEF InstallAction, InstAt
    <3>2. victim = None /\ ~installed
      BY <3>1 DEF OneInstall, Installing
    <3>3. \A u \in Thread : ipc[u] # "flag"
      BY <3>1 DEF OneInstall, Installing
    <3>4. act = "app"
      BY <3>1, <3>2, <3>3 DEF ActionAgrees
    <3>5. CASE act' = "hx" /\ prev' = act /\ InstGo(t, "flag")
      <4>1. ipc'[t] = "flag"
        BY <3>5, <1>t DEF InstGo, InstTypes
      <4> QED
        BY <2>0, <3>1, <3>2, <3>4, <3>5, <4>1 DEF ActionAgrees, HandlerPcs
    <3>6. CASE prev' = "dfl" /\ UNCHANGED act /\ InstGo(t, "out")
      <4>1. \A u \in Thread : ipc'[u] # "flag"
        BY <3>3, <3>6, <1>t DEF InstGo, InstTypes
      <4> QED
        BY <2>0, <3>1, <3>2, <3>4, <3>6, <4>1 DEF ActionAgrees, HandlerPcs
    <3> QED
      BY <2>3, <3>5, <3>6 DEF InstallAction
  <2>4. CASE InstallFlag(t)
    <3>1. ipc[t] = "flag" /\ UNCHANGED <<act, prev>> /\ installed' = TRUE
      BY <2>4 DEF InstallFlag, InstAt
    <3>2. victim = None
      BY <3>1 DEF OneInstall, Installing
    <3>3. act = "hx" /\ prev = "app"
      BY <3>1, <3>2 DEF ActionAgrees
    <3> QED
      BY <2>0, <3>1, <3>2, <3>3 DEF ActionAgrees, HandlerPcs
  <2>5. CASE Uninstall(t) \/ Shutdown(t)
    <3>1. installed' = FALSE /\ UNCHANGED <<prev, ipc>> /\ victim = None
          /\ act' = IF installed THEN prev ELSE act
      BY <2>5 DEF Uninstall, Shutdown
    <3>2. CASE installed
      <4>1. \A u \in Thread : ipc[u] # "flag"
        BY <3>2 DEF OneInstall, Installing
      <4>2. act' = "app"
        BY <3>1, <3>2 DEF ActionAgrees
      <4> QED
        BY <2>0, <3>1, <4>1, <4>2 DEF ActionAgrees, HandlerPcs
    <3>3. CASE ~installed
      BY <2>0, <3>1, <3>3 DEF ActionAgrees, HandlerPcs
    <3> QED
      BY <3>2, <3>3
  <2> QED
    BY <1>1, <2>1, <2>2, <2>3, <2>4, <2>5 DEF InstStep
<1>2. ASSUME NEW t \in Thread, Crash(t)
      PROVE  ActionAgrees'
  <2>1. victim = None /\ fate = "alive" /\ victim' # None
        /\ UNCHANGED <<act, prev, installed, chain>>
    BY <1>2, <1>v DEF Crash, Outside
  <2>2. \A u \in Thread : ipc[u] # "flag"
    BY <1>2 DEF Crash, Installing
  <2>3. CASE act = "hx"
    <3>1. installed /\ prev = "app" /\ runs = 0
      BY <2>1, <2>2, <2>3 DEF ActionAgrees
    <3>2. runs' = 1 /\ hpc' = "open" /\ fate' = fate
      BY <1>2, <2>3, <3>1 DEF Crash, ToHandler
    <3> QED
      BY <2>1, <2>3, <3>1, <3>2 DEF ActionAgrees, HandlerPcs
  <2>4. CASE act # "hx"
    <3>1. runs' = 0 /\ hpc' = "gone" /\ fate' = act
      BY <1>2, <2>1, <2>4 DEF Crash, ActionAgrees
    <3>2. act # "alive"
      BY <1>t DEF InstTypes, Action
    <3> QED
      BY <2>1, <2>4, <3>1, <3>2 DEF ActionAgrees, HandlerPcs
  <2> QED
    BY <2>3, <2>4
<1>3. CASE HandStep
  <2>0. UNCHANGED <<victim, installed, prev, ipc, chain>>
    BY <1>3 DEF HandStep, Open, DumpHead, DumpCount, DumpLen, DumpText, DumpEnd,
               ReadCallback, CallCallback, Restore, Raise, Outside, instVars
  <2>1. CASE Restore
    <3>1. prev = "app" /\ runs = 1 /\ fate = "alive" /\ victim # None
      BY <2>1 DEF Restore, ActionAgrees, HandlerPcs
    <3>2. act' = Restored("app") /\ hpc' = "raise" /\ UNCHANGED <<fate, runs>>
      BY <2>1, <3>1 DEF Restore
    <3>3. Restored("app")' = Restored("app")
      BY <2>0 DEF Restored
    <3> QED
      BY <2>0, <3>1, <3>2, <3>3 DEF ActionAgrees, HandlerPcs
  <2>2. CASE Raise
    <3>1. act = Restored("app") /\ runs = 1 /\ fate = "alive" /\ victim # None
      BY <2>2 DEF Raise, ActionAgrees
    <3>2. act # "hx" /\ act # "alive"
      BY <3>1 DEF Restored
    <3>3. fate' = act /\ hpc' = "gone" /\ runs' = 1
      BY <2>2, <3>1, <3>2 DEF Raise
    <3>4. Restored("app")' = Restored("app")
      BY <2>0 DEF Restored
    <3> QED
      BY <2>0, <3>1, <3>2, <3>3, <3>4 DEF ActionAgrees, HandlerPcs
  <2>3. CASE HandStep /\ ~Restore /\ ~Raise
    <3>1. UNCHANGED <<act, fate, runs>> /\ hpc \in HandlerPcs /\ hpc' \in HandlerPcs
      BY <2>3 DEF HandStep, Open, DumpHead, DumpCount, DumpLen, DumpText, DumpEnd,
                 ReadCallback, CallCallback, Outside, instVars, HandlerPcs
    <3>2. runs = 1 /\ act = "hx" /\ prev = "app" /\ fate = "alive" /\ victim # None
      BY <3>1 DEF ActionAgrees, HandlerPcs
    <3> QED
      BY <2>0, <3>1, <3>2 DEF ActionAgrees, HandlerPcs
  <2> QED
    BY <1>3, <2>1, <2>2, <2>3
<1> QED
  BY <1>1, <1>2, <1>3, <1>s, QuietSteps

-----------------------------------------------------------------------------
(***************************************************************************)
(* The ring until a crash.                                                 *)
(***************************************************************************)

\* Steps that leave the ring alone: all but pushes, its making and its end.
LEMMA RingSteps ==
    ASSUME [CrashNext]_crashVars
    PROVE  \/ UNCHANGED ringVars
           \/ NewRing
           \/ \E t \in Thread : PushStep(t) \/ Shutdown(t)
<1>1. ASSUME NEW t \in Thread, InstStep(t), ~Shutdown(t)
      PROVE  UNCHANGED ringVars \/ NewRing
  <2>1. CASE InstallAlloc(t) \/ StartAlloc(t)
    BY <2>1 DEF InstallAlloc, StartAlloc, RingAlloc
  <2>2. CASE ~InstallAlloc(t) /\ ~StartAlloc(t)
    BY <1>1, <2>2 DEF InstStep, Install, InstallRing, InstallAction, InstallFlag, Uninstall,
                     Start, StartRing, RingCheck
  <2> QED
    BY <2>1, <2>2
<1>2. ASSUME NEW t \in Thread, SetStep(t) \/ Crash(t)
      PROVE  UNCHANGED ringVars
  BY <1>2 DEF SetStep, SetDetach, SetData, SetCallback, Crash, Outside
<1>3. ASSUME HandStep
      PROVE  UNCHANGED ringVars
  BY <1>3 DEF HandStep, Open, DumpHead, DumpCount, DumpLen, DumpText, DumpEnd,
             ReadCallback, CallCallback, Restore, Raise, Outside
<1>4. ASSUME UNCHANGED crashVars
      PROVE  UNCHANGED ringVars
  BY <1>4 DEF crashVars
<1> QED
  BY <1>1, <1>2, <1>3, <1>4, StepCases

\* Once a ring was reset it was.
LEMMA RemadeStays ==
    ASSUME [CrashNext]_crashVars, remade
    PROVE  remade'
<1>1. ASSUME NEW t \in Thread, PushStep(t) \/ Shutdown(t)
      PROVE  remade'
  BY <1>1 DEF PushStep, Push, PushLock, PushText, PushLen, PushHead, PushCount, Shutdown
<1> QED
  BY <1>1, RingSteps DEF ringVars, NewRing

\* Where no ring is reset a new one is made only if there is none, and nobody
\* pushes then.
LEMMA NewRingIsFirst ==
    ASSUME NoRing, NewRing, ~remade'
    PROVE  ~inited /\ \A u \in Thread : ppc[u] = "out" /\ ppc'[u] = "out"
BY DEF NoRing, NewRing

\* The lock is held by whoever is inside a push.
LEMMA LockKept ==
    ASSUME CrashTypeOK, NoRing, LockAgrees, [CrashNext]_crashVars, ~remade'
    PROVE  LockAgrees'
<1>t. RingTypes
  BY Types
<1>v. None \notin Thread
  BY CrashAssumption
<1>s. CASE UNCHANGED ringVars
  BY <1>s DEF LockAgrees, ringVars
<1>1. ASSUME NEW t \in Thread, PushStep(t)
      PROVE  LockAgrees'
  <2>1. CASE Push(t)
    BY <2>1, <1>t DEF Push, Free, PushGo, LockAgrees, Inside, RingTypes
  <2>2. CASE PushLock(t)
    BY <2>2, <1>t, <1>v DEF PushLock, PushAt, PushGo, LockAgrees, Inside, RingTypes
  <2>3. CASE PushText(t) \/ PushLen(t) \/ PushHead(t)
    <3>1. ppc[t] \in Inside /\ rlock' = rlock
      BY <2>3 DEF PushText, PushLen, PushHead, PushAt, Inside
    <3>2. \E p \in Inside : ppc' = [ppc EXCEPT ![t] = p]
      BY <2>3 DEF PushText, PushLen, PushHead, PushGo, Inside
    <3> QED
      BY <3>1, <3>2, <1>t DEF LockAgrees, RingTypes
  <2>4. CASE PushCount(t)
    BY <2>4, <1>t, <1>v DEF PushCount, PushAt, PushGo, LockAgrees, Inside, RingTypes
  <2> QED
    BY <1>1, <2>1, <2>2, <2>3, <2>4 DEF PushStep
<1>2. ASSUME NewRing
      PROVE  LockAgrees'
  <2>1. rlock' = None /\ \A u \in Thread : ppc'[u] = "out"
    BY <1>2, NewRingIsFirst DEF NewRing
  <2> QED
    BY <2>1, <1>v DEF LockAgrees, Inside
<1>3. ASSUME NEW t \in Thread, Shutdown(t)
      PROVE  LockAgrees'
  BY <1>3 DEF Shutdown, LockAgrees
<1> QED
  BY <1>1, <1>2, <1>3, <1>s, RingSteps

\* In a push under the lock it is the pusher who holds it.
LEMMA Holder ==
    ASSUME CrashTypeOK, LockAgrees, NEW t \in Thread, ppc[t] \in Inside
    PROVE  /\ rlock = t /\ rlock # None
           /\ \A p : Pushing(p) <=> ppc[t] = p
BY CrashAssumption DEF LockAgrees, Pushing

\* A thread outside the push does not hold it.
LEMMA NoHolder ==
    ASSUME CrashTypeOK, LockAgrees, NEW t \in Thread, ppc[t] \notin Inside
    PROVE  rlock # t
BY DEF LockAgrees

\* The slot of the head is behind the head only once around.
LEMMA BehindHead ==
    ASSUME NEW h \in Slots, NEW k \in 1..Cap
    PROVE  /\ Wrap(h - k) \in Slots /\ (Wrap(h - k) = h <=> k = Cap)
           /\ Wrap(Wrap(h + 1) - 1) = h
           /\ k > 1 => Wrap(Wrap(h - 1) - (k - 1)) = Wrap(h - k)
BY CrashAssumption DEF Slots, Wrap

\* Until a crash the ring holds the latest lines, step by step of a push.
LEMMA RingHoldsKept ==
    ASSUME CrashTypeOK, LocalsAgree, NoRing, LockAgrees, RingHolds,
           [CrashNext]_crashVars, ~remade'
    PROVE  RingHolds'
<1>t. RingTypes
  BY Types
<1>n. Cap \in Nat /\ Cap > 0 /\ MaxPushes \in Nat /\ None \notin Thread
  BY CrashAssumption
<1>l. Len(pushed) \in Nat /\ count = AtMost(Len(pushed)) /\ head \in Slots
  BY <1>t DEF RingTypes, RingHolds
<1>c. count \in 0..Cap
  BY <1>t DEF RingTypes
<1>s. CASE UNCHANGED ringVars
  BY <1>s DEF RingHolds, Base, Pushing, ringVars
<1>1. ASSUME NEW t \in Thread, Push(t)
      PROVE  RingHolds'
  <2>1. rlock # t
    BY <1>1, NoHolder DEF Push, Free, Inside
  <2>2. \A p : Pushing(p)' <=> Pushing(p)
    BY <1>1, <2>1, <1>t DEF Push, PushGo, Pushing, RingTypes
  <2>3. rlock # None => pline'[rlock] = pline[rlock]
    BY <1>1, <2>1, <1>t DEF Push, RingTypes
  <2>4. UNCHANGED <<ring, head, count, rlock, pushed>>
    BY <1>1 DEF Push
  <2>5. Base' = Base
    BY <2>2, <2>4 DEF Base
  <2> QED
    BY <2>2, <2>3, <2>4, <2>5 DEF RingHolds, Pushing
<1>2. ASSUME NEW t \in Thread, PushLock(t)
      PROVE  RingHolds'
  <2>1. rlock = None /\ rlock' = t /\ ppc'[t] = "text"
    BY <1>2, <1>t DEF PushLock, PushGo, RingTypes
  <2>2. /\ ~Pushing("text") /\ ~Pushing("count") /\ Pushing("text")' /\ ~Pushing("len")'
        /\ ~Pushing("head")' /\ ~Pushing("count")'
    BY <2>1, <1>n DEF Pushing
  <2>3. UNCHANGED <<ring, head, count, pushed>>
    BY <1>2 DEF PushLock
  <2>4. Base' = Base
    BY <2>2, <2>3 DEF Base
  <2> QED
    BY <2>1, <2>2, <2>3, <2>4 DEF RingHolds
<1>3. ASSUME NEW t \in Thread, PushText(t)
      PROVE  RingHolds'
  <2>1. ppc[t] = "text" /\ ppc'[t] = "len" /\ UNCHANGED <<head, count, rlock, pline, pushed>>
        /\ ring' = [ring EXCEPT ![head].text = pline[t]]
    BY <1>3, <1>t DEF PushText, PushAt, PushGo, RingTypes
  <2>2. rlock = t /\ rlock # None /\ Pushing("text") /\ ~Pushing("count")
    BY <2>1, Holder DEF Inside
  <2>3. /\ ~Pushing("text")' /\ Pushing("len")' /\ ~Pushing("head")' /\ ~Pushing("count")'
    BY <2>1, <2>2 DEF Pushing
  <2>4. Base = head /\ Base' = head
    BY <2>1, <2>2, <2>3 DEF Base
  <2>5. ring'[head].text = pline[t]
    BY <2>1, <1>l, <1>t DEF RingTypes
  <2>6. ASSUME NEW k \in 1..count, k # Cap
        PROVE  ring'[Wrap(head - k)] = AsEntry(pushed[Len(pushed) + 1 - k])
    <3>1. k \in 1..Cap
      BY <1>c, <1>n
    <3>2. Wrap(head - k) \in Slots /\ Wrap(head - k) # head
      BY <2>6, <3>1, <1>l, BehindHead
    <3>3. ring'[Wrap(head - k)] = ring[Wrap(head - k)]
      BY <2>1, <3>2, <1>t DEF RingTypes
    <3>4. ring[Wrap(head - k)] = AsEntry(pushed[Len(pushed) + 1 - k])
      BY <2>2, <2>4 DEF RingHolds
    <3> QED
      BY <3>3, <3>4
  <2> QED
    BY <2>1, <2>2, <2>3, <2>4, <2>5, <2>6, <1>l DEF RingHolds, AsEntry
<1>4. ASSUME NEW t \in Thread, PushLen(t)
      PROVE  RingHolds'
  <2>1. ppc[t] = "len" /\ ppc'[t] = "head" /\ UNCHANGED <<head, count, rlock, pline, pushed>>
        /\ ring' = [ring EXCEPT ![head].len = pline[t]]
    BY <1>4, <1>t DEF PushLen, PushAt, PushGo, RingTypes
  <2>2. rlock = t /\ rlock # None /\ Pushing("len") /\ ~Pushing("count") /\ ~Pushing("text")
    BY <2>1, Holder DEF Inside
  <2>3. /\ ~Pushing("text")' /\ ~Pushing("len")' /\ Pushing("head")' /\ ~Pushing("count")'
    BY <2>1, <2>2 DEF Pushing
  <2>4. Base = head /\ Base' = head
    BY <2>1, <2>2, <2>3 DEF Base
  <2>5. ring'[head] = AsEntry(pline[t])
    <3>1. ring[head].text = pline[t] /\ ring[head] \in [text : 0..MaxPushes, len : 0..MaxPushes]
      BY <2>2, <1>l, <1>t DEF RingHolds, RingTypes
    <3>2. ring'[head] = [ring[head] EXCEPT !.len = pline[t]]
      BY <2>1, <1>l, <1>t DEF RingTypes
    <3> QED
      BY <3>1, <3>2 DEF AsEntry
  <2>6. ASSUME NEW k \in 1..count, k # Cap
        PROVE  ring'[Wrap(head - k)] = AsEntry(pushed[Len(pushed) + 1 - k])
    <3>1. k \in 1..Cap
      BY <1>c, <1>n
    <3>2. Wrap(head - k) \in Slots /\ Wrap(head - k) # head
      BY <2>6, <3>1, <1>l, BehindHead
    <3>3. ring'[Wrap(head - k)] = ring[Wrap(head - k)]
      BY <2>1, <3>2, <1>t DEF RingTypes
    <3>4. ring[Wrap(head - k)] = AsEntry(pushed[Len(pushed) + 1 - k])
      BY <2>4, <2>6 DEF RingHolds
    <3> QED
      BY <3>3, <3>4
  <2> QED
    BY <2>1, <2>2, <2>3, <2>4, <2>5, <2>6, <1>l DEF RingHolds, AsEntry
<1>5. ASSUME NEW t \in Thread, PushHead(t)
      PROVE  RingHolds'
  <2>1. ppc[t] = "head" /\ ppc'[t] = "count" /\ UNCHANGED <<ring, count, rlock, pline, pushed>>
        /\ head' = NextHead(head)
    BY <1>5, <1>t DEF PushHead, PushAt, PushGo, RingTypes
  <2>2. rlock = t /\ rlock # None /\ Pushing("head") /\ ~Pushing("count") /\ ~Pushing("text")
    BY <2>1, Holder DEF Inside
  <2>3. /\ ~Pushing("text")' /\ ~Pushing("len")' /\ ~Pushing("head")' /\ Pushing("count")'
    BY <2>1, <2>2 DEF Pushing
  <2>4. head' = Wrap(head + 1)
    BY <2>1, <1>l, NextSlot
  <2>5. 1 \in 1..Cap
    BY <1>n
  <2>6. Wrap(head' - 1) = head
    BY <2>4, <2>5, <1>l, BehindHead
  <2>7. Base = head /\ Base' = head
    BY <2>2, <2>3, <2>6 DEF Base
  <2>8. ring[head] = AsEntry(pline[t])
    BY <2>2 DEF RingHolds
  <2> QED
    BY <2>1, <2>2, <2>3, <2>6, <2>7, <2>8 DEF RingHolds, AsEntry
<1>6. ASSUME NEW t \in Thread, PushCount(t)
      PROVE  RingHolds'
  <2>1. ppc[t] = "count" /\ UNCHANGED <<ring, head, pline>> /\ rlock' = None
        /\ count' = (IF count < Cap THEN count + 1 ELSE count)
        /\ pushed' = Append(pushed, pline[t])
    BY <1>6 DEF PushCount, PushAt
  <2>2. rlock = t /\ rlock # None /\ Pushing("count") /\ ~Pushing("text")
    BY <2>1, Holder DEF Inside
  <2>3. /\ ~Pushing("text")' /\ ~Pushing("len")' /\ ~Pushing("head")' /\ ~Pushing("count")'
    BY <2>1 DEF Pushing
  <2>4. Base = Wrap(head - 1) /\ Base' = head
    BY <2>1, <2>2, <2>3 DEF Base
  <2>5. Len(pushed') = Len(pushed) + 1
    BY <2>1, <1>t DEF RingTypes
  <2>6. count' = AtMost(Len(pushed'))
    BY <2>1, <2>5, <1>l, <1>n DEF AtMost
  <2>7. ASSUME NEW k \in 1..count'
        PROVE  ring'[Wrap(head - k)] = AsEntry(pushed'[Len(pushed') + 1 - k])
    <3>1. k \in 1..Cap
      BY <2>1, <1>c, <1>n
    <3>2. CASE k = 1
      <4>1. ring[Wrap(head - 1)] = AsEntry(pline[t])
        BY <2>2 DEF RingHolds
      <4>2. pushed'[Len(pushed) + 1] = pline[t]
        BY <2>1, <1>t DEF RingTypes
      <4> QED
        BY <2>1, <2>5, <3>2, <4>1, <4>2, <1>l
    <3>3. CASE k > 1
      <4>1. k - 1 \in 1..count /\ k - 1 # Cap /\ k - 1 <= Len(pushed)
        BY <2>1, <3>1, <3>3, <1>c, <1>l, <1>n DEF AtMost
      <4>2. ring[Wrap(Base - (k - 1))] = AsEntry(pushed[Len(pushed) + 1 - (k - 1)])
        BY <4>1 DEF RingHolds
      <4>3. Wrap(Base - (k - 1)) = Wrap(head - k)
        BY <2>4, <3>1, <3>3, <1>l, BehindHead
      <4>4. Len(pushed) + 1 - (k - 1) = Len(pushed') + 1 - k
            /\ Len(pushed) + 1 - (k - 1) \in 1..Len(pushed)
        BY <2>5, <4>1, <1>l
      <4>5. \A i \in 1..Len(pushed) : pushed'[i] = pushed[i]
        BY <2>1, <1>t DEF RingTypes
      <4> QED
        BY <2>1, <4>2, <4>3, <4>4, <4>5
    <3> QED
      BY <3>1, <3>2, <3>3
  <2> QED
    BY <2>1, <2>3, <2>4, <2>6, <2>7 DEF RingHolds, AsEntry
<1>7. ASSUME NewRing
      PROVE  RingHolds'
  <2>1. rlock' = None /\ count' = 0 /\ pushed' = <<>>
    BY <1>7 DEF NewRing
  <2> QED
    BY <2>1, <1>n DEF RingHolds, Pushing, AtMost
<1>8. ASSUME NEW t \in Thread, Shutdown(t)
      PROVE  RingHolds'
  <2>1. rlock \notin Thread
    BY <1>8 DEF Shutdown, LockAgrees, Inside
  <2>2. rlock' = None /\ count' = 0 /\ pushed' = <<>>
    BY <1>8, <2>1, <1>t DEF Shutdown, RingTypes
  <2> QED
    BY <2>2, <1>n DEF RingHolds, Pushing, AtMost
<1> QED
  BY <1>1, <1>2, <1>3, <1>4, <1>5, <1>6, <1>7, <1>8, <1>s, RingSteps
     DEF PushStep

-----------------------------------------------------------------------------
(***************************************************************************)
(* The ring from the crash to the end of the dump.                         *)
(***************************************************************************)

\* The circle's arithmetic: h is the head at the crash, n the number of lines
\* due, line k of them the one sought, and fewer than k pushes were late.
LEMMA HomeApart ==
    ASSUME NEW h \in Slots, NEW n \in 0..Cap, NEW k \in 1..n, NEW a \in Nat, a < k - 1
    PROVE  /\ Wrap(h - n - 1 + k) \in Slots /\ Wrap(h + a) \in Slots
           /\ Wrap(h - n - 1 + k) # Wrap(h + a)
           /\ Wrap(Wrap(h + a) + 1) = Wrap(h + (a + 1))
BY CrashAssumption DEF Slots, Wrap

\* The slot after the one that is a pushes ahead.
LEMMA NextHome ==
    ASSUME NEW h \in Slots, NEW a \in 0..Cap - 1
    PROVE  Wrap(h + a) \in Slots /\ Wrap(Wrap(h + a) + 1) = Wrap(h + (a + 1))
BY CrashAssumption DEF Slots, Wrap

\* The dump reads line k if it took the head d pushes and the count e pushes
\* after the crash, and ends b pushes after it.
IsRead(h, n, k, d, e, b) ==
    \E i \in Slots : /\ i < AtMost(n + b)
                    /\ Wrap(Wrap(Wrap(h + d) - AtMost(n + e)) + i) = Wrap(h - n - 1 + k)

\* A late head and a late count still lead the dump past line k.
LEMMA HomeIsRead ==
    ASSUME NEW h \in Slots, NEW n \in 0..Cap, NEW k \in 1..n, NEW d \in Nat, d < k,
           NEW e \in Nat, NEW b \in Nat, e <= b
    PROVE  IsRead(h, n, k, d, e, b)
<1> DEFINE s == Wrap(Wrap(h + d) - AtMost(n + e))
           x == Wrap(h - n - 1 + k)
           i == Wrap(x - s)
<1>n. Cap \in Nat /\ Cap > 0 /\ h \in 0..(Cap - 1) /\ n <= Cap
  BY CrashAssumption DEF Slots
<1>1. AtMost(n + e) \in 1..Cap /\ AtMost(n + e) <= AtMost(n + b)
  BY <1>n DEF AtMost
<1>2. Wrap(h + d) \in Slots
  BY <1>n DEF Slots, Wrap
<1>3. s \in Slots /\ x \in Slots
  BY <1>n, <1>1, <1>2 DEF Slots, Wrap
<1>4. i \in Slots /\ Wrap(s + i) = x
  <2> HIDE DEF s, x
  <2> QED
    BY <1>n, <1>3 DEF Slots, Wrap
<1>5. i < AtMost(n + b)
  <2>1. CASE n + e >= Cap
    <3>1. AtMost(n + b) = Cap
      BY <1>n, <2>1 DEF AtMost
    <3> HIDE DEF i
    <3> QED
      BY <1>4, <1>n, <3>1 DEF Slots
  <2>2. CASE n + e < Cap
    <3>1. AtMost(n + e) = n + e
      BY <2>2 DEF AtMost
    <3>2. i = e + k - 1 - d
      BY <1>n, <2>2, <3>1 DEF Wrap
    <3>3. i < n + e
      BY <1>n, <3>2
    <3>4. n + e <= AtMost(n + b)
      BY <1>1, <3>1
    <3> HIDE DEF i
    <3>5. AtMost(n + b) \in Nat
      BY <1>n DEF AtMost
    <3> QED
      BY <1>4, <3>3, <3>4, <3>5, <1>n DEF Slots
  <2> QED
    BY <2>1, <2>2, <1>n
<1> QED
  BY <1>4, <1>5 DEF IsRead

\* Without late pushes the dump starts at the first line due.
LEMMA FirstIsRead ==
    ASSUME NEW h \in Slots, NEW n \in 0..Cap, NEW i \in 0..(n - 1)
    PROVE  Wrap(Wrap(h - n) + i) = Wrap(h - n - 1 + (i + 1))
BY CrashAssumption DEF Slots, Wrap

\* The index of the dump's loop.
LEMMA IndexIs ==
    ASSUME CrashTypeOK, hseen # -1, cseen # -1, slot < Cap
    PROVE  Index = Wrap(Wrap(hseen - cseen) + slot) /\ slot \in Slots
<1>1. hseen \in Slots /\ cseen \in 0..Cap /\ slot \in 0..(Cap - 1)
  BY CrashAssumption DEF CrashTypeOK
<1>2. StartSlot(hseen, cseen) = Wrap(hseen - cseen) /\ StartSlot(hseen, cseen) \in Slots
  BY <1>1, StartOf
<1> DEFINE s == StartSlot(hseen, cseen)
<1>3. s \in Slots
  BY <1>2
<1> HIDE DEF s
<1>4. s + slot \in 0..(2 * Cap - 1)
  BY <1>1, <1>3, CrashAssumption DEF Slots
<1>5. (s + slot) % Cap = Wrap(s + slot)
  BY <1>4, Around
<1> QED
  BY <1>1, <1>2, <1>5 DEF Index, s, Slots

\* The lines due are lines.
LEMMA DueIs ==
    ASSUME CrashTypeOK
    PROVE  /\ Len(due) \in Nat /\ DOMAIN due = 1..Len(due)
           /\ \A k \in 1..Len(due) : due[k] \in 1..MaxPushes
<1>1. due \in Seq(1..MaxPushes)
  BY DEF CrashTypeOK
<1> QED
  BY <1>1, ElementOfSeq, LenProperties

\* At the crash the ring holds the lines due.
LEMMA CrashBegins ==
    ASSUME CrashTypeOK, NoRing, LockAgrees, RingHolds, NEW t \in Thread, Crash(t)
    PROVE  /\ Len(due') <= Cap
           /\ ~inited' => due' = <<>>
           /\ hpc' \in {"open", "gone"}
           /\ \E h \in Slots, a, b \in 0..late' : Moved(h, a, b)'
<1>t. RingTypes
  BY Types
<1>n. Cap \in Nat /\ Cap > 0
  BY CrashAssumption
<1>1. UNCHANGED <<ring, head, count, inited, rlock, ppc, pushed>>
  BY DEF Crash, Outside, ringVars
<1>2. due' = LastLines /\ late' = (IF rlock = None THEN 0 ELSE 1) /\ hpc' \in {"open", "gone"}
  BY DEF Crash, ToHandler
<1> DEFINE L == Len(pushed)
           n == AtMost(L)
<1>3. L \in Nat /\ count = n /\ head \in Slots /\ pushed \in Seq(1..MaxPushes)
  BY <1>t DEF RingTypes, RingHolds
<1>4. Len(due') = n /\ \A k \in 1..n : due'[k] = pushed[L - n + k]
  BY <1>2, LastLinesAre
<1>5. n \in 0..Cap /\ n <= L
  BY <1>3, <1>n DEF AtMost
<1>6. ~inited' => due' = <<>>
  <2>1. ASSUME ~inited PROVE due' = <<>>
    <3>1. pushed = <<>>
      BY <2>1 DEF NoRing
    <3>2. LastLines \in Seq(1..MaxPushes) /\ Len(LastLines) = 0
      BY <3>1, <1>n, LastLinesAre DEF AtMost
    <3> QED
      BY <1>2, <3>2, EmptySeq
  <2> QED
    BY <1>1, <2>1
<1>7. \E h \in Slots, a, b \in 0..late' : Moved(h, a, b)'
  <2> DEFINE a == IF Pushing("count") THEN 1 ELSE 0
  <2>1. Base \in Slots /\ head = Wrap(Base + a)
    BY <1>3, <1>n DEF Base, Wrap, Slots
  <2>2. a \in 0..late' /\ 0 \in 0..late' /\ 0 <= a /\ a <= late'
    BY <1>2 DEF Pushing
  <2>3. \A p : Pushing(p)' <=> Pushing(p)
    BY <1>1 DEF Pushing
  <2>4. ASSUME NEW k \in 1..n, k > late'
        PROVE  ring[Wrap(Base - n - 1 + k)] = AsEntry(due'[k])
    <3> DEFINE j == n + 1 - k
    <3>1. j \in 1..count /\ L + 1 - j = L - n + k /\ Base - j = Base - n - 1 + k
      <4>1. n \in Nat /\ L \in Nat /\ Base \in Int /\ count = n
        BY <1>3, <1>5, <1>n, <2>1 DEF Slots
      <4> HIDE DEF n, L
      <4>2. k \in 1..n
        OBVIOUS
      <4> QED
        BY <4>1, <4>2
    <3>2. ~(j = Cap /\ rlock # None /\ ~Pushing("text"))
      BY <1>2, <1>5, <2>4
    <3>3. ring[Wrap(Base - j)] = AsEntry(pushed[L + 1 - j])
      BY <3>1, <3>2 DEF RingHolds
    <3>4. due'[k] = pushed[L - n + k]
      BY <1>4
    <3> HIDE DEF j, n, L
    <3> QED
      BY <3>1, <3>3, <3>4
  <2>5. AtMost(n + 0) = n
    BY <1>5, <1>n DEF AtMost
  <2>6. rlock = None => a = 0
    BY DEF Pushing
  <2>7. rlock # None => late' = 1
    BY <1>2
  <2>8. Moved(Base, a, 0)'
    <3>1. Base' = Base
      BY <1>1, <2>3 DEF Base
    <3>2. head' = Wrap(Base + a) /\ count' = AtMost(Len(due') + 0)
      BY <1>1, <1>3, <1>4, <2>1, <2>5
    <3>3. \A k \in 1..Len(due') : k > late' => ring'[Wrap(Base - Len(due') - 1 + k)] = AsEntry(due'[k])
      BY <1>1, <1>4, <2>4
    <3> HIDE DEF n, L
    <3>4. a' = a
      BY <2>3
    <3> QED
      BY <1>1, <2>2, <2>3, <2>6, <2>7, <3>1, <3>2, <3>3, <3>4 DEF Moved, Home, AsEntry
  <2>9. PICK h \in Slots, c \in 0..late' : h = Base /\ c = a
    BY <2>1, <2>2
  <2>10. Base' = h /\ a' = c
    BY <1>1, <2>3, <2>9 DEF Base
  <2>11. Moved(h, c, 0)'
    BY <2>8, <2>10 DEF Moved, Home
  <2> QED
    BY <2>2, <2>9, <2>11
<1> QED
  BY <1>2, <1>4, <1>5, <1>6, <1>7

\* A push while the handler reads: what the dump read and wrote stays as it is.
LEMMA PushMoves ==
    ASSUME CrashTypeOK, LockAgrees, NEW t \in Thread, PushStep(t), Len(due) <= Cap,
           FewLate', hpc \in {"open", "dump", "slots"}, victim # None,
           NEW h \in Slots, NEW a \in 0..late, NEW b \in 0..late, Moved(h, a, b)
    PROVE  \E c, d \in 0..late' : c >= a /\ d >= b /\ Moved(h, c, d)'
<1>t. RingTypes /\ HandTypes
  BY Types
<1>n. Cap \in Nat /\ Cap > 0 /\ MaxPushes \in Nat /\ None \notin Thread
  BY CrashAssumption
<1> DEFINE n == Len(due)
<1>d. n \in 0..Cap /\ due' = due /\ late \in Nat
  <2>1. due' = due
    BY DEF PushStep, Push, PushLock, PushText, PushLen, PushHead, PushCount, handVars
  <2> QED
    BY <2>1, DueIs, <1>n, <1>t DEF HandTypes
<1>l. late' >= late /\ late' \in Nat /\ (~PushLock(t) => late' = late)
  <2>1. ~PushLock(t) => late' = late
    BY DEF PushStep, Push, PushText, PushLen, PushHead, PushCount, handVars
  <2>2. PushLock(t) => late' = late + 1
    BY DEF PushLock, Dumped
  <2> QED
    BY <2>1, <2>2, <1>d
<1>f. late' = 0 \/ late' < n
  BY <1>d DEF FewLate
<1>h. h \in 0..(Cap - 1) /\ a \in Nat /\ b \in Nat
  BY <1>d DEF Slots
<1>k. ASSUME NEW c \in 0..late', c = a, UNCHANGED <<head, count>>,
             rlock' = None => rlock = None, \A p : Pushing(p)' /\ p = "count" => Pushing(p),
             rlock' # None /\ ~Pushing("count")' => a = b /\ a < late',
             \A k \in 1..n : k > late' => ring'[Home(h, k)] = ring[Home(h, k)]
      PROVE  \E x, y \in 0..late' : x >= a /\ y >= b /\ Moved(h, x, y)'
  <2>1. Moved(h, a, b)'
    <3>1. \A k \in 1..n : k > late' => ring'[Home(h, k)] = AsEntry(due[k])
      BY <1>k, <1>l, <1>d DEF Moved
    <3>2. \A k \in 1..n : Home(h, k)' = Home(h, k)
      BY <1>d DEF Home
    <3>3. a <= late' /\ b <= a
      BY <1>k, <1>l DEF Moved
    <3>4. Pushing("count")' => Pushing("count")
      BY <1>k
    <3> QED
      BY <1>k, <1>d, <3>1, <3>2, <3>3, <3>4 DEF Moved, AsEntry
  <2>2. a \in 0..late' /\ b \in 0..late'
    BY <1>l, <1>d
  <2> QED
    BY <2>1, <2>2, <1>h
<1>a. a \in 0..late'
  BY <1>l, <1>d
<1>w. ASSUME NEW k \in 1..n, k > late, a < late, UNCHANGED <<late, head>>
      PROVE  Home(h, k) # head
  <2>1. a < k - 1
    BY <1>w, <1>h, <1>d
  <2>2. Wrap(h - n - 1 + k) # Wrap(h + a)
    BY <2>1, <1>d, <1>h, HomeApart
  <2> QED
    BY <2>2 DEF Home, Moved
<1>1. CASE Push(t)
  <2>1. rlock # t
    BY <1>1, NoHolder DEF Push, Free, Inside
  <2>2. UNCHANGED <<ring, head, count, rlock, late>>
    BY <1>1 DEF Push, handVars
  <2>3. \A p : Pushing(p)' <=> Pushing(p)
    BY <1>1, <2>1, <1>t DEF Push, PushGo, Pushing, RingTypes
  <2>4. rlock # None /\ ~Pushing("count") => a = b /\ a < late
    BY DEF Moved
  <2> QED
    BY <1>a, <2>2, <2>3, <2>4, <1>k
<1>2. CASE PushLock(t)
  <2>1. rlock = None /\ rlock' = t /\ ppc'[t] = "text" /\ late' = late + 1
        /\ UNCHANGED <<ring, head, count>>
    BY <1>2, <1>t DEF PushLock, PushGo, RingTypes, Dumped
  <2>2. ~Pushing("count")' /\ rlock' # None
    BY <2>1, <1>n DEF Pushing
  <2>3. a = b /\ a < late'
    BY <2>1, <1>d DEF Moved
  <2> QED
    BY <1>a, <2>1, <2>2, <2>3, <1>k
<1>3. CASE PushText(t) \/ PushLen(t)
  <2>1. ppc[t] \in {"text", "len"} /\ ppc'[t] \in {"len", "head"}
        /\ UNCHANGED <<head, count, rlock, late>>
    BY <1>3, <1>t DEF PushText, PushLen, PushAt, PushGo, RingTypes, handVars
  <2>2. rlock = t /\ rlock # None /\ ~Pushing("count")
    BY <2>1, Holder DEF Inside
  <2>3. ~Pushing("count")'
    BY <2>1, <2>2 DEF Pushing
  <2>4. a = b /\ a < late
    BY <2>2 DEF Moved
  <2>5. \A x \in Slots : x # head => ring'[x] = ring[x]
    BY <1>3, <1>t DEF PushText, PushLen, RingTypes
  <2>6. ASSUME NEW k \in 1..n, k > late'
        PROVE  ring'[Home(h, k)] = ring[Home(h, k)]
    <3>1. k > late
      BY <2>1, <2>6
    <3>2. Home(h, k) # head
      BY <2>1, <2>4, <3>1, <1>w
    <3>3. Home(h, k) \in Slots
      <4>1. a < k - 1
        BY <2>4, <3>1, <1>h, <1>d
      <4> QED
        BY <4>1, <1>d, <1>h, HomeApart DEF Home
    <3> QED
      BY <2>5, <3>2, <3>3
  <2> QED
    BY <1>a, <2>1, <2>2, <2>3, <2>4, <2>6, <1>k
<1>4. CASE PushHead(t)
  <2>1. ppc[t] = "head" /\ ppc'[t] = "count" /\ UNCHANGED <<ring, count, rlock, late>>
        /\ head' = NextHead(head)
    BY <1>4, <1>t DEF PushHead, PushAt, PushGo, RingTypes, handVars
  <2>2. rlock = t /\ rlock # None /\ ~Pushing("count") /\ Pushing("count")'
    <3>1. rlock = t /\ rlock # None /\ ~Pushing("count")
      BY <2>1, Holder DEF Inside
    <3> QED
      BY <2>1, <3>1 DEF Pushing
  <2>3. a = b /\ a < late /\ a + 1 <= late
    <3>1. a = b /\ a < late
      BY <2>2 DEF Moved
    <3> QED
      BY <3>1, <1>h, <1>d
  <2>4. n \in 1..n /\ a < n - 1
    BY <2>1, <2>3, <1>f, <1>d, <1>h
  <2>5. head' = Wrap(h + (a + 1))
    <3>1. Wrap(Wrap(h + a) + 1) = Wrap(h + (a + 1)) /\ Wrap(h + a) \in Slots
      <4>1. h \in Slots /\ a \in 0..Cap - 1
        <5>1. Cap \in Nat /\ n \in 0..Cap /\ a \in Nat /\ a < n - 1
          BY <2>4, <1>d, <1>h, CrashAssumption
        <5> QED
          BY <5>1
      <4> QED
        BY <4>1, NextHome
    <3>2. head = Wrap(h + a)
      BY DEF Moved
    <3> QED
      BY <2>1, <3>1, <3>2, NextSlot
  <2>6. \A k \in 1..n : k > late => ring[Home(h, k)] = AsEntry(due[k])
    BY DEF Moved
  <2>7. count = AtMost(n + b)
    BY DEF Moved
  <2>8. PICK c \in 0..late' : c = a + 1
    BY <2>1, <2>3, <1>h, <1>d
  <2>9. Moved(h, c, b)'
    <3>1. \A k \in 1..n : Home(h, k)' = Home(h, k)
      BY <1>d DEF Home
    <3>2. b <= c /\ c = b + 1 /\ c <= late'
      BY <2>3, <2>8, <1>h, <1>l
    <3> QED
      BY <2>1, <2>2, <2>5, <2>6, <2>7, <2>8, <3>1, <3>2, <1>d DEF Moved, AsEntry
  <2>10. c >= a /\ b \in 0..late' /\ b >= b
    BY <2>8, <1>h, <1>l, <1>d
  <2> QED
    BY <2>9, <2>10
<1>5. CASE PushCount(t)
  <2>1. ppc[t] = "count" /\ rlock' = None /\ UNCHANGED <<ring, head, late>>
        /\ count' = (IF count < Cap THEN count + 1 ELSE count)
    BY <1>5 DEF PushCount, PushAt, handVars
  <2>2. Pushing("count")
    BY <2>1, Holder DEF Inside
  <2>3. a = b + 1 /\ a <= late /\ count = AtMost(n + b)
    BY <2>2 DEF Moved
  <2>4. count' = AtMost(n + a)
    BY <2>1, <2>3, <1>d, <1>h, <1>n DEF AtMost
  <2>5. ~Pushing("count")'
    BY <2>1 DEF Pushing
  <2>6. \A k \in 1..n : k > late => ring[Home(h, k)] = AsEntry(due[k])
    BY DEF Moved
  <2>7. Moved(h, a, a)'
    <3>1. \A k \in 1..n : Home(h, k)' = Home(h, k)
      BY <1>d DEF Home
    <3>2. head = Wrap(h + a) /\ a <= a
      BY <1>h DEF Moved
    <3> QED
      BY <2>1, <2>3, <2>4, <2>5, <2>6, <3>1, <3>2, <1>d DEF Moved, AsEntry
  <2>8. a >= a /\ a >= b
    BY <2>3, <1>h
  <2> QED
    BY <1>a, <2>7, <2>8
<1> QED
  BY <1>1, <1>2, <1>3, <1>4, <1>5 DEF PushStep

\* What is in the report stays in it.
LEMMA ShownStays ==
    ASSUME CrashTypeOK, NEW e, NEW l, Shown(l),
           out' = out \/ (out' = Append(out, e) /\ e \in [text : 0..MaxPushes, len : 0..MaxPushes])
    PROVE  Shown(l)'
<1> DEFINE E == [text : 0..MaxPushes, len : 0..MaxPushes]
<1>1. out \in Seq(E)
  BY DEF CrashTypeOK
<1>2. PICK k \in DOMAIN out : out[k] = AsEntry(l)
  BY DEF Shown
<1>3. k \in DOMAIN out' /\ out'[k] = out[k]
  <2>1. CASE out' = out
    BY <2>1
  <2>2. CASE out' = Append(out, e) /\ e \in E
    <3> HIDE DEF E
    <3> QED
      BY <1>1, <1>2, <2>2, LenProperties, AppendProperties
  <2> QED
    BY <2>1, <2>2
<1> QED
  BY <1>2, <1>3 DEF Shown, AsEntry

\* A push keeps what is known of the dump.
LEMMA DumpKeptByPush ==
    ASSUME CrashTypeOK, LockAgrees, ActionAgrees, DumpAgrees, NEW t \in Thread, PushStep(t)
    PROVE  DumpAgrees'
<1>t. HandTypes /\ RingTypes
  BY Types
<1>n. Cap \in Nat /\ Cap > 0
  BY CrashAssumption
<1>1. UNCHANGED <<inited, victim, hpc, hseen, cseen, slot, len, out, due>>
  BY DEF PushStep, Push, PushLock, PushText, PushLen, PushHead, PushCount, handVars, dumpVars
<1>2. late' \in Nat /\ late' >= late /\ (hpc \in {"cb", "ud"} => late' = late)
  <2>1. ~PushLock(t) => late' = late
    BY DEF PushStep, Push, PushText, PushLen, PushHead, PushCount, handVars
  <2>2. PushLock(t) => late' = late + 1 \/ late' = late
    BY <1>t DEF PushLock, Dumped, HandTypes
  <2>3. PushLock(t) /\ hpc \in {"cb", "ud"} => late' = late
    BY <1>t DEF PushLock, Dumped, HandTypes
  <2> QED
    BY <2>1, <2>2, <2>3, <1>t DEF HandTypes
<1>3. ASSUME hpc \in {"open", "dump", "slots"}, inited, FewLate'
      PROVE  \E h \in Slots, a, b \in 0..late' : Dumping(h, a, b)'
  <2>1. victim # None
    BY <1>3 DEF ActionAgrees
  <2>2. Len(due) <= Cap /\ FewLate
    <3>1. Len(due) \in Nat
      BY DueIs
    <3> QED
      BY <2>1, <3>1, <1>1, <1>2, <1>3, <1>t DEF DumpAgrees, FewLate, HandTypes
  <2>3. PICK h \in Slots, a \in 0..late, b \in 0..late : Dumping(h, a, b)
    BY <1>3, <2>2 DEF DumpAgrees
  <2>4. Moved(h, a, b)
    BY <2>3 DEF Dumping
  <2>5. PICK c \in 0..late', d \in 0..late' : c >= a /\ d >= b /\ Moved(h, c, d)'
    BY <1>3, <2>1, <2>2, <2>4, PushMoves
  <2>6. SeenHead(h, a) => SeenHead(h, c)'
    <3>1. a \in Nat /\ c \in Nat /\ \A x \in 0..a : x \in 0..c
      BY <2>5, <1>2, <1>t DEF HandTypes
    <3> QED
      BY <1>1, <3>1 DEF SeenHead, Wrap
  <2>7. SeenCount(b) => SeenCount(d)'
    <3>1. b \in Nat /\ d \in Nat /\ \A x \in 0..b : x \in 0..d
      BY <2>5, <1>2, <1>t DEF HandTypes
    <3> QED
      BY <1>1, <3>1 DEF SeenCount, AtMost
  <2>8. Passed(h) => Passed(h)'
    <3>1. \A k \in 1..Len(due) : k > late' => k > late
      BY <1>2, <1>t, DueIs DEF HandTypes
    <3>2. \A k \in 1..Len(due) : Home(h, k)' = Home(h, k)
      BY <1>1 DEF Home
    <3>3. \A k \in 1..Len(due) : Shown(due[k])' <=> Shown(due[k])
      BY <1>1 DEF Shown, AsEntry
    <3> QED
      BY <1>1, <3>1, <3>2, <3>3 DEF Passed, Wrap
  <2>9. InOrder => InOrder'
    <3>1. late' = 0 => late = 0
      BY <1>2, <1>t DEF HandTypes
    <3> QED
      BY <1>1, <3>1 DEF InOrder, AsEntry
  <2>10. Dumping(h, c, d)'
    BY <2>3, <2>5, <2>6, <2>7, <2>8, <2>9, <1>1 DEF Dumping
  <2> QED
    BY <2>10
<1>4. hpc \in {"cb", "ud"} => UNCHANGED <<due, out, late>>
  BY <1>1, <1>2
<1> QED
  BY <1>1, <1>3, <1>4 DEF DumpAgrees, Lost, Shown, AsEntry

\* Steps elsewhere.
LEMMA DumpFrame ==
    ASSUME DumpAgrees, UNCHANGED ringVars,
           UNCHANGED <<victim, hpc, hseen, cseen, slot, len, out, due, late>>
    PROVE  DumpAgrees'
<1>1. \A p : Pushing(p)' <=> Pushing(p)
  BY DEF ringVars, Pushing
<1>2. \A h, a, b : Moved(h, a, b)' <=> Moved(h, a, b)
  BY <1>1 DEF Moved, Home, AsEntry, Wrap, AtMost, ringVars
<1>3. \A h, a, b : /\ SeenHead(h, a)' <=> SeenHead(h, a)
                   /\ SeenCount(b)' <=> SeenCount(b)
  BY DEF SeenHead, SeenCount, Wrap, AtMost
<1>4. \A h : Passed(h)' <=> Passed(h)
  BY DEF Passed, Home, Shown, AsEntry, Wrap
<1>5. InOrder' <=> InOrder
  BY DEF InOrder, AsEntry
<1>6. \A h, a, b : Dumping(h, a, b)' <=> Dumping(h, a, b)
  BY <1>2, <1>3, <1>4, <1>5 DEF Dumping
<1>7. inited' = inited
  BY DEF ringVars
<1> QED
  BY <1>6, <1>7 DEF DumpAgrees, Lost, Shown, AsEntry, FewLate

\* No other thread touches what the dump reads, unless it makes the first ring.
LEMMA DumpKeptByOthers ==
    ASSUME CrashTypeOK, NoRing, OneInstall, ActionAgrees, DumpAgrees,
           NEW t \in Thread, InstStep(t) \/ SetStep(t), ~remade'
    PROVE  DumpAgrees'
<1>n. Cap \in Nat /\ Cap > 0
  BY CrashAssumption
<1>1. UNCHANGED <<victim, hpc, hseen, cseen, slot, len, out, due, late>>
  <2>1. CASE InstStep(t)
    BY <2>1 DEF InstStep, Install, InstallRing, InstallAlloc, InstallAction, InstallFlag,
               Uninstall, Shutdown, Start, StartRing, StartAlloc, RingCheck, RingAlloc,
               handVars, dumpVars
  <2> QED
    BY <2>1 DEF SetStep, SetDetach, SetData, SetCallback, handVars, dumpVars
<1>2. CASE victim = None
  <2>1. hpc = "none"
    BY <1>2 DEF ActionAgrees
  <2> QED
    BY <1>1, <1>2, <2>1 DEF DumpAgrees
<1>3. CASE victim # None /\ ~NewRing
  <2>1. UNCHANGED ringVars
    <3>1. CASE InstStep(t)
      BY <1>3, <3>1 DEF InstStep, Install, InstallRing, InstallAlloc, InstallAction,
                 InstallFlag, Uninstall, Shutdown, Start, StartRing, StartAlloc,
                 RingCheck, RingAlloc
    <3> QED
      BY <3>1 DEF SetStep, SetDetach, SetData, SetCallback
  <2> QED
    BY <1>1, <2>1, DumpFrame
<1>4. CASE victim # None /\ NewRing
  <2>1. ~inited /\ inited' = TRUE /\ head' = 0 /\ count' = 0 /\ rlock' = None
    BY <1>4, NewRingIsFirst DEF NewRing
  <2>2. due = <<>> /\ hpc \notin {"dump", "slots"}
    BY <1>4, <2>1 DEF DumpAgrees
  <2>3. Len(due') = 0
    BY <1>1, <2>2
  <2>4. FewLate' => late = 0
    BY <1>1, <2>3 DEF FewLate, CrashTypeOK
  <2>5. late = 0 => Dumping(0, 0, 0)'
    <3>1. ~Pushing("count")'
      BY <2>1 DEF Pushing
    <3>2. Wrap(0 + 0) = 0 /\ AtMost(0 + 0) = 0 /\ 1..Len(due') = {}
      BY <2>3, <1>n DEF Wrap, AtMost
    <3>3. late = 0 => Moved(0, 0, 0)'
      BY <1>1, <2>1, <2>3, <3>1, <3>2 DEF Moved
    <3> QED
      BY <1>1, <2>2, <3>3 DEF Dumping
  <2>6. 0 \in Slots /\ (late = 0 => 0 \in 0..late')
    BY <1>1, <1>n DEF Slots
  <2> QED
    BY <1>1, <2>1, <2>2, <2>3, <2>4, <2>5, <2>6, <1>n DEF DumpAgrees, Lost, Shown, AsEntry
<1> QED
  BY <1>2, <1>3, <1>4

\* The entry of a line.
LEMMA EntryIs == \A l : AsEntry(l).text = l /\ AsEntry(l).len = l
BY DEF AsEntry

\* The dump reads the slots one by one.
LEMMA DumpGoesOn ==
    ASSUME CrashTypeOK, LocalsAgree, Len(due) <= Cap, FewLate, DumpLen \/ DumpText,
           NEW h \in Slots, NEW a \in 0..late, NEW b \in 0..late, Dumping(h, a, b)
    PROVE  Dumping(h, a, b)'
<1>t. HandTypes /\ RingTypes
  BY Types
<1>n. Cap \in Nat /\ Cap > 0
  BY CrashAssumption
<1> DEFINE n == Len(due)
<1>d. n \in 0..Cap /\ late \in Nat /\ slot \in Nat /\ \A k \in 1..n : due[k] \in 1..MaxPushes
  BY DueIs, <1>n, <1>t DEF HandTypes
<1>1. UNCHANGED <<head, count, ring, rlock, ppc, due, late, hpc, hseen, cseen>> /\ hpc = "slots"
  BY DEF DumpLen, DumpText, Outside, ringVars
<1>2. Moved(h, a, b)' /\ SeenHead(h, a)' /\ SeenCount(b)'
  BY <1>1 DEF Dumping, Moved, Home, AsEntry, Pushing, SeenHead, SeenCount, Wrap, AtMost
<1>3. hseen # -1 /\ cseen # -1 /\ Passed(h) /\ InOrder
  BY <1>1 DEF Dumping
<1>4. slot < Cap
  <2>1. CASE DumpLen
    BY <2>1, <1>n, <1>t DEF DumpLen, RingTypes, HandTypes
  <2>2. CASE DumpText
    BY <2>2 DEF DumpText, LocalsAgree
  <2> QED
    BY <2>1, <2>2
<1>5. Index = Wrap(Wrap(hseen - cseen) + slot) /\ slot \in Slots
  BY <1>3, <1>4, IndexIs
<1>6. \A k \in 1..n : k > late => ring[Home(h, k)] = AsEntry(due[k])
  BY DEF Dumping, Moved
<1>7. \A k \in 1..n : Home(h, k)' = Home(h, k)
  BY <1>1 DEF Home
\* Without late pushes slot by slot is line by line.
<1>8. ASSUME late = 0
      PROVE  /\ count = n
             /\ \A i \in 0..(n - 1) : i = slot => Index = Home(h, slot + 1)
  <2>1. a = 0 /\ b = 0 /\ \A x \in 0..a : x = 0
    BY <1>8
  <2>2. count = n
    BY <2>1, <1>d, <1>n DEF Dumping, Moved, AtMost
  <2>3. hseen = Wrap(h + 0) /\ cseen = AtMost(n + 0)
    BY <2>1, <1>1, <1>3 DEF Dumping, SeenHead, SeenCount
  <2>4. hseen = h /\ cseen = n
    BY <2>3, <1>d, <1>n DEF Wrap, AtMost, Slots
  <2>5. \A i \in 0..(n - 1) : Wrap(Wrap(h - n) + i) = Wrap(h - n - 1 + (i + 1))
    BY <1>d, FirstIsRead
  <2> QED
    BY <2>2, <2>4, <2>5, <1>5 DEF Home
<1>9. CASE DumpLen
  <2>1. len = -1 /\ len' = ring[Index].len /\ UNCHANGED <<slot, out>> /\ slot < count
    BY <1>9 DEF DumpLen
  <2>2. Passed(h)'
    <3>1. ASSUME NEW i \in Slots, NEW k \in 1..n, k > late,
                 Wrap(Wrap(hseen - cseen) + i) = Home(h, k)
          PROVE  (i < slot => Shown(due[k])) /\ (i = slot => len' = due[k])
      <4>1. i < slot => Shown(due[k])
        BY <3>1, <1>3 DEF Passed
      <4>2. ASSUME i = slot PROVE len' = due[k]
        <5>1. ring[Index] = AsEntry(due[k])
          BY <3>1, <4>2, <1>5, <1>6
        <5> QED
          BY <2>1, <5>1, EntryIs
      <4> QED
        BY <4>1, <4>2
    <3> QED
      BY <3>1, <2>1, <1>1, <1>7 DEF Passed, Shown, AsEntry, Wrap
  <2>3. InOrder'
    <3>1. ASSUME late = 0
          PROVE  slot < n /\ len' = due[slot + 1]
      <4>1. slot < n /\ slot \in 0..(n - 1)
        BY <2>1, <3>1, <1>8, <1>d
      <4>2. Index = Home(h, slot + 1) /\ slot + 1 \in 1..n /\ slot + 1 > late
        BY <3>1, <4>1, <1>8, <1>d
      <4> QED
        <5>1. ring[Index] = AsEntry(due[slot + 1])
          BY <4>2, <1>6
        <5> QED
          BY <2>1, <4>1, <5>1, EntryIs
    <3> QED
      BY <2>1, <3>1, <1>1, <1>3 DEF InOrder, AsEntry
  <2> QED
    BY <1>1, <1>2, <1>3, <2>2, <2>3 DEF Dumping
<1>10. CASE DumpText
  <2> DEFINE e == [text |-> ring[Index].text, len |-> len]
  <2>1. len # -1 /\ len' = -1 /\ slot' = slot + 1
        /\ out' = (IF len = 0 THEN out ELSE Append(out, e))
    BY <1>10 DEF DumpText
  <2>2. Index \in Slots
    BY IndexIn
  <2>3. e \in [text : 0..MaxPushes, len : 0..MaxPushes]
    BY <2>1, <2>2, <1>t DEF HandTypes, RingTypes
  <2>4. out \in Seq([text : 0..MaxPushes, len : 0..MaxPushes])
    BY <1>t DEF HandTypes
  <2>5. \A l : Shown(l) => Shown(l)'
    BY <2>1, <2>3, ShownStays
  <2>6. ASSUME len # 0 PROVE \E j \in DOMAIN out' : out'[j] = e
    <3> DEFINE E == [text : 0..MaxPushes, len : 0..MaxPushes]
    <3>1. out \in Seq(E) /\ e \in E
      BY <2>3, <2>4
    <3>2. out' = Append(out, e)
      BY <2>1, <2>6
    <3> HIDE DEF E, e
    <3>3. out'[Len(out) + 1] = e /\ Len(out') = Len(out) + 1 /\ out' \in Seq(E)
      BY <3>1, <3>2, AppendProperties
    <3> QED
      BY <3>1, <3>3, LenProperties
  <2>7. ASSUME NEW i \in Slots, NEW k \in 1..n, k > late,
               Wrap(Wrap(hseen - cseen) + i) = Home(h, k), i < slot + 1
        PROVE  \E j \in DOMAIN out' : out'[j] = AsEntry(due[k])
    <3>1. CASE i < slot
      <4>1. Shown(due[k])
        BY <2>7, <3>1, <1>3 DEF Passed
      <4>2. PICK l : l = due[k]
        OBVIOUS
      <4>3. Shown(l)'
        BY <4>1, <4>2, <2>5
      <4> QED
        BY <4>2, <4>3 DEF Shown, AsEntry
    <3>2. CASE i = slot
      <4>1. len = due[k] /\ len # 0
        BY <2>1, <2>7, <3>2, <1>3, <1>d DEF Passed
      <4>2. ring[Index] = AsEntry(due[k])
        BY <2>7, <3>2, <1>5, <1>6
      <4>3. e = AsEntry(due[k])
        BY <4>1, <4>2, EntryIs DEF AsEntry
      <4> QED
        BY <4>1, <4>3, <2>6
    <3> QED
      BY <2>7, <3>1, <3>2, <1>d, <1>n DEF Slots
  <2>8. Passed(h)'
    BY <2>1, <2>7, <1>1, <1>7 DEF Passed, Shown, AsEntry, Wrap
  <2>9. InOrder'
    <3>1. ASSUME late = 0
          PROVE  slot + 1 <= n /\ out' = [k \in 1..(slot + 1) |-> AsEntry(due[k])]
      <4>1. slot < n /\ len = due[slot + 1] /\ out = [k \in 1..slot |-> AsEntry(due[k])]
        BY <2>1, <3>1, <1>3 DEF InOrder
      <4>2. slot \in 0..(n - 1) /\ slot + 1 \in 1..n /\ slot + 1 > late
        BY <3>1, <4>1, <1>d
      <4>3. Index = Home(h, slot + 1)
        BY <3>1, <4>2, <1>8
      <4>4. ring[Index] = AsEntry(due[slot + 1]) /\ len # 0
        BY <4>1, <4>2, <4>3, <1>6, <1>d
      <4>5. e = AsEntry(due[slot + 1]) /\ out' = Append(out, e)
        <5>1. ring[Index].text = due[slot + 1]
          BY <4>4, EntryIs
        <5>2. e = AsEntry(due[slot + 1])
          BY <4>1, <5>1 DEF AsEntry
        <5> QED
          BY <2>1, <4>4, <5>2
      <4>6. out' = [k \in 1..(slot + 1) |-> AsEntry(due[k])]
        <5> DEFINE E == [text : 0..MaxPushes, len : 0..MaxPushes]
                   f == [k \in 1..(slot + 1) |-> AsEntry(due[k])]
        <5>1. out \in Seq(E) /\ e \in E
          BY <2>3, <2>4
        <5>2. Len(out) = slot /\ \A k \in 1..slot : out[k] = AsEntry(due[k])
          BY <4>1, <1>d
        <5>3. out' = Append(out, e)
          BY <4>5
        <5>4. e = AsEntry(due[slot + 1])
          BY <4>5
        <5> HIDE DEF E, e
        <5>5. out' \in Seq(E) /\ Len(out') = slot + 1 /\ out'[slot + 1] = e
              /\ \A k \in 1..slot : out'[k] = out[k]
          BY <5>1, <5>2, <5>3, AppendProperties
        <5>6. DOMAIN out' = 1..(slot + 1) /\ \A k \in 1..(slot + 1) : out'[k] = f[k]
          BY <5>2, <5>4, <5>5, <1>d, LenProperties
        <5> QED
          BY <5>5, <5>6
      <4> QED
        BY <4>2, <4>6, <1>d
    <3> QED
      BY <2>1, <3>1, <1>1 DEF InOrder, AsEntry
  <2> QED
    BY <1>1, <1>2, <1>3, <2>8, <2>9 DEF Dumping
<1> QED
  BY <1>9, <1>10

\* At the end every line but the oldest late ones is in the report.
LEMMA DumpIsComplete ==
    ASSUME CrashTypeOK, Len(due) <= Cap, FewLate, DumpEnd,
           NEW h \in Slots, NEW a \in 0..late, NEW b \in 0..late, Dumping(h, a, b)
    PROVE  /\ Lost \subseteq 1..late
           /\ late = 0 => out = [k \in DOMAIN due |-> AsEntry(due[k])]
<1>t. HandTypes /\ RingTypes
  BY Types
<1>n. Cap \in Nat /\ Cap > 0
  BY CrashAssumption
<1> DEFINE n == Len(due)
<1>d. n \in 0..Cap /\ late \in Nat /\ slot \in Nat /\ DOMAIN due = 1..n
  BY DueIs, <1>n, <1>t DEF HandTypes
<1>1. hpc = "slots" /\ len = -1 /\ slot >= count
  BY DEF DumpEnd
<1>2. /\ hseen # -1 /\ cseen # -1 /\ Passed(h) /\ InOrder /\ SeenHead(h, a) /\ SeenCount(b)
      /\ count = AtMost(n + b)
  BY <1>1 DEF Dumping, Moved
<1>3. PICK d \in 0..a : hseen = Wrap(h + d)
  BY <1>2 DEF SeenHead
<1>4. PICK e \in 0..b : cseen = AtMost(n + e)
  BY <1>2 DEF SeenCount
<1>5. d \in Nat /\ d <= late /\ e \in Nat /\ b \in Nat /\ e <= b
  BY <1>d
<1>6. ASSUME NEW k \in 1..n, k > late
      PROVE  Shown(due[k])
  <2>1. d < k
    BY <1>5, <1>6, <1>d
  <2>2. PICK i \in Slots : i < AtMost(n + b)
             /\ Wrap(Wrap(Wrap(h + d) - AtMost(n + e)) + i) = Wrap(h - n - 1 + k)
    <3> HIDE DEF n
    <3>1. /\ n \in 0..Cap /\ k \in 1..n /\ d \in Nat /\ d < k
          /\ e \in Nat /\ b \in Nat /\ e <= b
      BY <1>5, <1>d, <2>1
    <3>2. IsRead(h, n, k, d, e, b)
      BY <3>1, HomeIsRead
    <3> QED
      BY <3>2 DEF IsRead
  <2>3. i < slot
    BY <2>2, <1>1, <1>2, <1>d, <1>n, <1>t DEF RingTypes, Slots
  <2> QED
    BY <1>2, <1>3, <1>4, <1>6, <2>2, <2>3 DEF Passed, Home
<1>7. Lost \subseteq 1..late
  BY <1>6, <1>d DEF Lost
<1>8. ASSUME late = 0
      PROVE  out = [k \in DOMAIN due |-> AsEntry(due[k])]
  <2>1. slot <= n /\ out = [k \in 1..slot |-> AsEntry(due[k])]
    BY <1>2, <1>8 DEF InOrder
  <2>2. count = n
    <3>1. b = 0
      BY <1>8
    <3>2. count = AtMost(n)
      BY <1>2, <3>1, <1>d, <1>n
    <3> HIDE DEF n
    <3> QED
      BY <3>2, <1>d, <1>n DEF AtMost
  <2>3. slot = n
    BY <2>1, <2>2, <1>1, <1>d
  <2> QED
    BY <2>1, <2>3, <1>d
<1> QED
  BY <1>7, <1>8

\* A dump that has read nothing yet.
LEMMA DumpStarts ==
    ASSUME CrashTypeOK, NEW h, slot' = 0, len' = -1, out' = <<>>, due' = due
    PROVE  Passed(h)' /\ InOrder'
<1>1. Len(due) \in Nat
  BY DueIs
<1>2. \A i \in Slots : ~(i < 0)
  BY CrashAssumption DEF Slots
<1>3. 1..0 = {}
  OBVIOUS
<1> QED
  BY <1>1, <1>2, <1>3 DEF Passed, InOrder

\* The steps of the handler keep what is known of the dump.
LEMMA DumpKeptByHandler ==
    ASSUME CrashTypeOK, LocalsAgree, ActionAgrees, DumpAgrees, HandStep
    PROVE  DumpAgrees'
<1>t. HandTypes /\ RingTypes
  BY Types
<1>n. Cap \in Nat /\ Cap > 0
  BY CrashAssumption
<1>1. UNCHANGED <<ring, head, count, inited, rlock, ppc, victim, due, late>>
  BY DEF HandStep, Open, DumpHead, DumpCount, DumpLen, DumpText, DumpEnd,
         ReadCallback, CallCallback, Restore, Raise, Outside, ringVars
<1>2. victim # None /\ Len(due) <= Cap /\ (FewLate' <=> FewLate)
  <2>1. hpc # "none"
    BY DEF HandStep, Open, DumpHead, DumpCount, DumpLen, DumpText, DumpEnd,
           ReadCallback, CallCallback, Restore, Raise
  <2> QED
    BY <2>1, <1>1 DEF ActionAgrees, DumpAgrees, FewLate
<1>3. \A h, a, b : Moved(h, a, b)' <=> Moved(h, a, b)
  BY <1>1 DEF Moved, Home, AsEntry, Wrap, AtMost, Pushing
<1>4. ASSUME hpc \in {"open", "dump", "slots"}, inited, FewLate
      PROVE  \E h \in Slots, a, b \in 0..late : Dumping(h, a, b)
  BY <1>4 DEF DumpAgrees
<1>5. ASSUME hpc' \notin {"open", "dump", "slots", "cb", "ud"}
      PROVE  DumpAgrees'
  BY <1>1, <1>2, <1>5 DEF DumpAgrees
<1>6. CASE Open
  <2>1. hseen' = -1 /\ cseen' = -1 /\ slot' = 0 /\ len' = -1 /\ out' = <<>> /\ hpc = "open"
    BY <1>6 DEF Open
  <2>2. CASE hpc' = "restore"
    BY <2>2, <1>5
  <2>3. CASE inited /\ hpc' = "dump"
    <3>1. ASSUME NEW h \in Slots, NEW a \in 0..late, NEW b \in 0..late, Dumping(h, a, b)
          PROVE  Dumping(h, a, b)'
      <4>1. Moved(h, a, b)'
        BY <3>1, <1>3 DEF Dumping
      <4> QED
        BY <4>1, <2>1, <2>3 DEF Dumping, SeenHead, SeenCount
    <3>2. FewLate => \E h \in Slots, a, b \in 0..late' : Dumping(h, a, b)'
      BY <2>1, <2>3, <3>1, <1>4, <1>1
    <3> QED
      BY <2>3, <3>2, <1>1, <1>2 DEF DumpAgrees
  <2>4. CASE ~inited /\ hpc' = "cb"
    <3>1. due' = <<>> /\ out' = <<>>
      BY <2>1, <2>4, <1>1, <1>2 DEF DumpAgrees
    <3>2. DOMAIN due' = {}
      BY <3>1
    <3>3. Lost' = {} /\ out' = [k \in DOMAIN due' |-> AsEntry(due'[k])]
      BY <3>1, <3>2 DEF Lost
    <3> QED
      BY <2>4, <3>1, <3>3, <1>1, <1>2, <1>n DEF DumpAgrees, AsEntry
  <2> QED
    BY <1>6, <2>2, <2>3, <2>4 DEF Open
<1>7. CASE DumpHead
  <2>1. hpc = "dump" /\ hseen = -1 /\ hseen' = head
        /\ UNCHANGED <<cseen, slot, len, out>>
        /\ hpc' = (IF cseen = -1 THEN "dump" ELSE "slots")
    BY <1>7 DEF DumpHead
  <2>2. head # -1
    BY <1>t, <1>n DEF RingTypes, Slots
  <2>3. ASSUME NEW h \in Slots, NEW a \in 0..late, NEW b \in 0..late, Dumping(h, a, b)
        PROVE  Dumping(h, a, b)'
    <3>1. Moved(h, a, b)' /\ head = Wrap(h + a)
      BY <2>3, <1>3 DEF Dumping, Moved
    <3>2. a \in 0..a
      BY <1>t DEF HandTypes
    <3>3. SeenHead(h, a)'
      BY <2>1, <3>1, <3>2 DEF SeenHead, Wrap
    <3>4. SeenCount(b)'
      BY <2>1, <2>3, <1>1 DEF Dumping, SeenCount, AtMost
    <3>5. slot = 0 /\ len = -1 /\ out = <<>>
      BY <2>1, <2>3 DEF Dumping
    <3>6. Passed(h)' /\ InOrder'
      BY <2>1, <3>5, <1>1, DumpStarts
    <3> QED
      BY <2>1, <2>2, <3>1, <3>3, <3>4, <3>5, <3>6 DEF Dumping
  <2>4. inited
    BY <2>1 DEF DumpAgrees
  <2>5. FewLate => \E h \in Slots, a, b \in 0..late' : Dumping(h, a, b)'
    BY <2>1, <2>3, <2>4, <1>4, <1>1
  <2> QED
    BY <2>1, <2>4, <2>5, <1>1, <1>2 DEF DumpAgrees
<1>8. CASE DumpCount
  <2>1. hpc = "dump" /\ cseen = -1 /\ cseen' = count
        /\ UNCHANGED <<hseen, slot, len, out>>
        /\ hpc' = (IF hseen = -1 THEN "dump" ELSE "slots")
    BY <1>8 DEF DumpCount
  <2>2. count # -1
    BY <1>t, <1>n DEF RingTypes
  <2>3. ASSUME NEW h \in Slots, NEW a \in 0..late, NEW b \in 0..late, Dumping(h, a, b)
        PROVE  Dumping(h, a, b)'
    <3>1. Moved(h, a, b)' /\ count = AtMost(Len(due) + b)
      BY <2>3, <1>3 DEF Dumping, Moved
    <3>2. b \in 0..b
      BY <1>t DEF HandTypes
    <3>3. SeenCount(b)'
      BY <2>1, <3>1, <3>2, <1>1 DEF SeenCount, AtMost
    <3>4. SeenHead(h, a)'
      BY <2>1, <2>3 DEF Dumping, SeenHead, Wrap
    <3>5. slot = 0 /\ len = -1 /\ out = <<>>
      BY <2>1, <2>3 DEF Dumping
    <3>6. Passed(h)' /\ InOrder'
      BY <2>1, <3>5, <1>1, DumpStarts
    <3> QED
      BY <2>1, <2>2, <3>1, <3>3, <3>4, <3>5, <3>6 DEF Dumping
  <2>4. inited
    BY <2>1 DEF DumpAgrees
  <2>5. FewLate => \E h \in Slots, a, b \in 0..late' : Dumping(h, a, b)'
    BY <2>1, <2>3, <2>4, <1>4, <1>1
  <2> QED
    BY <2>1, <2>4, <2>5, <1>1, <1>2 DEF DumpAgrees
<1>9. CASE DumpLen \/ DumpText
  <2>1. hpc = "slots" /\ hpc' = hpc /\ inited
    BY <1>9 DEF DumpLen, DumpText, DumpAgrees
  <2>2. FewLate => \E h \in Slots, a, b \in 0..late : Dumping(h, a, b)'
    BY <2>1, <1>2, <1>4, <1>9, DumpGoesOn
  <2> QED
    BY <2>1, <2>2, <1>1, <1>2 DEF DumpAgrees
<1>10. CASE DumpEnd
  <2>1. hpc = "slots" /\ hpc' = "cb" /\ inited /\ UNCHANGED out
    BY <1>10 DEF DumpEnd, dumpVars, DumpAgrees
  <2>2. CASE FewLate
    <3>1. PICK h \in Slots, a \in 0..late, b \in 0..late : Dumping(h, a, b)
      BY <2>1, <2>2, <1>4
    <3>2. Lost \subseteq 1..late /\ (late = 0 => out = [k \in DOMAIN due |-> AsEntry(due[k])])
      BY <2>2, <3>1, <1>2, <1>10, DumpIsComplete
    <3> QED
      BY <2>1, <3>2, <1>1, <1>2 DEF DumpAgrees, Lost, Shown, AsEntry
  <2>3. CASE ~FewLate
    <3>1. late # 0 /\ Lost \subseteq 1..late
      BY <2>3, <1>t, DueIs DEF FewLate, Lost, HandTypes
    <3> QED
      BY <2>1, <3>1, <1>1, <1>2 DEF DumpAgrees, Lost, Shown, AsEntry
  <2> QED
    BY <2>2, <2>3
<1>11. CASE ReadCallback
  <2>1. hpc = "cb" /\ hpc' = "ud" /\ UNCHANGED out
    BY <1>11 DEF ReadCallback, dumpVars
  <2> QED
    BY <2>1, <1>1, <1>2 DEF DumpAgrees, Lost, Shown, AsEntry
<1>12. CASE CallCallback \/ Restore
  BY <1>12, <1>5 DEF CallCallback, Restore
<1>13. CASE Raise
  <2>1. act # "hx"
    BY <1>13 DEF Raise, ActionAgrees, Restored
  <2>2. hpc' = "gone"
    BY <1>13, <2>1 DEF Raise
  <2> QED
    BY <2>2, <1>5
<1> QED
  BY <1>6, <1>7, <1>8, <1>9, <1>10, <1>11, <1>12, <1>13 DEF HandStep

\* The crash establishes what is known of the dump.
LEMMA DumpKeptByCrash ==
    ASSUME CrashTypeOK, NoRing, LockAgrees, RingHolds, NEW t \in Thread, Crash(t)
    PROVE  DumpAgrees'
<1>1. /\ Len(due') <= Cap /\ hpc' \in {"open", "gone"} /\ (~inited' => due' = <<>>)
      /\ \E h \in Slots, a, b \in 0..late' : Moved(h, a, b)'
  BY CrashBegins
<1>2. hpc' = "open" => \E h \in Slots, a, b \in 0..late' : Dumping(h, a, b)'
  BY <1>1 DEF Dumping
<1> QED
  BY <1>1, <1>2 DEF DumpAgrees

-----------------------------------------------------------------------------
(***************************************************************************)
(* The inductive invariant and the theorems.                               *)
(***************************************************************************)
CalmAgrees == LockAgrees /\ (victim = None => RingHolds) /\ DumpAgrees

\* The invariant holds at the start.
LEMMA CrashStarts ==
    ASSUME CrashInit
    PROVE  CrashInv
<1>n. Cap \in Nat /\ Cap > 0 /\ MaxPushes \in Nat /\ MaxApi \in Nat /\ None \notin Thread
  BY CrashAssumption
<1>1. CrashTypeOK
  <2>1. Empty \in [Slots -> [text : 0..MaxPushes, len : 0..MaxPushes]] /\ 0 \in Slots
    BY <1>n DEF Empty, Slots
  <2>2. RingTypes /\ RingFlags
    <3>1. RingFlags
      BY DEF CrashInit, RingFlags
    <3>2. RingTypes
      BY <2>1, <1>n DEF CrashInit, RingTypes
    <3> QED
      BY <3>1, <3>2
  <2>3. InstTypes
    BY DEF CrashInit, InstTypes, Action
  <2>4. InstFlags
    BY DEF CrashInit, InstFlags
  <2>5. PairTypes /\ PairFlag
    BY DEF CrashInit, PairTypes, PairFlag
  <2>6. HandTypes
    BY <1>n DEF CrashInit, HandTypes
  <2> QED
    BY <2>2, <2>3, <2>4, <2>5, <2>6, Types
<1>2. LocalsAgree /\ NoRing /\ PairAgrees /\ CallbackPairKept
  BY DEF CrashInit, LocalsAgree, NoRing, PairAgrees, NoHandler, OneSetter,
         CallbackPairKept
<1>3. OneInstall /\ ActionAgrees /\ LockAgrees
  BY <1>n DEF CrashInit, OneInstall, Installing, ActionAgrees, HandlerPcs, LockAgrees, Inside
<1>4. RingHolds
  BY <1>n DEF CrashInit, RingHolds, AtMost, Pushing
<1>5. DumpAgrees
  BY DEF CrashInit, DumpAgrees
<1> QED
  BY <1>1, <1>2, <1>3, <1>4, <1>5 DEF CrashInv

\* Every step keeps the invariant.
LEMMA CrashKept ==
    ASSUME CrashInv, [CrashNext]_crashVars
    PROVE  CrashInv'
<1>1. CrashTypeOK /\ LocalsAgree /\ NoRing /\ PairAgrees /\ CallbackPairKept
      /\ (~clash => OneInstall /\ ActionAgrees) /\ (~clash /\ ~remade => CalmAgrees)
  BY DEF CrashInv, CalmAgrees
<1>2. CrashTypeOK'
  <2>1. RingTypes' /\ RingFlags'
    BY <1>1, RingTypesKept
  <2>2. InstTypes' /\ InstFlags'
    BY <1>1, InstTypesKept
  <2>3. PairTypes' /\ PairFlag'
    BY <1>1, PairTypesKept
  <2>4. HandTypes'
    BY <1>1, HandTypesKept
  <2> QED
    BY <2>1, <2>2, <2>3, <2>4 DEF CrashTypeOK, RingFlags, RingTypes, InstTypes, InstFlags,
       PairTypes, PairFlag, HandTypes
<1>3. LocalsAgree' /\ NoRing' /\ PairAgrees' /\ CallbackPairKept'
  BY <1>1, LocalsKept, NoRingKept, PairKept
<1>4. ASSUME ~clash'
      PROVE  OneInstall /\ ActionAgrees /\ OneInstall' /\ ActionAgrees'
  <2>1. OneInstall /\ ActionAgrees
    BY <1>1, <1>4, ClashStays
  <2> QED
    BY <1>1, <1>4, <2>1, OneInstallKept, ActionKept
<1>5. ASSUME ~clash', ~remade'
      PROVE  CalmAgrees'
  <2>1. CalmAgrees /\ OneInstall /\ ActionAgrees
    BY <1>1, <1>4, <1>5, ClashStays, RemadeStays
  <2>2. LockAgrees'
    BY <1>1, <1>5, <2>1, LockKept DEF CalmAgrees
  <2>3. victim' = None => victim = None
    <3>1. ASSUME victim # None, victim' = None
          PROVE  FALSE
      <4>1. UNCHANGED victim \/ \E t \in Thread : Crash(t)
        BY VictimStays
      <4> QED
        BY <3>1, <4>1 DEF Crash
    <3> QED
      BY <3>1
  <2>4. victim' = None => RingHolds'
    BY <1>1, <1>5, <2>1, <2>3, RingHoldsKept DEF CalmAgrees
  <2>5. DumpAgrees'
    <3>1. ASSUME NEW t \in Thread, Crash(t)
          PROVE  DumpAgrees'
      <4>1. victim = None
        BY <3>1 DEF Crash
      <4> QED
        BY <3>1, <4>1, <1>1, <2>1, DumpKeptByCrash DEF CalmAgrees
    <3>2. ASSUME NEW t \in Thread, PushStep(t)
          PROVE  DumpAgrees'
      BY <3>2, <1>1, <2>1, DumpKeptByPush DEF CalmAgrees
    <3>3. ASSUME NEW t \in Thread, InstStep(t) \/ SetStep(t)
          PROVE  DumpAgrees'
      BY <3>3, <1>1, <1>5, <2>1, DumpKeptByOthers DEF CalmAgrees
    <3>4. CASE HandStep
      BY <3>4, <1>1, <2>1, DumpKeptByHandler DEF CalmAgrees
    <3>5. CASE UNCHANGED crashVars
      <4>1. UNCHANGED <<victim, hpc, hseen, cseen, slot, len, out, due, late>>
            /\ UNCHANGED ringVars
        BY <3>5 DEF crashVars, handVars, dumpVars
      <4> QED
        BY <4>1, <2>1, DumpFrame DEF CalmAgrees
    <3> QED
      BY <3>1, <3>2, <3>3, <3>4, <3>5, StepCases
  <2> QED
    BY <2>2, <2>4, <2>5 DEF CalmAgrees
<1> QED
  BY <1>2, <1>3, <1>4, <1>5 DEF CrashInv, CalmAgrees

\* The inductive invariant.
THEOREM CrashInvariant == CrashSpec => []CrashInv
<1>1. CrashInit => CrashInv
  BY CrashStarts
<1>2. CrashInv /\ [CrashNext]_crashVars => CrashInv'
  BY CrashKept
<1> QED
  BY <1>1, <1>2, PTL DEF CrashSpec

\* Every variable has its type: no index leaves the ring, neither the head's,
\* nor that of a dump that reads head and count without the lock (hx_ring_push,
\* hx_ring_dump_fd).
THEOREM CrashTypeCorrect == CrashSpec => []CrashTypeOK
<1>1. CrashInv => CrashTypeOK
  BY DEF CrashInv
<1> QED
  BY <1>1, CrashInvariant, PTL

\* The crash callback is called with the user data it was set with, unless that
\* is replaced between the handler's two reads, or the callback was last set by
\* overlapping calls (hx_clog_set_crash_callback, hx_crash_get_callback).
THEOREM CallbackHasItsData == CrashSpec => []CallbackPairKept
<1>1. CrashInv => CallbackPairKept
  BY DEF CrashInv
<1> QED
  BY <1>1, CrashInvariant, PTL

\* Unless installs overlap, a crash makes one report and the process ends by
\* the action that the application had before the install, or by the default
\* one without chaining (hx_clog_install_crash_handler, posix_handler).
THEOREM PreviousActionComesLast == CrashSpec => []PreviousActionEndsIt
<1>1. CrashInv => PreviousActionEndsIt
  <2>1. SUFFICES ASSUME CrashTypeOK, ActionAgrees
                 PROVE  /\ runs <= 1
                        /\ runs = 1 /\ hpc = "gone" /\ chain => fate = "app"
                        /\ runs = 1 /\ hpc = "gone" /\ ~chain => fate = "dfl"
    BY DEF CrashInv, PreviousActionEndsIt
  <2>2. hpc \in HandlerPcs \cup {"none", "raise", "gone"}
    BY <2>1 DEF CrashTypeOK, HandlerPcs
  <2>3. runs <= 1
    BY <2>1, <2>2 DEF ActionAgrees, CrashTypeOK
  <2>4. runs = 1 /\ hpc = "gone" => fate = Restored("app")
    BY <2>1 DEF ActionAgrees
  <2> QED
    BY <2>3, <2>4 DEF Restored
<1> QED
  BY <1>1, CrashInvariant, PTL

\* The report has the last lines pushed before the crash, though the handler
\* reads the ring without its lock while the other threads log on: each push
\* under way costs at most one line, and without one the report is the ring line
\* by line.  Overlapping installs and a ring reset by hx_ring_init are excepted
\* (hx_ring_push, hx_ring_dump_fd).
THEOREM ReportHasLastLines == CrashSpec => []LastLinesReported
<1>1. CrashInv => LastLinesReported
  <2>1. SUFFICES ASSUME CrashInv, hpc \in {"cb", "ud"}, ~clash, ~remade
                 PROVE  /\ Cardinality(Lost) <= late
                        /\ late = 0 => out = [k \in DOMAIN due |-> AsEntry(due[k])]
    BY DEF LastLinesReported
  <2>2. /\ Lost \subseteq 1..late
        /\ late = 0 => out = [k \in DOMAIN due |-> AsEntry(due[k])]
    BY <2>1 DEF CrashInv, DumpAgrees
  <2>3. late \in Nat
    BY <2>1 DEF CrashInv, CrashTypeOK
  <2>4. IsFiniteSet(1..late) /\ Cardinality(1..late) = late
    BY <2>3, FS_Interval
  <2>5. Cardinality(Lost) <= Cardinality(1..late)
    BY <2>2, <2>4, FS_Subset
  <2> QED
    BY <2>2, <2>4, <2>5
<1> QED
  BY <1>1, CrashInvariant, PTL
=============================================================================
