--------------------------- MODULE HxRotateProofs ---------------------------
(***************************************************************************)
(* Theorems about the rotating file sink: for any configurations, any      *)
(* number of lines, creations and faults, any clock and any length of a    *)
(* day, no line that reached a file is lost except to retention, archives  *)
(* are named in the order they were written, the size by which the sink    *)
(* decides to rotate is that of its file, which stays in its limit, and    *)
(* without faults retention by count spares the newest archives.           *)
(***************************************************************************)
EXTENDS HxRotate, FiniteSetTheorems, WellFoundedInduction, TLAPS

-----------------------------------------------------------------------------
(***************************************************************************)
(* The inductive invariant, in parts.                                      *)
(***************************************************************************)
Cleaning == {"age", "compress", "gzip", "gzdone", "cap"}
Rotating == {"rename", "reopen", "open", "collect"} \cup Cleaning
Archives(d) == {f \in DOMAIN d : f.kind \in {"plain", "gz"}}

\* What the operations hold besides TypeOK.
LocalsOK ==
    /\ rot \in [ts : Nat, to : Name \cup {Closed}, forced : BOOLEAN]
    /\ batch \in [todo : SUBSET Name, gzs : SUBSET Name, excess : Int]

\* Where the file is open, and which file it is.
OpenAgrees ==
    /\ pc \in {"down", "rollover", "rename", "reopen", "open"} => fp = Closed
    /\ fp # Closed => fp \in {Active(active_dir), Moved}
    /\ starts = 0 => pc = "down" /\ DOMAIN disk = {}

\* The line being written is new while its write goes on, and the buffer
\* holds later lines than the files.
LinesOrdered ==
    /\ pc \in {"append", "rollover"} \/ (pc \in Rotating /\ ~rot.forced)
          => n > 0 /\ \A l \in flushed \cup buf : l[1] < n
    /\ \A l \in flushed, m \in buf : Before(l, m)

\* The files of d, after the lines F were flushed, at time t.
FilesOK(d, F, t) ==
    /\ DOMAIN d \subseteq Name
    /\ \A f \in DOMAIN d :
          /\ d[f].bytes \subseteq F /\ d[f].mtime \in 0..t
          /\ d[f].whole \in BOOLEAN
          /\ ~d[f].whole => f.kind = "gz" /\ d[f].bytes = {}
          /\ f.kind = "active" => f = Active(f.dir)

\* Every line of F is in a complete file of d, or in E.
KeptIn(d, F, E) ==
    \A l \in F : (\E f \in DOMAIN d : d[f].whole /\ l \in d[f].bytes) \/ l \in E
Gone == expired \cup (IF blind THEN erased ELSE {})

\* The names of archives follow the order of their lines, and the active
\* file's lines come after those of the archives beside it.
OrderIn(d) ==
    \A a \in Archives(d), b \in DOMAIN d :
       /\ a.dir = b.dir
       /\ b.kind = "active" \/ (b \in Archives(d) /\ Key(a) < Key(b))
       => \A l \in d[a].bytes, m \in d[b].bytes : Before(l, m)

\* What was compressed beside its source has no other lines.
TwinsIn(d) ==
    \A a \in DOMAIN d : a.kind = "plain" /\ Gz(a) \in DOMAIN d
                           => d[Gz(a)].bytes \subseteq d[a].bytes

\* A rotation goes to a name newer than those of the archives beside it.
NameIsNewest ==
    pc = "rename" =>
       /\ rot.to \in Name /\ rot.to.kind = "plain" /\ rot.to.dir = active_dir
       /\ ~blind => \A g \in Archives(disk) : g.dir = active_dir => Key(g) < Key(rot.to)

\* Dates: the clock never falls behind what was named or opened.
ByTime == cfg.daily \/ cfg.policy \in {"TIME", "BOTH"}
DatedBy(y) == \A g \in Archives(disk) : g.day <= y
DatesAgree ==
    /\ DatedBy(Day(now))
    /\ pc # "down" => opened_sec \in 1..now /\ cur_day = Day(opened_sec)
    /\ pc # "down" /\ (ByTime \/ pc = "force") => DatedBy(Day(opened_sec))
    /\ pc = "rename" => /\ rot.to.day <= Day(now)
                        /\ ByTime => rot.to.day <= Day(opened_sec)

\* Directories: with date_subdir no active file lies in a later one than the
\* day that was opened last.
DirsAgree ==
    /\ \A f \in DOMAIN disk : f.kind = "active" => f.dir <= Day(now)
    /\ pc # "down" /\ cfg.subdir =>
          /\ cur_day <= active_dir /\ active_dir <= Day(now)
          /\ \A f \in DOMAIN disk : f.kind = "active" => f.dir <= cur_day
    /\ pc # "down" /\ ~cfg.subdir => active_dir = 0
    /\ pc = "rollover" => cfg.subdir /\ cur_day < Day(now)
    /\ pc = "open" => ~Exists(Active(active_dir))

\* The cleanup's working set is on disk, and so is the file it writes.
BatchAgrees ==
    /\ pc \in {"age", "compress", "gzip", "gzdone"} =>
          \A f \in batch.todo : Exists(f) /\ f.kind = "plain"
    /\ pc = "age" => \A f \in batch.gzs : Exists(f) /\ f.kind = "gz"
    /\ pc \in {"gzip", "gzdone"} => batch.todo # {} /\ Exists(Gz(src))
    /\ pc = "gzip" => ~disk[Gz(src)].whole
    /\ pc = "gzdone" => disk[Gz(src)].whole /\ disk[Gz(src)].bytes = disk[src].bytes

\* current_size, at every point where a file is open.
SizeAgrees ==
    fp # Closed => current_size = Cardinality(disk[fp].bytes) + Cardinality(buf)

\* A deferred rotation is one that failed; until one has, the file is within
\* the limit and has room for the line under way, or is empty.
Underway == pc \in {"append", "collect"} \cup Cleaning
Limited  == /\ starts = 1 /\ pc # "down" /\ ~owed
            /\ cfg.policy \in {"SIZE", "BOTH"} /\ cfg.max_size > 0
OpenWithin ==
    fp # Closed => /\ Within(disk[fp].bytes \cup buf)
                   /\ Underway => \/ current_size = 0
                                  \/ current_size + incoming <= cfg.max_size
ActiveWithin == Exists(Active(active_dir)) => Within(disk[Active(active_dir)].bytes)
LimitHolds ==
    /\ pc # "down" /\ rotate_fail_sec # 0 => owed
    /\ pc = "reopen" => owed
    /\ Limited => OpenWithin /\ ActiveWithin

FilesHold == FilesOK(disk, flushed, now) /\ KeptIn(disk, flushed, Gone)
OrderHolds == ~blind => OrderIn(disk) /\ TwinsIn(disk)

RotInv ==
    /\ TypeOK /\ LocalsOK /\ OpenAgrees /\ LinesOrdered /\ FilesHold /\ OrderHolds
    /\ NameIsNewest /\ DatesAgree /\ DirsAgree /\ BatchAgrees /\ SizeAgrees
    /\ LimitHolds

-----------------------------------------------------------------------------
(***************************************************************************)
(* Numbers, dates and names.                                               *)
(***************************************************************************)

\* A nonempty set of naturals has a least element.
LEMMA NatMin ==
  ASSUME NEW S \in SUBSET Nat, S # {}
  PROVE  \E x \in S : \A y \in S : x <= y
<1> DEFINE Below(x) == 0..(x - 1)
           T == {Below(x) : x \in S}
<1>1. T \subseteq FiniteSubsetsOf(Nat) /\ T # {}
  <2>1. \A x \in S : Below(x) \subseteq Nat /\ IsFiniteSet(Below(x))
    BY FS_Interval
  <2> QED
    BY <2>1 DEF FiniteSubsetsOf
<1>2. PICK B \in T : \A C \in T : ~ (<<C, B>> \in StrictSubsetOrdering(Nat))
  BY <1>1, FS_StrictSubsetOrderingWellFounded, WFMin
<1>3. PICK x \in S : B = Below(x)
  OBVIOUS
<1>4. ASSUME NEW y \in S, y < x PROVE FALSE
  <2>1. y \in Below(x) /\ y \notin Below(y)
    BY <1>4
  <2>2. /\ Below(y) \in T /\ Below(x) \subseteq Nat
        /\ Below(y) \subseteq Below(x) /\ Below(y) # Below(x)
    BY <1>4, <2>1
  <2> QED
    BY <1>2, <1>3, <2>2 DEF StrictSubsetOrdering
<1> QED
  BY <1>4

\* A nonempty set of naturals with an upper bound has a greatest element.
LEMMA NatMax ==
  ASSUME NEW K \in Nat, NEW S \in SUBSET (0..K), S # {}
  PROVE  Max(S) \in S /\ \A y \in S : y <= Max(S)
<1> DEFINE T == {K - x : x \in S}
<1>1. T \in SUBSET Nat /\ T # {}
  <2>1. \A x \in S : x \in 0..K /\ K - x \in Nat
    OBVIOUS
  <2> QED
    BY <2>1
<1>2. PICK z \in T : \A y \in T : z <= y
  BY <1>1, NatMin
<1>3. PICK x \in S : z = K - x
  OBVIOUS
<1>4. \A y \in S : x >= y
  <2> SUFFICES ASSUME NEW y \in S PROVE x >= y
    OBVIOUS
  <2>1. z <= K - y
    BY <1>2
  <2> QED
    BY <1>3, <2>1
<1> QED
  BY <1>4 DEF Max

\* Days follow seconds.
LEMMA DayIs ==
  /\ \A s \in Nat : Day(s) \in Nat
  /\ \A s, u \in Nat : s <= u => Day(s) <= Day(u)
BY BoundsAssumption DEF Day

\* The days of the clock are days of names.
LEMMA DaysAre ==
  /\ \A s \in 0..MaxTime : Day(s) \in Days
  /\ 0 \in Days /\ Days \subseteq Nat
BY BoundsAssumption, DayIs DEF Days

\* Pairs of numbers, the second below K, are ordered by their code in base K.
LEMMA Lexicographic ==
  ASSUME NEW K \in Nat \ {0}, NEW a \in Nat, NEW b \in Nat,
         NEW x \in 0..K - 1, NEW y \in 0..K - 1
  PROVE  a * K + x < b * K + y <=> a < b \/ (a = b /\ x < y)
<1>1. CASE a = b
  BY <1>1
<1>2. CASE a < b
  <2>1. (a + 1) * K <= b * K
    BY <1>2
  <2> QED
    BY <1>2, <2>1
<1>3. CASE b < a
  <2>1. (b + 1) * K <= a * K
    BY <1>3
  <2> QED
    BY <1>3, <2>1
<1> QED
  BY <1>1, <1>2, <1>3

\* Archives are ordered by date, then by index.
LEMMA KeyOrder ==
  ASSUME NEW a \in Name, NEW b \in Name
  PROVE  /\ Key(a) \in Nat
         /\ Key(a) < Key(b) <=> a.day < b.day \/ (a.day = b.day /\ a.index < b.index)
<1> DEFINE K == MaxLines + MaxFaults + MaxStarts + 1
<1>1. K \in Nat \ {0} /\ \A f \in Name : f.day \in Nat /\ f.index \in 0..K - 1
  <2>1. Day(MaxTime) \in Nat
    BY DayIs, BoundsAssumption
  <2> QED
    BY BoundsAssumption, <2>1 DEF Name, Index, Days
<1>2. \A f \in Name : Key(f) = f.day * K + f.index
  BY DEF Key
<1>3. \A f \in Name : f.day * K \in Nat
  BY <1>1
<1> HIDE DEF K
<1>4. /\ a.day \in Nat /\ b.day \in Nat /\ a.index \in 0..K - 1 /\ b.index \in 0..K - 1
      /\ Key(a) = a.day * K + a.index /\ Key(b) = b.day * K + b.index
  BY <1>1, <1>2
<1>5. a.day * K + a.index < b.day * K + b.index
         <=> a.day < b.day \/ (a.day = b.day /\ a.index < b.index)
  <2>1. K \in Nat \ {0}
    BY <1>1
  <2>2. \A d, e \in Nat, x, y \in 0..K - 1 :
           d * K + x < e * K + y <=> d < e \/ (d = e /\ x < y)
    BY <2>1, Lexicographic
  <2>3. a.day \in Nat /\ b.day \in Nat /\ a.index \in 0..K - 1 /\ b.index \in 0..K - 1
    BY <1>4
  <2> QED
    BY <2>2, <2>3, Zenon
<1>6. Key(a) \in Nat
  <2>1. a.day * K \in Nat /\ a.index \in Nat
    BY <1>1, <1>3, <1>4
  <2>2. \A x, y \in Nat : x + y \in Nat
    OBVIOUS
  <2> QED
    BY <1>4, <2>1, <2>2
<1> QED
  BY <1>4, <1>5, <1>6, Zenon

\* The parts of the names that are built.
LEMMA NamesAre ==
  /\ \A d \in Days : Active(d) \in Name /\ Active(d).kind = "active" /\ Active(d).dir = d
  /\ \A d, y \in Days, i \in Index :
        /\ Archive(d, y, i) \in Name /\ Archive(d, y, i).kind = "plain"
        /\ Archive(d, y, i).dir = d /\ Archive(d, y, i).day = y
        /\ Archive(d, y, i).index = i
  /\ \A a \in Name : /\ Gz(a) \in Name /\ Gz(a).kind = "gz" /\ Gz(a).dir = a.dir
                     /\ Gz(a).day = a.day /\ Gz(a).index = a.index
  /\ Moved \in Name /\ Moved.kind = "moved"
  /\ Closed \notin Name /\ Closed # Moved /\ \A d : Active(d) # Closed
<1>1. 0 \in Days /\ 0 \in Index
  BY DayIs, BoundsAssumption DEF Days, Index
<1> QED
  BY <1>1 DEF Active, Archive, Gz, Moved, Closed, Name

\* The oldest of some archives is one of them, and not after any.
LEMMA OldestIs ==
  ASSUME NEW A \in SUBSET Name, A # {}
  PROVE  Oldest(A) \in A /\ \A b \in A : Key(Oldest(A)) <= Key(b)
<1> DEFINE S == {Key(a) : a \in A}
<1>1. S \in SUBSET Nat /\ S # {}
  BY KeyOrder
<1>2. PICK x \in S : \A y \in S : x <= y
  BY <1>1, NatMin
<1>3. \E a \in A : \A b \in A : Key(a) <= Key(b)
  BY <1>2
<1> QED
  BY <1>3 DEF Oldest

\* Different archives of one kind and directory have different keys.
LEMMA KeysDiffer ==
  ASSUME NEW a \in Name, NEW b \in Name, a # b, a.kind = b.kind, a.dir = b.dir
  PROVE  Key(a) < Key(b) \/ Key(b) < Key(a)
<1>1. a.day # b.day \/ a.index # b.index
  BY DEF Name
<1>2. a.day \in Nat /\ b.day \in Nat /\ a.index \in Nat /\ b.index \in Nat
  <2>1. a.day \in Days /\ b.day \in Days /\ a.index \in Index /\ b.index \in Index
    BY DEF Name
  <2>2. Days \subseteq Nat /\ Index \subseteq Nat
    BY DaysAre, BoundsAssumption DEF Index
  <2> QED
    BY <2>1, <2>2
<1>3. /\ Key(a) < Key(b) <=> a.day < b.day \/ (a.day = b.day /\ a.index < b.index)
      /\ Key(b) < Key(a) <=> b.day < a.day \/ (b.day = a.day /\ b.index < a.index)
  BY KeyOrder
<1> QED
  BY <1>1, <1>2, <1>3

\* A compressed archive keeps its key, and the name of its source.
LEMMA GzIs ==
  ASSUME NEW a \in Name
  PROVE  /\ Key(Gz(a)) = Key(a)
         /\ a.kind = "gz" => Gz(a) = a
         /\ \A b \in Name : a.kind = b.kind /\ Gz(a) = Gz(b) => a = b
<1>1. Gz(a) = [kind |-> "gz", dir |-> a.dir, day |-> a.day, index |-> a.index]
  BY DEF Gz, Name
<1>2. Key(Gz(a)) = Key(a)
  BY <1>1 DEF Key
<1>3. ASSUME NEW b \in Name, a.kind = b.kind, Gz(a) = Gz(b) PROVE a = b
  <2>1. a.dir = b.dir /\ a.day = b.day /\ a.index = b.index
    BY <1>3, NamesAre
  <2> QED
    BY <1>3, <2>1 DEF Name
<1>4. a.kind = "gz" => Gz(a) = a
  BY <1>1 DEF Name
<1> QED
  BY <1>2, <1>3, <1>4

-----------------------------------------------------------------------------
(***************************************************************************)
(* What the operations on files do.                                        *)
(***************************************************************************)
\* The files that a restriction leaves keep their content.
LEMMA RestrictIs ==
  ASSUME NEW d, NEW G
  PROVE  /\ DOMAIN Restrict(d, G) = G
         /\ \A g \in G : Restrict(d, G)[g] = d[g]
BY DEF Restrict

\* A flush adds the buffer to the open file.
LEMMA FlushedIs ==
  ASSUME RotInv
  PROVE  /\ DOMAIN Flushed = DOMAIN disk
         /\ \A f \in DOMAIN disk :
               /\ Flushed[f].bytes = IF f = fp THEN disk[f].bytes \cup buf ELSE disk[f].bytes
               /\ Flushed[f].whole = disk[f].whole
               /\ Flushed[f].mtime \in {disk[f].mtime, now}
<1>1. CASE fp = Closed \/ buf = {}
  BY <1>1 DEF Flushed, RotInv, TypeOK
<1>2. CASE fp # Closed /\ buf # {}
  <2>1. fp \in DOMAIN disk /\ disk[fp].whole \in BOOLEAN /\ fp.kind # "gz"
    BY <1>2 DEF RotInv, TypeOK, OpenAgrees, Active, Moved
  <2>2. disk[fp].whole = TRUE
    BY <2>1 DEF RotInv, FilesHold, FilesOK
  <2> DEFINE c == [bytes |-> disk[fp].bytes \cup buf, mtime |-> now, whole |-> TRUE]
  <2>3. Flushed = With(disk, fp, c)
    BY <1>2 DEF Flushed
  <2>4. c.bytes = disk[fp].bytes \cup buf /\ c.mtime = now /\ c.whole = TRUE
    OBVIOUS
  <2> HIDE DEF c
  <2>5. /\ DOMAIN Flushed = DOMAIN disk /\ Flushed[fp] = c
        /\ \A f \in DOMAIN disk : f # fp => Flushed[f] = disk[f]
    BY <2>1, <2>3 DEF With
  <2>6. ASSUME NEW f \in DOMAIN disk
        PROVE  /\ Flushed[f].bytes = IF f = fp THEN disk[f].bytes \cup buf ELSE disk[f].bytes
               /\ Flushed[f].whole = disk[f].whole
               /\ Flushed[f].mtime \in {disk[f].mtime, now}
    <3>1. CASE f = fp
      <4>1. Flushed[f].whole = disk[f].whole
        BY <2>2, <2>4, <2>5, <3>1
      <4> QED
        BY <2>4, <2>5, <3>1, <4>1
    <3>2. CASE f # fp
      BY <2>5, <3>2
    <3> QED
      BY <3>1, <3>2
  <2> QED
    BY <2>5, <2>6
<1> QED
  BY <1>1, <1>2

\* What a disk has to satisfy, with the lines flushed so far and those that
\* may be gone.
DiskOK(d, F, E, t) ==
    /\ FilesOK(d, F, t) /\ KeptIn(d, F, E)
    /\ ~blind => OrderIn(d) /\ TwinsIn(d)

\* The invariant, said of the disk.
LEMMA DiskHolds == RotInv => DiskOK(disk, flushed, Gone, now)
BY DEF RotInv, DiskOK, FilesHold, OrderHolds

\* A flush keeps every line, those of the buffer too, and the archives.
LEMMA FlushKeeps ==
  ASSUME RotInv
  PROVE  /\ DiskOK(Flushed, flushed \cup buf, Gone, now)
         /\ Archives(Flushed) = Archives(disk)
<1>1. /\ FilesOK(disk, flushed, now) /\ KeptIn(disk, flushed, Gone)
      /\ fp = Closed \/ fp \in DOMAIN disk
      /\ fp = Closed => buf = {}
      /\ fp # Closed => fp.kind \notin {"plain", "gz"}
      /\ now \in Nat
  BY BoundsAssumption DEF RotInv, TypeOK, FilesHold, OpenAgrees, Active, Moved
<1>2. FilesOK(Flushed, flushed \cup buf, now)
  <2> SUFFICES ASSUME NEW f \in DOMAIN disk
               PROVE  /\ Flushed[f].bytes \subseteq flushed \cup buf
                      /\ Flushed[f].mtime \in 0..now
                      /\ Flushed[f].whole \in BOOLEAN
                      /\ ~Flushed[f].whole => f.kind = "gz" /\ Flushed[f].bytes = {}
                      /\ f.kind = "active" => f = Active(f.dir)
    BY <1>1, FlushedIs DEF FilesOK
  <2>1. /\ disk[f].bytes \subseteq flushed /\ disk[f].mtime \in 0..now
        /\ disk[f].whole \in BOOLEAN
        /\ ~disk[f].whole => f.kind = "gz" /\ disk[f].bytes = {}
        /\ f.kind = "active" => f = Active(f.dir)
    BY <1>1 DEF FilesOK
  <2>2. f.kind = "gz" => f # fp
    BY <1>1, NamesAre DEF FilesOK
  <2>3. Flushed[f].whole = disk[f].whole /\ Flushed[f].mtime \in {disk[f].mtime, now}
        /\ Flushed[f].bytes = IF f = fp THEN disk[f].bytes \cup buf ELSE disk[f].bytes
    BY FlushedIs
  <2>4. Flushed[f].whole \in BOOLEAN
    BY <2>1, <2>3
  <2>5. ~Flushed[f].whole => f.kind = "gz" /\ Flushed[f].bytes = {}
    <3>1. ~Flushed[f].whole => ~disk[f].whole
      BY <2>3, Zenon
    <3> QED
      BY <2>1, <2>2, <2>3, <3>1
  <2>6. Flushed[f].bytes \subseteq flushed \cup buf /\ Flushed[f].mtime \in 0..now
    BY <1>1, <2>1, <2>3
  <2> QED
    BY <2>1, <2>4, <2>5, <2>6
<1>3. KeptIn(Flushed, flushed \cup buf, Gone)
  <2>1. ASSUME NEW l \in flushed
        PROVE  (\E f \in DOMAIN Flushed : Flushed[f].whole /\ l \in Flushed[f].bytes)
               \/ l \in Gone
    <3>1. CASE l \notin Gone
      <4>1. PICK f \in DOMAIN disk : disk[f].whole /\ l \in disk[f].bytes
        BY <1>1, <3>1 DEF KeptIn
      <4>2. Flushed[f].whole
        BY <4>1, FlushedIs, Zenon
      <4>3. l \in Flushed[f].bytes /\ f \in DOMAIN Flushed
        BY <4>1, FlushedIs
      <4> QED
        BY <4>2, <4>3
    <3> QED
      BY <3>1
  <2>2. ASSUME NEW l \in buf
        PROVE  \E f \in DOMAIN Flushed : Flushed[f].whole /\ l \in Flushed[f].bytes
    <3>1. fp \in DOMAIN disk /\ fp.kind # "gz"
      BY <1>1
    <3>2. l \in Flushed[fp].bytes /\ fp \in DOMAIN Flushed
      BY <3>1, FlushedIs
    <3>3. Flushed[fp].whole
      <4>1. disk[fp].whole
        BY <1>1, <3>1 DEF FilesOK
      <4>2. Flushed[fp].whole = disk[fp].whole
        BY <3>1, FlushedIs
      <4> QED
        BY <4>1, <4>2, Zenon
    <3> QED
      BY <3>2, <3>3
  <2> QED
    BY <2>1, <2>2 DEF KeptIn
<1>4. \A f \in Archives(disk) : f \in DOMAIN disk /\ f # fp /\ Flushed[f].bytes = disk[f].bytes
  <2>1. \A f \in Archives(disk) : f \in DOMAIN disk /\ f # fp
    <3>1. Closed \notin DOMAIN disk
      BY <1>1, NamesAre DEF FilesOK
    <3> QED
      BY <1>1, <3>1 DEF Archives
  <2> QED
    BY <2>1, FlushedIs
<1>5. Archives(Flushed) = Archives(disk)
  BY FlushedIs DEF Archives
<1>6. ASSUME ~blind
      PROVE  OrderIn(Flushed) /\ TwinsIn(Flushed)
  <2>1. OrderIn(disk) /\ TwinsIn(disk) /\ \A l \in flushed, m \in buf : Before(l, m)
    BY <1>6 DEF RotInv, OrderHolds, LinesOrdered
  <2>2. OrderIn(Flushed)
    <3> SUFFICES ASSUME NEW a \in Archives(disk), NEW b \in DOMAIN disk,
                        a.dir = b.dir,
                        b.kind = "active" \/ (b \in Archives(disk) /\ Key(a) < Key(b)),
                        NEW l \in disk[a].bytes, NEW m \in Flushed[b].bytes
                 PROVE  Before(l, m)
      BY <1>4, <1>5, FlushedIs DEF OrderIn
    <3>1. m \in disk[b].bytes \/ m \in buf
      BY FlushedIs
    <3>2. l \in flushed
      BY <1>1, <1>4 DEF FilesOK
    <3> QED
      BY <2>1, <3>1, <3>2 DEF OrderIn
  <2>3. TwinsIn(Flushed)
    <3> SUFFICES ASSUME NEW a \in DOMAIN disk, a.kind = "plain", Gz(a) \in DOMAIN disk
                 PROVE  Flushed[Gz(a)].bytes \subseteq Flushed[a].bytes
      BY FlushedIs DEF TwinsIn
    <3>1. a \in Archives(disk) /\ Gz(a) \in Archives(disk)
      BY <1>1, NamesAre DEF Archives, FilesOK
    <3> QED
      BY <1>4, <2>1, <3>1 DEF TwinsIn
  <2> QED
    BY <2>2, <2>3
<1> QED
  BY <1>2, <1>3, <1>5, <1>6 DEF DiskOK

\* Opening creates an empty active file or finds one.
Opened(d, c) == IF Today(c) \in DOMAIN d THEN d ELSE With(d, Today(c), NewFile)

\* Today's file is an active one of its directory.
LEMMA TodayIs ==
  ASSUME RotInv, NEW c \in Configs
  PROVE  /\ Today(c) \in Name /\ Today(c).kind = "active"
         /\ Today(c) = Active(Today(c).dir) /\ Today(c).dir \in Days
         /\ Today(c).dir = IF c.subdir THEN Day(now) ELSE 0
         /\ now \in Nat
<1>2. now \in 1..MaxTime /\ now \in 0..MaxTime /\ now \in Nat
  BY BoundsAssumption DEF RotInv, TypeOK
<1>1. Day(now) \in Days /\ 0 \in Days
  BY <1>2, DaysAre
<1> DEFINE y == IF c.subdir THEN Day(now) ELSE 0
<1>3. y \in Days /\ Today(c) = Active(y)
  BY <1>1 DEF Today
<1> HIDE DEF y
<1>4. Today(c).dir = y
  BY <1>3, NamesAre
<1> QED
  BY <1>2, <1>3, <1>4, NamesAre DEF y

\* Opening keeps every file, and a file it creates is empty.
LEMMA OpenKeeps ==
  ASSUME RotInv, NEW c \in Configs, NEW d, NEW F, NEW E, DiskOK(d, F, E, now)
  PROVE  /\ DiskOK(Opened(d, c), F, E, now)
         /\ Archives(Opened(d, c)) = Archives(d)
         /\ DOMAIN Opened(d, c) = DOMAIN d \cup {Today(c)}
         /\ \A f \in DOMAIN d : Opened(d, c)[f] = d[f]
         /\ Today(c) \notin DOMAIN d => Opened(d, c)[Today(c)].bytes = {}
<1> DEFINE new == Today(c)
<1>1. CASE new \in DOMAIN d
  BY <1>1 DEF Opened
<1>2. CASE new \notin DOMAIN d
  <2> DEFINE e == With(d, new, NewFile)
  <2>1. e = Opened(d, c)
    BY <1>2 DEF Opened
  <2>2. /\ DOMAIN e = DOMAIN d \cup {new} /\ e[new] = NewFile
        /\ \A f \in DOMAIN d : e[f] = d[f]
    BY <1>2 DEF With
  <2>3. /\ NewFile.bytes = {} /\ NewFile.mtime = now /\ NewFile.whole = TRUE
        /\ new \in Name /\ new.kind = "active" /\ new = Active(new.dir) /\ now \in Nat
    BY TodayIs DEF NewFile
  <2> HIDE DEF new, e
  <2>4. FilesOK(e, F, now)
    <3>1. DOMAIN e \subseteq Name
      BY <2>2, <2>3 DEF DiskOK, FilesOK
    <3>2. \A f \in DOMAIN d :
             /\ e[f].bytes \subseteq F /\ e[f].mtime \in 0..now
             /\ e[f].whole \in BOOLEAN
             /\ ~e[f].whole => f.kind = "gz" /\ e[f].bytes = {}
             /\ f.kind = "active" => f = Active(f.dir)
      BY <2>2 DEF DiskOK, FilesOK
    <3>3. /\ e[new].bytes \subseteq F /\ e[new].mtime \in 0..now
          /\ e[new].whole = TRUE /\ new = Active(new.dir)
      BY <2>2, <2>3
    <3>4. /\ e[new].whole \in BOOLEAN
          /\ ~e[new].whole => new.kind = "gz" /\ e[new].bytes = {}
      BY <3>3
    <3> QED
      BY <2>2, <3>1, <3>2, <3>3, <3>4 DEF FilesOK
  <2>5. KeptIn(e, F, E)
    BY <2>2 DEF DiskOK, KeptIn
  <2>6. Archives(e) = Archives(d)
    BY <2>2, <2>3 DEF Archives
  <2>7. ~blind => OrderIn(e)
    <3> SUFFICES ASSUME ~blind, NEW a \in Archives(d), NEW b \in DOMAIN e,
                        a.dir = b.dir,
                        b.kind = "active" \/ (b \in Archives(d) /\ Key(a) < Key(b)),
                        NEW l \in e[a].bytes, NEW m \in e[b].bytes
                 PROVE  Before(l, m)
      BY <2>6 DEF OrderIn
    <3>1. b \in DOMAIN d /\ a \in DOMAIN d
      BY <2>2, <2>3 DEF Archives
    <3>2. l \in d[a].bytes /\ m \in d[b].bytes
      BY <2>2, <3>1
    <3> QED
      BY <3>1, <3>2 DEF DiskOK, OrderIn
  <2>8. ~blind => TwinsIn(e)
    <3>1. \A a \in DOMAIN d : a \in Name
      BY DEF DiskOK, FilesOK
    <3>2. \A a \in DOMAIN e : a.kind = "plain" => a \in DOMAIN d
                           /\ (Gz(a) \in DOMAIN e => Gz(a) \in DOMAIN d)
      BY <2>2, <2>3, <3>1, NamesAre
    <3> QED
      BY <2>2, <3>2 DEF DiskOK, TwinsIn
  <2>9. e[new].bytes = {}
    BY <2>2, <2>3
  <2> QED
    BY <2>1, <2>2, <2>4, <2>5, <2>6, <2>7, <2>8, <2>9 DEF DiskOK, new
<1> QED
  BY <1>1, <1>2

\* Removing files loses their lines only.
LEMMA RemoveKeeps ==
  ASSUME RotInv, NEW G, NEW e, DOMAIN e = DOMAIN disk \ G,
         \A f \in DOMAIN e : e[f] = disk[f]
  PROVE  /\ DiskOK(e, flushed, Gone \cup UNION {disk[f].bytes : f \in G \cap DOMAIN disk}, now)
         /\ Archives(e) \subseteq Archives(disk)
<1> DEFINE E == Gone \cup UNION {disk[f].bytes : f \in G \cap DOMAIN disk}
<1>1. FilesOK(disk, flushed, now) /\ KeptIn(disk, flushed, Gone)
  BY DEF RotInv, FilesHold
<1>2. FilesOK(e, flushed, now)
  BY <1>1 DEF FilesOK
<1>3. KeptIn(e, flushed, E)
  <2> SUFFICES ASSUME NEW l \in flushed, l \notin E
               PROVE  \E f \in DOMAIN e : e[f].whole /\ l \in e[f].bytes
    BY DEF KeptIn
  <2>1. PICK f \in DOMAIN disk : disk[f].whole /\ l \in disk[f].bytes
    BY <1>1 DEF KeptIn
  <2>2. f \notin G
    BY <2>1
  <2>3. f \in DOMAIN e /\ e[f] = disk[f]
    BY <2>2
  <2> QED
    BY <2>1, <2>3
<1>4. Archives(e) \subseteq Archives(disk)
  BY DEF Archives
<1>5. ASSUME ~blind PROVE OrderIn(e) /\ TwinsIn(e)
  <2>1. OrderIn(disk) /\ TwinsIn(disk)
    BY <1>5 DEF RotInv, OrderHolds
  <2>2. OrderIn(e)
    BY <2>1 DEF OrderIn, Archives
  <2>3. TwinsIn(e)
    BY <2>1 DEF TwinsIn
  <2> QED
    BY <2>2, <2>3
<1> QED
  BY <1>2, <1>3, <1>4, <1>5 DEF DiskOK

\* Renaming the active file loses what had the new name; when that is the
\* newest name of an archive, nothing.
LEMMA RenameKeeps ==
  ASSUME RotInv, Exists(Active(active_dir)), NEW to \in Name,
         \/ to.kind = "moved" /\ ~Exists(to)
         \/ /\ to.kind = "plain" /\ to.dir = active_dir
            /\ ~blind => \A g \in Archives(disk) : g.dir = active_dir => Key(g) < Key(to)
  PROVE  /\ DiskOK(Rename(disk, Active(active_dir), to), flushed,
                   Gone \cup (IF blind THEN BytesIn(to) ELSE {}), now)
         /\ Archives(Rename(disk, Active(active_dir), to)) \subseteq Archives(disk) \cup {to}
         /\ ~blind => ~Exists(to)
<1> DEFINE from == Active(active_dir)
           e == Rename(disk, from, to)
           E == Gone \cup (IF blind THEN BytesIn(to) ELSE {})
<1>1. FilesOK(disk, flushed, now) /\ KeptIn(disk, flushed, Gone)
  BY DEF RotInv, FilesHold
<1>2. /\ from \in DOMAIN disk /\ from.kind = "active" /\ from.dir = active_dir
      /\ from \in Name /\ to # from
  <2>1. active_dir \in Days
    BY DEF RotInv, TypeOK
  <2> QED
    BY <2>1, NamesAre DEF Exists
<1>3. /\ DOMAIN e = (DOMAIN disk \ {from}) \cup {to} /\ e[to] = disk[from]
      /\ \A h \in DOMAIN disk : h # from /\ h # to => e[h] = disk[h]
  <2> HIDE DEF from
  <2> QED
    BY DEF Rename, With, Without, Restrict
<1>4. ~blind => to \notin DOMAIN disk /\ (to.kind = "plain" => Gz(to) \notin DOMAIN disk)
  <2> SUFFICES ASSUME ~blind, to.kind = "plain",
                      to \in DOMAIN disk \/ Gz(to) \in DOMAIN disk
               PROVE  FALSE
    BY DEF Exists
  <2>1. /\ Gz(to) \in Name /\ Gz(to).kind = "gz" /\ Gz(to).dir = active_dir
        /\ Key(Gz(to)) = Key(to) /\ to.dir = active_dir
    BY NamesAre DEF Key
  <2>2. to \in Archives(disk) \/ Gz(to) \in Archives(disk)
    BY <2>1 DEF Archives
  <2>3. Key(to) < Key(to)
    BY <2>1, <2>2
  <2> QED
    BY <2>3, KeyOrder
<1> HIDE DEF from, e
<1>5. disk[from].whole = TRUE
  BY <1>1, <1>2 DEF FilesOK
<1>6. FilesOK(e, flushed, now)
  <2>1. DOMAIN e \subseteq Name
    BY <1>1, <1>3 DEF FilesOK
  <2>2. \A f \in DOMAIN disk : f # from /\ f # to =>
           /\ e[f].bytes \subseteq flushed /\ e[f].mtime \in 0..now
           /\ e[f].whole \in BOOLEAN
           /\ ~e[f].whole => f.kind = "gz" /\ e[f].bytes = {}
           /\ f.kind = "active" => f = Active(f.dir)
    BY <1>1, <1>3 DEF FilesOK
  <2>3. /\ e[to].bytes \subseteq flushed /\ e[to].mtime \in 0..now
        /\ to.kind # "active"
    BY <1>1, <1>2, <1>3 DEF FilesOK
  <2>4. e[to].whole \in BOOLEAN /\ (~e[to].whole => to.kind = "gz" /\ e[to].bytes = {})
    BY <1>3, <1>5
  <2> QED
    BY <1>3, <2>1, <2>2, <2>3, <2>4 DEF FilesOK
<1>7. KeptIn(e, flushed, E)
  <2> SUFFICES ASSUME NEW l \in flushed, l \notin E
               PROVE  \E f \in DOMAIN e : e[f].whole /\ l \in e[f].bytes
    BY DEF KeptIn
  <2>1. PICK f \in DOMAIN disk : disk[f].whole /\ l \in disk[f].bytes
    BY <1>1 DEF KeptIn
  <2>2. CASE f = from
    BY <1>3, <1>5, <2>1, <2>2
  <2>3. CASE f = to
    <3>1. ~blind
      BY <2>1, <2>3 DEF BytesIn, Exists
    <3> QED
      BY <1>4, <2>3, <3>1
  <2>4. CASE f # from /\ f # to
    <3>1. f \in DOMAIN e /\ e[f] = disk[f]
      BY <1>3, <2>4
    <3> QED
      BY <2>1, <3>1
  <2> QED
    BY <2>2, <2>3, <2>4
<1>8. Archives(e) \subseteq Archives(disk) \cup {to}
  BY <1>3 DEF Archives
<1>9. ASSUME ~blind PROVE OrderIn(e) /\ TwinsIn(e)
  <2>1. OrderIn(disk) /\ TwinsIn(disk) /\ to \notin DOMAIN disk
    BY <1>4, <1>9 DEF RotInv, OrderHolds
  <2>2. OrderIn(e)
    <3> SUFFICES ASSUME NEW a \in Archives(e), NEW b \in DOMAIN e,
                        a.dir = b.dir,
                        b.kind = "active" \/ (b \in Archives(e) /\ Key(a) < Key(b)),
                        NEW l \in e[a].bytes, NEW m \in e[b].bytes
                 PROVE  Before(l, m)
      BY DEF OrderIn
    <3>1. /\ a = to \/ (a \in Archives(disk) /\ a # from /\ a # to /\ l \in disk[a].bytes)
          /\ b = to \/ (b \in DOMAIN disk /\ b # from /\ b # to /\ m \in disk[b].bytes)
      BY <1>2, <1>3 DEF Archives
    <3>2. CASE a # to /\ b # to
      <4>1. b \in Archives(e) => b \in Archives(disk)
        BY <1>8, <3>2
      <4> QED
        BY <2>1, <3>1, <3>2, <4>1 DEF OrderIn
    <3>3. CASE b = to /\ a # to
      <4>1. to.kind = "plain"
        BY <3>3 DEF Archives
      <4>2. a.dir = from.dir /\ from.kind = "active" /\ from \in DOMAIN disk
            /\ m \in disk[from].bytes /\ a \in Archives(disk) /\ l \in disk[a].bytes
        BY <1>2, <1>3, <3>1, <3>3, <4>1
      <4> QED
        BY <2>1, <4>2 DEF OrderIn
    <3>4. CASE a = to
      <4>1. to.kind = "plain" /\ to.dir = active_dir /\ b.dir = active_dir
        BY <3>4 DEF Archives
      <4>2. CASE b.kind = "active"
        <5>1. b = Active(active_dir) /\ b # to
          BY <1>6, <4>1, <4>2 DEF FilesOK
        <5> QED
          BY <1>2, <1>3, <5>1 DEF from
      <4>3. CASE b \in Archives(e) /\ Key(a) < Key(b)
        <5>1. Key(to) \in Nat
          BY KeyOrder
        <5>2. b \in Archives(disk)
          BY <1>8, <3>4, <4>3, <5>1
        <5>3. b \in Name
          BY <5>2, <1>1 DEF Archives, FilesOK
        <5>4. Key(b) < Key(to) /\ Key(b) \in Nat
          BY <1>9, <4>1, <5>2, <5>3, KeyOrder
        <5> QED
          BY <3>4, <4>3, <5>1, <5>4
      <4> QED
        BY <4>2, <4>3
    <3> QED
      BY <3>2, <3>3, <3>4
  <2>3. TwinsIn(e)
    <3> SUFFICES ASSUME NEW a \in DOMAIN e, a.kind = "plain", Gz(a) \in DOMAIN e
                 PROVE  e[Gz(a)].bytes \subseteq e[a].bytes
      BY DEF TwinsIn
    <3>1. a \in Name /\ Gz(a).kind = "gz"
      BY <1>6, NamesAre DEF FilesOK
    <3>2. Gz(a) # to /\ Gz(a) # from /\ Gz(a) \in DOMAIN disk
      BY <1>2, <1>3, <3>1
    <3>3. a # to /\ a # from /\ a \in DOMAIN disk
      BY <1>2, <1>3, <1>4, <1>9, <3>2
    <3> QED
      BY <1>3, <2>1, <3>2, <3>3 DEF TwinsIn
  <2> QED
    BY <2>2, <2>3
<1>10. DiskOK(e, flushed, E, now)
  BY <1>6, <1>7, <1>9 DEF DiskOK
<1>11. ~blind => ~Exists(to)
  BY <1>4 DEF Exists
<1> QED
  BY <1>8, <1>10, <1>11 DEF e, from

\* Writing the compressed file g of archive s loses what g held unless s
\* holds it.
LEMMA GzKeeps ==
  ASSUME RotInv, NEW s \in DOMAIN disk, s.kind = "plain", NEW e,
         DOMAIN e = DOMAIN disk \cup {Gz(s)},
         \A f \in DOMAIN disk : f # Gz(s) => e[f] = disk[f],
         e[Gz(s)].bytes \subseteq disk[s].bytes, e[Gz(s)].mtime = now,
         e[Gz(s)].whole \in BOOLEAN, ~e[Gz(s)].whole => e[Gz(s)].bytes = {}
  PROVE  /\ DiskOK(e, flushed, Gone \cup (IF blind THEN BytesIn(Gz(s)) ELSE {}), now)
         /\ Archives(e) = Archives(disk) \cup {Gz(s)}
<1> DEFINE g == Gz(s)
           E == Gone \cup (IF blind THEN BytesIn(Gz(s)) ELSE {})
<1>1. /\ FilesOK(disk, flushed, now) /\ KeptIn(disk, flushed, Gone)
      /\ now \in Nat
  BY BoundsAssumption DEF RotInv, FilesHold, TypeOK
<1>2. /\ s \in Name /\ g \in Name /\ g.kind = "gz" /\ g.dir = s.dir /\ g # s
      /\ Key(g) = Key(s)
  BY <1>1, NamesAre DEF FilesOK, Key
<1>3. disk[s].whole /\ disk[s].bytes \subseteq flushed
  BY <1>1 DEF FilesOK
<1>4. FilesOK(e, flushed, now)
  <2>1. DOMAIN e \subseteq Name
    BY <1>1, <1>2 DEF FilesOK
  <2>2. \A f \in DOMAIN disk : f # g =>
           /\ e[f].bytes \subseteq flushed /\ e[f].mtime \in 0..now
           /\ e[f].whole \in BOOLEAN
           /\ ~e[f].whole => f.kind = "gz" /\ e[f].bytes = {}
           /\ f.kind = "active" => f = Active(f.dir)
    BY <1>1 DEF FilesOK
  <2>3. e[g].bytes \subseteq flushed /\ e[g].mtime \in 0..now /\ g.kind # "active"
    BY <1>1, <1>2, <1>3
  <2>4. e[g].whole \in BOOLEAN /\ (~e[g].whole => g.kind = "gz" /\ e[g].bytes = {})
    BY <1>2
  <2> QED
    BY <2>1, <2>2, <2>3, <2>4 DEF FilesOK
<1>5. ~blind => OrderIn(disk) /\ TwinsIn(disk)
  BY DEF RotInv, OrderHolds
<1>6. KeptIn(e, flushed, E)
  <2> SUFFICES ASSUME NEW l \in flushed, l \notin E
               PROVE  \E f \in DOMAIN e : e[f].whole /\ l \in e[f].bytes
    BY DEF KeptIn
  <2>1. PICK f \in DOMAIN disk : disk[f].whole /\ l \in disk[f].bytes
    BY <1>1 DEF KeptIn
  <2>2. CASE f = g
    <3>1. ~blind
      BY <2>1, <2>2 DEF BytesIn, Exists
    <3>2. l \in disk[s].bytes
      BY <1>5, <2>1, <2>2, <3>1 DEF TwinsIn
    <3>3. s \in DOMAIN e /\ e[s] = disk[s]
      BY <1>2
    <3> QED
      BY <1>3, <3>2, <3>3
  <2>3. CASE f # g
    <3>1. f \in DOMAIN e /\ e[f] = disk[f]
      BY <2>3
    <3> QED
      BY <2>1, <3>1
  <2> QED
    BY <2>2, <2>3
<1>7. Archives(e) = Archives(disk) \cup {g}
  BY <1>2 DEF Archives
<1> HIDE DEF g
<1>8. \A f \in DOMAIN disk : f # g => e[f] = disk[f]
  BY DEF g
<1>9. e[g].bytes \subseteq disk[s].bytes /\ DOMAIN e = DOMAIN disk \cup {g}
  BY DEF g
<1>10. ASSUME ~blind PROVE OrderIn(e)
  <2> SUFFICES ASSUME NEW a \in Archives(e), NEW b \in DOMAIN e,
                      a.dir = b.dir,
                      b.kind = "active" \/ (b \in Archives(e) /\ Key(a) < Key(b)),
                      NEW l \in e[a].bytes, NEW m \in e[b].bytes
               PROVE  Before(l, m)
    BY DEF OrderIn
  <2> DEFINE x == IF a = g THEN s ELSE a
             y == IF b = g THEN s ELSE b
  <2>1. s \in Archives(disk)
    BY DEF Archives
  <2>2. /\ x \in Archives(disk) /\ l \in disk[x].bytes /\ x.dir = a.dir /\ Key(x) = Key(a)
        /\ a \in DOMAIN e
    <3>1. a = g \/ (a # g /\ a \in Archives(disk))
      BY <1>7
    <3> QED
      BY <1>2, <1>8, <1>9, <2>1, <3>1 DEF Archives
  <2>3. y \in DOMAIN disk /\ m \in disk[y].bytes /\ y.dir = b.dir /\ Key(y) = Key(b)
    BY <1>2, <1>8, <1>9
  <2>4. b.kind = "active" => y.kind = "active"
    BY <1>2
  <2>5. b \in Archives(e) => y \in Archives(disk)
    BY <1>7, <2>1
  <2> HIDE DEF x, y
  <2> QED
    BY <1>5, <1>10, <2>2, <2>3, <2>4, <2>5 DEF OrderIn
<1>11. ASSUME ~blind PROVE TwinsIn(e)
  <2> SUFFICES ASSUME NEW a \in DOMAIN e, a.kind = "plain", Gz(a) \in DOMAIN e
               PROVE  e[Gz(a)].bytes \subseteq e[a].bytes
    BY DEF TwinsIn
  <2>1. a # g /\ a \in DOMAIN disk /\ e[a] = disk[a] /\ a \in Name
    BY <1>1, <1>2, <1>8, <1>9 DEF FilesOK
  <2>2. CASE Gz(a) = g
    <3>1. a = s
      <4>1. Gz(a) = Gz(s) /\ a.kind = s.kind
        BY <2>2 DEF g
      <4>2. /\ a = [kind |-> a.kind, dir |-> a.dir, day |-> a.day, index |-> a.index]
            /\ s = [kind |-> s.kind, dir |-> s.dir, day |-> s.day, index |-> s.index]
        BY <1>2, <2>1 DEF Name
      <4>3. a.dir = s.dir /\ a.day = s.day /\ a.index = s.index
        BY <1>2, <2>1, <4>1, NamesAre
      <4> QED
        BY <4>1, <4>2, <4>3
    <3> QED
      BY <1>9, <2>1, <2>2, <3>1
  <2>3. CASE Gz(a) # g
    BY <1>5, <1>8, <1>9, <1>11, <2>1, <2>3 DEF TwinsIn
  <2> QED
    BY <2>2, <2>3
<1>12. DiskOK(e, flushed, E, now)
  BY <1>4, <1>6, <1>10, <1>11 DEF DiskOK
<1> QED
  BY <1>7, <1>12 DEF g

-----------------------------------------------------------------------------
(***************************************************************************)
(* Each step keeps the files: nothing that was flushed is lost, and the    *)
(* archives stay in order.                                                 *)
(***************************************************************************)

\* The archive that is being compressed.
LEMMA SrcIs ==
  ASSUME RotInv, pc \in {"compress", "gzip", "gzdone"}, batch.todo # {}
  PROVE  /\ src \in batch.todo /\ src \in DOMAIN disk /\ src.kind = "plain"
         /\ src \in Name /\ Gz(src) \in Name /\ Gz(src).kind = "gz"
<1>1. batch.todo \in SUBSET Name
  BY DEF RotInv, LocalsOK
<1>2. src \in batch.todo
  BY <1>1, OldestIs DEF src
<1> QED
  BY <1>1, <1>2, NamesAre DEF RotInv, BatchAgrees, Exists

FilesKept == FilesHold /\ OrderHolds

\* What holds of the disk after a step holds of the files.
LEMMA DiskGivesFiles ==
  ASSUME NEW X, DiskOK(disk', flushed', X, now), X \subseteq Gone',
         now \in Nat, now' \in Nat, now <= now', blind => blind'
  PROVE  FilesKept'
BY DEF DiskOK, FilesKept, FilesHold, OrderHolds, FilesOK, KeptIn

\* The clock shows a day.
LEMMA ClockIs == RotInv => now \in 1..MaxTime /\ now \in Nat /\ Day(now) \in Days
BY DaysAre, BoundsAssumption DEF RotInv, TypeOK

\* Every step keeps the lines that were flushed, and the archives' order.
LEMMA FilesStep == RotInv /\ [Next]_vars => FilesKept'
<1> SUFFICES ASSUME RotInv, [Next]_vars PROVE FilesKept'
  OBVIOUS
<1>0. now \in Nat /\ DiskOK(disk, flushed, Gone, now)
  BY ClockIs, DiskHolds
<1> USE DEF sinkVars, opVars, lineHist, runHist
<1>1. ASSUME UNCHANGED <<disk, flushed, expired, erased, blind>>, now' \in Nat, now <= now'
      PROVE  FilesKept'
  <2>1. Gone' = Gone
    BY <1>1 DEF Gone
  <2> QED
    BY <1>0, <1>1, <2>1, DiskGivesFiles
<1>2. ASSUME disk' = Flushed, flushed' = flushed \cup buf,
             UNCHANGED <<now, expired, erased>>, blind => blind'
      PROVE  FilesKept'
  <2>1. Gone \subseteq Gone'
    BY <1>2 DEF Gone
  <2> QED
    BY <1>0, <1>2, <2>1, FlushKeeps, DiskGivesFiles
<1>3. ASSUME NEW c \in Configs, disk' = Opened(disk, c),
             UNCHANGED <<flushed, now, expired, erased, blind>>
      PROVE  FilesKept'
  <2>1. Gone' = Gone
    BY <1>3 DEF Gone
  <2>2. DiskOK(disk', flushed', Gone, now)
    BY <1>0, <1>3, OpenKeeps
  <2> QED
    BY <1>0, <1>3, <2>1, <2>2, DiskGivesFiles
<1>4. ASSUME NEW G, DOMAIN disk' = DOMAIN disk \ G,
             \A f \in DOMAIN disk' : disk'[f] = disk[f],
             UNCHANGED <<flushed, now, blind>>,
             Gone \cup UNION {disk[f].bytes : f \in G \cap DOMAIN disk} \subseteq Gone'
      PROVE  FilesKept'
  <2> DEFINE X == Gone \cup UNION {disk[f].bytes : f \in G \cap DOMAIN disk}
  <2>1. DiskOK(disk', flushed, X, now)
    BY <1>4, RemoveKeeps
  <2>2. DiskOK(disk', flushed', X, now) /\ X \subseteq Gone'
    BY <1>4, <2>1
  <2> HIDE DEF X
  <2> QED
    BY <1>0, <1>4, <2>2, DiskGivesFiles
<1>5. CASE UNCHANGED vars
  BY <1>0, <1>1, <1>5 DEF vars
<1>6. CASE Tick \/ Crash \/ WriteStraight \/ RenameFails \/ Append \/ Collect
           \/ CompressEnd \/ CleanupEnd
  BY <1>0, <1>1, <1>6 DEF Tick, Crash, WriteStraight, RenameFails, Append, Collect,
     CompressEnd, CleanupEnd, cleanFrame
<1>7. CASE Flush \/ Close \/ WriteRollover
  BY <1>2, <1>7 DEF Flush, Close, CloseFile, WriteRollover
<1>8. CASE WriteRotate \/ RotateForce
  BY <1>2, <1>8 DEF WriteRotate, RotateForce, BeginArchive, CloseFile
<1>9. ASSUME NEW c \in Configs, Create(c)
      PROVE  FilesKept'
  BY <1>3, <1>9 DEF Create, OpenFile, Opened
<1>10. cfg \in Configs
  BY DEF RotInv, TypeOK
<1>11. CASE OpenSame \/ OpenNew \/ Rollover
  <2>1. /\ disk' = Opened(disk, cfg) \/ disk' = disk
        /\ UNCHANGED <<flushed, now, expired, erased, blind>>
    BY <1>11 DEF OpenSame, OpenNew, Rollover, OpenFile, OpenFails, Opened
  <2> QED
    BY <1>0, <1>1, <1>3, <1>10, <2>1
<1>12. CASE Reopen
  <2>1. /\ disk' = Opened(Flushed, cfg) \/ disk' = Flushed
        /\ flushed' = flushed \cup buf /\ UNCHANGED <<now, expired, erased, blind>>
    BY <1>12 DEF Reopen, OpenFile, OpenFails, Opened
  <2>2. DiskOK(Opened(Flushed, cfg), flushed \cup buf, Gone, now)
    BY <1>10, FlushKeeps, OpenKeeps
  <2>3. Gone' = Gone
    BY <2>1 DEF Gone
  <2> QED
    BY <1>0, <1>2, <2>1, <2>2, <2>3, DiskGivesFiles
<1>13. CASE RenameDone
  <2>1. /\ disk' = Rename(disk, Active(active_dir), rot.to)
        /\ erased' = erased \cup BytesIn(rot.to) /\ pc = "rename"
        /\ Exists(Active(active_dir)) /\ UNCHANGED <<flushed, now, expired, blind>>
    BY <1>13 DEF RenameDone
  <2>2. /\ rot.to \in Name /\ rot.to.kind = "plain" /\ rot.to.dir = active_dir
        /\ ~blind => \A g \in Archives(disk) : g.dir = active_dir => Key(g) < Key(rot.to)
    BY <2>1 DEF RotInv, NameIsNewest
  <2>3. DiskOK(disk', flushed, Gone \cup (IF blind THEN BytesIn(rot.to) ELSE {}), now)
    BY <2>1, <2>2, RenameKeeps
  <2>4. Gone \cup (IF blind THEN BytesIn(rot.to) ELSE {}) \subseteq Gone'
    BY <2>1 DEF Gone
  <2> QED
    BY <1>0, <2>1, <2>3, <2>4, DiskGivesFiles
<1>14. CASE MoveAway
  <2>1. /\ disk' = Rename(disk, Active(active_dir), Moved) /\ ~Exists(Moved)
        /\ Exists(Active(active_dir))
        /\ UNCHANGED <<flushed, now, expired, erased, blind>>
    BY <1>14 DEF MoveAway
  <2>2. DiskOK(disk', flushed, Gone \cup (IF blind THEN BytesIn(Moved) ELSE {}), now)
    BY <2>1, NamesAre, RenameKeeps
  <2>3. Gone \cup (IF blind THEN BytesIn(Moved) ELSE {}) = Gone'
    BY <2>1 DEF Gone, BytesIn
  <2> QED
    BY <1>0, <2>1, <2>2, <2>3, DiskGivesFiles
<1>15. CASE DeleteAged
  <2>1. PICK F \in SUBSET Aged : Expire(F)
    BY <1>15 DEF DeleteAged
  <2>2. /\ DOMAIN disk' = DOMAIN disk \ F
        /\ \A f \in DOMAIN disk' : disk'[f] = disk[f]
        /\ expired' = expired \cup UNION {disk[f].bytes : f \in F}
    BY <2>1 DEF Expire, Restrict
  <2>3. UNCHANGED <<flushed, now, blind, erased>>
    BY <1>15 DEF DeleteAged, cleanFrame
  <2>4. Gone \cup UNION {disk[f].bytes : f \in F \cap DOMAIN disk} \subseteq Gone'
    BY <2>2, <2>3 DEF Gone
  <2> QED
    BY <1>4, <2>2, <2>3, <2>4
<1>16. CASE DeleteExcess
  <2>1. UNCHANGED <<flushed, now, blind, erased>>
    BY <1>16 DEF DeleteExcess, cleanFrame
  <2>2. CASE Expire({src})
    <3>1. /\ DOMAIN disk' = DOMAIN disk \ {src}
          /\ \A f \in DOMAIN disk' : disk'[f] = disk[f]
          /\ expired' = expired \cup UNION {disk[f].bytes : f \in {src}}
      BY <2>2 DEF Expire, Restrict
    <3>2. Gone \cup UNION {disk[f].bytes : f \in {src} \cap DOMAIN disk} \subseteq Gone'
      BY <2>1, <3>1 DEF Gone
    <3> QED
      BY <1>4, <2>1, <3>1, <3>2
  <2>3. CASE UNCHANGED <<disk, expired>>
    BY <1>0, <1>1, <2>1, <2>3
  <2> QED
    BY <1>16, <2>2, <2>3 DEF DeleteExcess
<1>17. CASE CapDelete
  <2>1. UNCHANGED <<flushed, now, blind, erased>>
    BY <1>17 DEF CapDelete, cleanFrame
  <2>2. ASSUME NEW e \in batch.gzs, Expire({Gz(e)})
        PROVE  FilesKept'
    <3>1. /\ DOMAIN disk' = DOMAIN disk \ {Gz(e)}
          /\ \A f \in DOMAIN disk' : disk'[f] = disk[f]
          /\ expired' = expired \cup UNION {disk[f].bytes : f \in {Gz(e)}}
      BY <2>2 DEF Expire, Restrict
    <3>2. Gone \cup UNION {disk[f].bytes : f \in {Gz(e)} \cap DOMAIN disk} \subseteq Gone'
      BY <2>1, <3>1 DEF Gone
    <3> QED
      BY <1>4, <2>1, <3>1, <3>2
  <2>3. CASE UNCHANGED <<disk, expired>>
    BY <1>0, <1>1, <2>1, <2>3
  <2> QED
    BY <1>17, <2>2, <2>3 DEF CapDelete
<1>18. CASE CompressBegin
  <2>1. /\ UNCHANGED <<flushed, now, blind, expired>>
        /\ pc = "compress" /\ batch.todo # {}
    BY <1>18 DEF CompressBegin, Visits, cleanFrame
  <2>2. /\ src \in DOMAIN disk /\ src.kind = "plain" /\ Gz(src) # src
    BY <2>1, SrcIs
  <2>3. CASE UNCHANGED <<disk, erased>>
    BY <1>0, <1>1, <2>1, <2>3
  <2>4. ASSUME erased' = erased \cup BytesIn(Gz(src)),
               disk' = With(disk, Gz(src), [NewFile EXCEPT !.whole = FALSE])
        PROVE  FilesKept'
    <3> DEFINE c == [NewFile EXCEPT !.whole = FALSE]
    <3>1. c.bytes = {} /\ c.mtime = now /\ c.whole = FALSE
      BY DEF NewFile
    <3> HIDE DEF c
    <3>2. /\ DOMAIN disk' = DOMAIN disk \cup {Gz(src)} /\ disk'[Gz(src)] = c
          /\ \A f \in DOMAIN disk : f # Gz(src) => disk'[f] = disk[f]
      BY <2>4 DEF With, c
    <3>3. DiskOK(disk', flushed, Gone \cup (IF blind THEN BytesIn(Gz(src)) ELSE {}), now)
      BY <2>2, <3>1, <3>2, GzKeeps
    <3>4. Gone \cup (IF blind THEN BytesIn(Gz(src)) ELSE {}) \subseteq Gone'
      BY <2>1, <2>4 DEF Gone
    <3> QED
      BY <1>0, <2>1, <3>3, <3>4, DiskGivesFiles
  <2>5. ASSUME erased' = erased \cup BytesIn(Gz(src)),
               disk' = Without(disk, Gz(src))
        PROVE  FilesKept'
    <3>1. /\ DOMAIN disk' = DOMAIN disk \ {Gz(src)}
          /\ \A f \in DOMAIN disk : f # Gz(src) => disk'[f] = disk[f]
      BY <2>5 DEF Without, Restrict
    <3>2. CASE blind
      <4>1. Gone \cup UNION {disk[f].bytes : f \in {Gz(src)} \cap DOMAIN disk}
               \subseteq Gone'
        BY <2>1, <2>5, <3>2 DEF Gone, BytesIn, Exists
      <4> QED
        BY <1>4, <2>1, <3>1, <4>1
    <3>3. CASE ~blind /\ Gz(src) \in DOMAIN disk
      <4>1. disk[Gz(src)].bytes \subseteq disk[src].bytes /\ disk[src].whole
        BY <1>0, <2>2, <3>3 DEF DiskOK, TwinsIn, FilesOK
      <4> QED
        <5> DEFINE X == Gone \cup UNION {disk[f].bytes : f \in {Gz(src)} \cap DOMAIN disk}
        <5>1. DiskOK(disk', flushed, X, now)
          BY <3>1, RemoveKeeps
        <5>2. X = Gone \cup disk[Gz(src)].bytes
          BY <3>3
        <5>3. \A l \in flushed : l \in X =>
                 (\E f \in DOMAIN disk' : disk'[f].whole /\ l \in disk'[f].bytes) \/ l \in Gone
          <6>1. src \in DOMAIN disk' /\ disk'[src] = disk[src]
            BY <2>2, <3>1
          <6> QED
            BY <4>1, <5>2, <6>1
        <5> HIDE DEF X
        <5>4. DiskOK(disk', flushed, Gone, now)
          BY <5>1, <5>3 DEF DiskOK, KeptIn
        <5>5. Gone' = Gone
          BY <2>1, <3>3 DEF Gone
        <5> QED
          BY <1>0, <2>1, <5>4, <5>5, DiskGivesFiles
    <3>4. CASE ~blind /\ Gz(src) \notin DOMAIN disk
      <4>1. Gone \cup UNION {disk[f].bytes : f \in {Gz(src)} \cap DOMAIN disk}
               \subseteq Gone'
        BY <2>1, <3>4 DEF Gone
      <4> QED
        BY <1>4, <2>1, <3>1, <4>1
    <3> QED
      BY <3>2, <3>3, <3>4
  <2> QED
    BY <1>18, <2>3, <2>4, <2>5 DEF CompressBegin
<1>19. CASE CompressWrite
  <2>1. /\ UNCHANGED <<flushed, now, blind, expired, erased>> /\ pc = "gzip"
        /\ Gone' = Gone
    BY <1>19 DEF CompressWrite, cleanFrame, Gone
  <2>2. /\ src \in DOMAIN disk /\ src.kind = "plain"
        /\ Gz(src) \in DOMAIN disk /\ ~disk[Gz(src)].whole
    BY <2>1, SrcIs DEF RotInv, BatchAgrees, Exists
  <2>3. disk[Gz(src)].bytes = {} /\ disk[src].whole
    BY <1>0, <2>2 DEF DiskOK, FilesOK
  <2>4. BytesIn(Gz(src)) = {}
    BY <2>2, <2>3 DEF BytesIn, Exists
  <2>5. CASE disk' = [disk EXCEPT ![Gz(src)] = [NewFile EXCEPT !.bytes = disk[src].bytes]]
    <3> DEFINE c == [NewFile EXCEPT !.bytes = disk[src].bytes]
    <3>1. c.bytes = disk[src].bytes /\ c.mtime = now /\ c.whole = TRUE
      BY DEF NewFile
    <3> HIDE DEF c
    <3>2. /\ DOMAIN disk' = DOMAIN disk \cup {Gz(src)} /\ disk'[Gz(src)] = c
          /\ \A f \in DOMAIN disk : f # Gz(src) => disk'[f] = disk[f]
      BY <2>2, <2>5 DEF c
    <3>3. DiskOK(disk', flushed, Gone \cup (IF blind THEN BytesIn(Gz(src)) ELSE {}), now)
      BY <2>2, <3>1, <3>2, GzKeeps
    <3>4. Gone \cup (IF blind THEN BytesIn(Gz(src)) ELSE {}) = Gone
      BY <2>4
    <3> QED
      BY <1>0, <2>1, <3>3, <3>4, DiskGivesFiles
  <2>6. CASE disk' = Without(disk, Gz(src))
    <3>1. /\ DOMAIN disk' = DOMAIN disk \ {Gz(src)}
          /\ \A f \in DOMAIN disk : f # Gz(src) => disk'[f] = disk[f]
      BY <2>6 DEF Without, Restrict
    <3>2. Gone \cup UNION {disk[f].bytes : f \in {Gz(src)} \cap DOMAIN disk} \subseteq Gone'
      BY <2>1, <2>3
    <3> QED
      BY <1>4, <2>1, <3>1, <3>2
  <2> QED
    BY <1>19, <2>5, <2>6 DEF CompressWrite
<1>20. CASE CompressDone
  <2>1. /\ UNCHANGED <<flushed, now, blind, expired, erased>> /\ pc = "gzdone"
        /\ Gone' = Gone
    BY <1>20 DEF CompressDone, cleanFrame, Gone
  <2>2. /\ src \in DOMAIN disk /\ src.kind = "plain" /\ Gz(src) # src
        /\ Gz(src) \in DOMAIN disk /\ disk[Gz(src)].whole
        /\ disk[Gz(src)].bytes = disk[src].bytes
    BY <2>1, SrcIs DEF RotInv, BatchAgrees, Exists
  <2>3. CASE disk' = Without(disk, src)
    <3> DEFINE X == Gone \cup UNION {disk[f].bytes : f \in {src} \cap DOMAIN disk}
    <3>1. /\ DOMAIN disk' = DOMAIN disk \ {src}
          /\ \A f \in DOMAIN disk : f # src => disk'[f] = disk[f]
      BY <2>3 DEF Without, Restrict
    <3>2. DiskOK(disk', flushed, X, now)
      BY <3>1, RemoveKeeps
    <3>3. X = Gone \cup disk[src].bytes
      BY <2>2
    <3>4. \A l \in flushed : l \in X =>
             (\E f \in DOMAIN disk' : disk'[f].whole /\ l \in disk'[f].bytes) \/ l \in Gone
      <4>1. Gz(src) \in DOMAIN disk' /\ disk'[Gz(src)] = disk[Gz(src)]
        BY <2>2, <3>1
      <4> QED
        BY <2>2, <3>3, <4>1
    <3> HIDE DEF X
    <3>5. DiskOK(disk', flushed, Gone, now)
      BY <3>2, <3>4 DEF DiskOK, KeptIn
    <3> QED
      BY <1>0, <2>1, <3>5, DiskGivesFiles
  <2>4. CASE UNCHANGED disk
    BY <1>0, <1>1, <2>1, <2>4
  <2> QED
    BY <1>20, <2>3, <2>4 DEF CompressDone
<1> QED
  BY <1>5, <1>6, <1>7, <1>8, <1>9, <1>11, <1>12, <1>13, <1>14, <1>15, <1>16,
     <1>17, <1>18, <1>19, <1>20 DEF Next, Write, Rotation, Cleanup

-----------------------------------------------------------------------------
(***************************************************************************)
(* Each step keeps the types.                                              *)
(***************************************************************************)
LEMMA NamesAreFinite == IsFiniteSet(Name)
<1> DEFINE Kinds == {"active", "plain", "gz", "moved"}
           P == (Kinds \X Days) \X (Days \X Index)
           f == [x \in P |-> [kind |-> x[1][1], dir |-> x[1][2],
                              day |-> x[2][1], index |-> x[2][2]]]
<1>1. IsFiniteSet(P)
  <2>1. IsFiniteSet(Kinds)
    <3>1. IsFiniteSet({"active"} \cup {"plain"} \cup {"gz"} \cup {"moved"})
      BY FS_EmptySet, FS_Singleton, FS_Union
    <3>2. Kinds = {"active"} \cup {"plain"} \cup {"gz"} \cup {"moved"}
      OBVIOUS
    <3> QED
      BY <3>1, <3>2
  <2>2. IsFiniteSet(Days) /\ IsFiniteSet(Index)
    <3>1. Day(MaxTime) \in Int /\ MaxLines + MaxFaults + MaxStarts \in Int
      BY DayIs, BoundsAssumption
    <3> QED
      BY <3>1, FS_Interval DEF Days, Index
  <2> QED
    BY <2>1, <2>2, FS_Product
<1>2. f \in Surjection(P, Name)
  <2>1. f \in [P -> Name]
    BY DEF Name
  <2>2. ASSUME NEW a \in Name PROVE \E x \in P : f[x] = a
    <3> DEFINE x == <<<<a.kind, a.dir>>, <<a.day, a.index>>>>
    <3>1. x \in P
      BY <2>2 DEF Name
    <3>2. f[x] = [kind |-> a.kind, dir |-> a.dir, day |-> a.day, index |-> a.index]
      BY <3>1
    <3>3. a = [kind |-> a.kind, dir |-> a.dir, day |-> a.day, index |-> a.index]
      BY DEF Name
    <3> QED
      BY <3>1, <3>2, <3>3
  <2> QED
    BY <2>1, <2>2 DEF Surjection
<1> QED
  BY <1>1, <1>2, FS_Surjection

\* Sets of lines and of names have a size.
LEMMA SizesAre ==
  ASSUME RotInv
  PROVE  /\ \A S \in SUBSET BytesUpTo(n) : IsFiniteSet(S) /\ Cardinality(S) \in Nat
         /\ \A S \in SUBSET Name : IsFiniteSet(S) /\ Cardinality(S) \in Nat
<1>1. n \in Int /\ MaxSize \in Int
  BY BoundsAssumption DEF RotInv, TypeOK
<1>2. IsFiniteSet(BytesUpTo(n))
  <2>1. IsFiniteSet(1..n) /\ IsFiniteSet(1..MaxSize)
    BY <1>1, FS_Interval
  <2> QED
    BY <2>1, FS_Product, Zenon DEF BytesUpTo
<1> QED
  BY <1>2, NamesAreFinite, FS_Subset, FS_CardinalityType

\* The first bytes of a line.
LEMMA LineIs ==
  ASSUME NEW l \in Nat, NEW w \in Nat
  PROVE  /\ IsFiniteSet({l} \X (1..w)) /\ Cardinality({l} \X (1..w)) = w
         /\ \A x \in {l} \X (1..w) : x[1] = l
<1>1. IsFiniteSet({l}) /\ Cardinality({l}) = 1
  BY FS_Singleton
<1>2. IsFiniteSet(1..w) /\ Cardinality(1..w) = w
  BY FS_Interval
<1>3. \A x \in {l} \X (1..w) : x[1] = l
  OBVIOUS
<1>4. /\ IsFiniteSet({l} \X (1..w))
      /\ Cardinality({l} \X (1..w)) = Cardinality({l}) * Cardinality(1..w)
  BY <1>1, <1>2, FS_Product, Zenon
<1> QED
  BY <1>1, <1>2, <1>3, <1>4

\* The bytes of one more line.
LEMMA BytesGrow ==
  ASSUME NEW m \in Nat
  PROVE  /\ BytesUpTo(m) \subseteq BytesUpTo(m + 1)
         /\ \A w \in 0..MaxSize : m > 0 => {m} \X (1..w) \subseteq BytesUpTo(m)
         /\ \A x \in BytesUpTo(m) : x[1] \in Nat /\ x[1] < m + 1
BY BoundsAssumption DEF BytesUpTo

\* A size found on disk is a number.
LEMMA SizeOnDiskIs ==
  ASSUME RotInv, NEW f
  PROVE  SizeOnDisk(disk, f) \in Nat /\ SizeOnDisk(Flushed, f) \in Nat
<1>1. \A g \in DOMAIN disk : disk[g].bytes \subseteq BytesUpTo(n) /\ disk[g].bytes \cup buf \subseteq BytesUpTo(n)
  BY DEF RotInv, TypeOK
<1>2. \A g \in DOMAIN Flushed : Flushed[g].bytes \subseteq BytesUpTo(n)
  BY <1>1, FlushedIs
<1> QED
  BY <1>1, <1>2, SizesAre DEF SizeOnDisk

NumbersOK ==
    /\ now \in 1..MaxTime /\ cfg \in Configs
    /\ current_size \in Nat /\ opened_sec \in Nat /\ rotate_fail_sec \in Nat
    /\ active_dir \in Days /\ cur_day \in Days
    /\ pc \in {"down", "idle", "force", "rollover", "rename", "reopen", "open",
               "collect", "age", "compress", "gzip", "gzdone", "cap", "append"}
    /\ n \in 0..MaxLines /\ incoming \in 0..MaxSize
    /\ starts \in 0..MaxStarts /\ faults \in 0..MaxFaults

\* The invariant gives every number its range.
LEMMA NumbersAre ==
  RotInv => NumbersOK /\ {MaxTime, MaxLines, MaxSize, MaxStarts, MaxFaults} \subseteq Nat
BY BoundsAssumption DEF RotInv, TypeOK, NumbersOK

\* Opening a file, or failing to, gives the sink's numbers a value in range.
LEMMA OpenNumbers ==
  ASSUME RotInv, NEW d,
         \/ \E c \in Configs, size \in Nat : OpenFile(d, c, size)
         \/ OpenFails(d)
  PROVE  /\ current_size' \in Nat /\ opened_sec' \in Nat
         /\ active_dir' \in Days /\ cur_day' \in Days
<1>1. /\ now \in Nat /\ Day(now) \in Days /\ cfg \in Configs
      /\ current_size \in Nat /\ opened_sec \in Nat /\ cur_day \in Days
  BY ClockIs, NumbersAre DEF NumbersOK
<1>2. CASE OpenFails(d)
  BY <1>1, <1>2, TodayIs DEF OpenFails
<1>3. ASSUME NEW c \in Configs, NEW size \in Nat, OpenFile(d, c, size)
      PROVE  /\ current_size' \in Nat /\ opened_sec' \in Nat
             /\ active_dir' \in Days /\ cur_day' \in Days
  BY <1>1, <1>3, TodayIs DEF OpenFile
<1> QED
  BY <1>2, <1>3

\* Every step keeps the numbers in range.
LEMMA NumbersStep == RotInv /\ [Next]_vars => NumbersOK'
<1> SUFFICES ASSUME RotInv, [Next]_vars PROVE NumbersOK'
  OBVIOUS
<1>0. NumbersOK /\ {MaxTime, MaxLines, MaxSize, MaxStarts, MaxFaults} \subseteq Nat
  BY NumbersAre
<1> USE DEF sinkVars, opVars, lineHist, runHist
<1>1. ASSUME NEW c \in Configs, Create(c)
      PROVE  NumbersOK'
  <2>1. \E size \in Nat : OpenFile(disk, c, size)
    BY <1>1, SizeOnDiskIs DEF Create
  <2>2. /\ current_size' \in Nat /\ opened_sec' \in Nat
        /\ active_dir' \in Days /\ cur_day' \in Days
    BY <2>1, OpenNumbers
  <2> QED
    BY <1>0, <1>1, <2>2 DEF Create, NumbersOK
<1>2. CASE Reopen \/ OpenSame \/ OpenNew \/ Rollover
  <2>1. \E d : \/ \E c \in Configs, size \in Nat : OpenFile(d, c, size)
               \/ OpenFails(d)
    <3>1. CASE Reopen
      BY <1>0, <3>1, SizeOnDiskIs DEF Reopen, NumbersOK
    <3>2. CASE OpenSame \/ OpenNew \/ Rollover
      BY <1>0, <3>2, SizeOnDiskIs DEF OpenSame, OpenNew, Rollover, NumbersOK
    <3> QED
      BY <1>2, <3>1, <3>2
  <2>2. /\ current_size' \in Nat /\ opened_sec' \in Nat
        /\ active_dir' \in Days /\ cur_day' \in Days
    BY <2>1, OpenNumbers
  <2>3. faults' \in 0..MaxFaults
    BY <1>0, <1>2 DEF Reopen, OpenSame, OpenNew, Rollover, OpenFails, Fault, NoFault, NumbersOK
  <2> QED
    BY <1>0, <1>2, <2>2, <2>3 DEF Reopen, OpenSame, OpenNew, Rollover, Resume, NumbersOK
<1>3. CASE Flush \/ Close \/ WriteStraight \/ WriteRollover \/ Tick \/ MoveAway \/ Crash
  BY <1>0, <1>3 DEF Flush, Close, WriteStraight, WriteRollover, WriteBegin, Tick,
     MoveAway, Crash, Fault, NumbersOK
<1>4. CASE WriteRotate \/ RotateForce
  BY <1>0, <1>4 DEF WriteRotate, RotateForce, WriteBegin, BeginArchive, Fault, NoFault,
     NumbersOK
<1>5. CASE RenameDone \/ RenameFails \/ Append
  <2>1. rot.ts \in Nat
    BY DEF RotInv, LocalsOK
  <2>2. CASE RenameDone \/ RenameFails
    BY <1>0, <2>1, <2>2 DEF RenameDone, RenameFails, Fault, NoFault, NumbersOK
  <2>3. CASE Append
    <3>1. \/ current_size' = current_size
          \/ \E w \in 0..incoming : current_size' = current_size + w
      BY <2>3 DEF Append
    <3>2. current_size' \in Nat
      BY <1>0, <3>1 DEF NumbersOK
    <3>3. faults' \in 0..MaxFaults
      BY <1>0, <2>3 DEF Append, Fault, NoFault, NumbersOK
    <3>4. /\ incoming' = 0 /\ pc' = "idle"
          /\ UNCHANGED <<now, cfg, opened_sec, rotate_fail_sec, active_dir, cur_day, n, starts>>
      BY <2>3 DEF Append
    <3> QED
      BY <1>0, <3>2, <3>3, <3>4 DEF NumbersOK
  <2> QED
    BY <1>5, <2>2, <2>3
<1>6. CASE Cleanup
  <2>1. faults' \in 0..MaxFaults
    <3>1. CASE Collect \/ DeleteAged \/ CompressEnd \/ CleanupEnd
      BY <1>0, <3>1 DEF Collect, DeleteAged, CompressEnd, CleanupEnd, Fault, NoFault, NumbersOK
    <3>2. CASE DeleteExcess \/ CapDelete
      <4>1. NoFault \/ Fault("remove")
        BY <3>2 DEF DeleteExcess, CapDelete
      <4> QED
        BY <1>0, <4>1 DEF Fault, NoFault, NumbersOK
    <3>3. CASE CompressBegin
      BY <1>0, <3>3 DEF CompressBegin, NewFile, Fault, NoFault, NumbersOK
    <3>4. CASE CompressWrite
      BY <1>0, <3>4 DEF CompressWrite, NewFile, Fault, NoFault, NumbersOK
    <3>5. CASE CompressDone
      BY <1>0, <3>5 DEF CompressDone, Fault, NoFault, NumbersOK
    <3> QED
      BY <1>6, <3>1, <3>2, <3>3, <3>4, <3>5 DEF Cleanup
  <2>2. pc' \in {"collect", "age", "compress", "gzip", "gzdone", "cap", "append", "idle"}
    BY <1>6 DEF Cleanup, Collect, DeleteAged, CompressBegin, CompressWrite,
       CompressDone, DeleteExcess, CompressEnd, CapDelete, CleanupEnd, Visits, Resume
  <2>3. UNCHANGED cleanFrame
    BY <1>6 DEF Cleanup, Collect, DeleteAged, CompressBegin, CompressWrite,
       CompressDone, DeleteExcess, CompressEnd, CapDelete, CleanupEnd
  <2> QED
    BY <1>0, <2>1, <2>2, <2>3 DEF cleanFrame, NumbersOK
<1>7. CASE UNCHANGED vars
  BY <1>0, <1>7 DEF vars, NumbersOK
<1> QED
  BY <1>1, <1>2, <1>3, <1>4, <1>5, <1>6, <1>7 DEF Next, Write, Rotation

FlagsOK == blind \in BOOLEAN /\ owed \in BOOLEAN

\* Every step keeps the flags Boolean.
LEMMA FlagsStep == RotInv /\ [Next]_vars => FlagsOK'
<1> SUFFICES ASSUME RotInv, [Next]_vars PROVE FlagsOK'
  OBVIOUS
<1>0. blind \in BOOLEAN /\ owed \in BOOLEAN
  BY DEF RotInv, TypeOK
<1> USE DEF sinkVars, opVars, lineHist, runHist, cleanFrame
<1>1. blind' = blind \/ blind' = TRUE
  <2>1. CASE WriteRotate \/ RotateForce
    BY <2>1 DEF WriteRotate, RotateForce, BeginArchive
  <2>2. CASE (\E c \in Configs : Create(c)) \/ Flush \/ Reopen \/ Close \/ WriteStraight
             \/ WriteRollover \/ Tick \/ Crash \/ MoveAway \/ UNCHANGED vars
    BY <2>2 DEF Create, Flush, Reopen, Close, WriteStraight, WriteRollover, Tick, Crash,
       MoveAway, vars
  <2>3. CASE Rotation
    BY <2>3 DEF Rotation, RenameDone, RenameFails, OpenSame, OpenNew, Rollover, Append
  <2>4. CASE Cleanup
    BY <2>4 DEF Cleanup, Collect, DeleteAged, CompressBegin, CompressWrite, CompressDone,
       DeleteExcess, CompressEnd, CapDelete, CleanupEnd
  <2> QED
    BY <2>1, <2>2, <2>3, <2>4 DEF Next, Write
<1>2. owed' = owed \/ owed' = TRUE \/ owed' = FALSE
  <2>1. CASE WriteRotate \/ RotateForce
    BY <2>1 DEF WriteRotate, RotateForce, BeginArchive
  <2>2. CASE (\E c \in Configs : Create(c)) \/ Flush \/ Reopen \/ Close \/ WriteStraight
             \/ WriteRollover \/ Tick \/ Crash \/ MoveAway \/ UNCHANGED vars
    BY <2>2 DEF Create, Flush, Reopen, Close, WriteStraight, WriteRollover, Tick, Crash,
       MoveAway, vars
  <2>3. CASE Rotation
    BY <2>3 DEF Rotation, RenameDone, RenameFails, OpenSame, OpenNew, Rollover, Append
  <2>4. CASE Cleanup
    BY <2>4 DEF Cleanup, Collect, DeleteAged, CompressBegin, CompressWrite, CompressDone,
       DeleteExcess, CompressEnd, CapDelete, CleanupEnd
  <2> QED
    BY <2>1, <2>2, <2>3, <2>4 DEF Next, Write
<1> QED
  BY <1>0, <1>1, <1>2, Zenon DEF FlagsOK

LineSetsOK ==
    /\ buf \subseteq BytesUpTo(n) /\ (fp = Closed => buf = {})
    /\ flushed \subseteq BytesUpTo(n) /\ expired \subseteq BytesUpTo(n) /\ erased \subseteq BytesUpTo(n)

\* Every step keeps the sets of lines within the lines submitted.
LEMMA LineSetsStep == RotInv /\ [Next]_vars => LineSetsOK'
<1> SUFFICES ASSUME RotInv, [Next]_vars PROVE LineSetsOK'
  OBVIOUS
<1>0. /\ LineSetsOK /\ n \in Nat
      /\ \A f \in DOMAIN disk : disk[f].bytes \subseteq BytesUpTo(n)
      /\ \A f : BytesIn(f) \subseteq BytesUpTo(n)
  BY BoundsAssumption DEF RotInv, TypeOK, LineSetsOK, BytesIn, Exists
<1>12. pc \in {"down", "rollover", "rename", "reopen", "open"} => fp = Closed
  BY DEF RotInv, OpenAgrees
<1> USE DEF sinkVars, opVars, lineHist, runHist, cleanFrame
<1>1. CASE Flush \/ Close \/ Reopen
  BY <1>0, <1>1 DEF Flush, Close, CloseFile, Reopen, LineSetsOK
<1>2. CASE WriteStraight \/ WriteRollover
  <2>1. /\ n' = n + 1 /\ UNCHANGED <<expired, erased>>
        /\ \/ UNCHANGED <<fp, buf, flushed>>
           \/ flushed' = flushed \cup buf /\ buf' = {}
    BY <1>2 DEF WriteStraight, WriteRollover, WriteBegin, CloseFile
  <2> QED
    BY <1>0, <2>1, BytesGrow DEF LineSetsOK
<1>3. CASE WriteRotate \/ RotateForce
  <2>1. /\ flushed' = flushed \cup buf /\ fp' = Closed /\ buf' = {} /\ n' \in {n, n + 1}
        /\ UNCHANGED <<expired, erased>>
    BY <1>3 DEF WriteRotate, RotateForce, BeginArchive, WriteBegin, CloseFile
  <2> QED
    BY <1>0, <2>1, BytesGrow DEF LineSetsOK
<1>4. CASE (\E c \in Configs : Create(c)) \/ OpenSame \/ OpenNew \/ Rollover
  <2>1. buf' = {} /\ UNCHANGED <<n, flushed, expired, erased>>
    BY <1>0, <1>12, <1>4 DEF Create, OpenSame, OpenNew, Rollover, LineSetsOK
  <2> QED
    BY <1>0, <2>1 DEF LineSetsOK
<1>5. CASE Append
  <2>1. n > 0
    BY <1>5 DEF Append, RotInv, LinesOrdered
  <2>2. /\ UNCHANGED <<n, fp, flushed, expired, erased>>
        /\ \/ buf' = buf
           \/ fp # Closed /\ \E w \in 0..incoming : buf' = buf \cup ({n} \X (1..w))
    BY <1>5 DEF Append
  <2>3. \A w \in 0..incoming : w \in 0..MaxSize
    BY NumbersAre DEF NumbersOK
  <2> QED
    BY <1>0, <2>1, <2>2, <2>3, BytesGrow DEF LineSetsOK
<1>6. CASE RenameFails \/ Tick \/ Crash \/ UNCHANGED vars
  BY <1>0, <1>6 DEF RenameFails, Tick, Crash, vars, LineSetsOK
<1>7. CASE RenameDone
  BY <1>0, <1>7 DEF RenameDone, LineSetsOK
<1>8. CASE MoveAway
  BY <1>0, <1>8, NamesAre DEF MoveAway, LineSetsOK
<1>9. CASE Collect \/ CompressWrite \/ CompressDone \/ CompressEnd \/ CleanupEnd
  <2>1. UNCHANGED <<n, flushed, buf, fp, expired, erased>>
    BY <1>9 DEF Collect, CompressWrite, CompressDone, CompressEnd, CleanupEnd
  <2> QED
    BY <1>0, <2>1 DEF LineSetsOK
<1>10. CASE CompressBegin
  <2>1. UNCHANGED <<n, flushed, buf, fp, expired>>
    BY <1>10 DEF CompressBegin
  <2>2. erased' = erased \/ erased' = erased \cup BytesIn(Gz(src))
    BY <1>10 DEF CompressBegin
  <2> QED
    BY <1>0, <2>1, <2>2 DEF LineSetsOK
<1>11. CASE DeleteAged \/ DeleteExcess \/ CapDelete
  <2>1. UNCHANGED <<n, flushed, buf, fp, erased>>
    BY <1>11 DEF DeleteAged, DeleteExcess, CapDelete
  <2>2. expired' = expired \/ \E F \in SUBSET DOMAIN disk :
                       expired' = expired \cup UNION {disk[f].bytes : f \in F}
    <3>1. CASE DeleteAged
      <4>1. PICK F \in SUBSET Aged : Expire(F)
        BY <3>1 DEF DeleteAged
      <4>2. Aged \subseteq DOMAIN disk
        BY <3>1 DEF DeleteAged, Aged, RotInv, BatchAgrees, Exists
      <4> QED
        BY <4>1, <4>2 DEF Expire
    <3>2. CASE DeleteExcess
      <4>1. src \in DOMAIN disk
        BY <3>2, SrcIs DEF DeleteExcess, Visits
      <4>2. Expire({src}) \/ expired' = expired
        BY <3>2 DEF DeleteExcess
      <4>3. {src} \in SUBSET DOMAIN disk
        BY <4>1
      <4> QED
        BY <4>2, <4>3 DEF Expire
    <3>3. CASE CapDelete
      <4>1. PICK e \in batch.gzs : (Exists(Gz(e)) /\ Expire({Gz(e)})) \/ expired' = expired
        BY <3>3 DEF CapDelete
      <4>2. Exists(Gz(e)) => {Gz(e)} \in SUBSET DOMAIN disk
        BY DEF Exists
      <4> QED
        BY <4>1, <4>2 DEF Expire
    <3> QED
      BY <1>11, <3>1, <3>2, <3>3
  <2> QED
    BY <1>0, <2>1, <2>2 DEF LineSetsOK
<1> QED
  BY <1>1, <1>2, <1>3, <1>4, <1>5, <1>6, <1>7, <1>8, <1>9, <1>10, <1>11
     DEF Next, Write, Rotation, Cleanup

\* The date of the next archive is a day.
LEMMA ArchiveDayIs ==
  ASSUME RotInv, pc # "down"
  PROVE  ArchiveDay \in Days /\ Day(opened_sec) \in Days
<1>1. now \in 0..MaxTime /\ opened_sec \in 0..MaxTime
  BY BoundsAssumption DEF RotInv, TypeOK, DatesAgree
<1> QED
  BY <1>1, DaysAre DEF ArchiveDay

\* What begins a rotation.
LEMMA BeginIs ==
  ASSUME RotInv, NEW y \in Days, NEW forced \in BOOLEAN, BeginArchive(y, forced)
  PROVE  /\ rot' \in [ts : Nat, to : Name, forced : BOOLEAN]
         /\ rot'.ts = now /\ rot'.forced = forced
         /\ rot'.to.kind = "plain" /\ rot'.to.dir = active_dir /\ rot'.to.day = y
         /\ ~blind' => ~blind /\ rot'.to.index = NextIndex(y)
<1>1. now \in Nat /\ active_dir \in Days
  BY NumbersAre, ClockIs DEF NumbersOK
<1>2. PICK i \in Index :
         /\ \/ i = NextIndex(y) /\ UNCHANGED blind
            \/ blind' = TRUE
         /\ rot' = [ts |-> now, to |-> Archive(active_dir, y, i), forced |-> forced]
  BY DEF BeginArchive
<1> DEFINE a == Archive(active_dir, y, i)
<1>3. /\ a \in Name /\ a.kind = "plain" /\ a.dir = active_dir /\ a.day = y /\ a.index = i
  BY <1>1, NamesAre
<1> HIDE DEF a
<1>4. /\ rot' \in [ts : Nat, to : Name, forced : BOOLEAN]
      /\ rot'.ts = now /\ rot'.forced = forced /\ rot'.to = a
  BY <1>1, <1>2, <1>3 DEF a
<1>5. ~blind' => ~blind /\ i = NextIndex(y)
  BY <1>2
<1> QED
  BY <1>3, <1>4, <1>5

\* Every step keeps the types of the operations' locals.
LEMMA LocalsStep == RotInv /\ [Next]_vars => LocalsOK'
<1> SUFFICES ASSUME RotInv, [Next]_vars PROVE LocalsOK'
  OBVIOUS
<1> USE DEF sinkVars, opVars, lineHist, runHist, cleanFrame
<1>0. LocalsOK
  BY DEF RotInv
<1>1. NoRot \in [ts : Nat, to : Name \cup {Closed}, forced : BOOLEAN]
  BY DEF NoRot
<1>2. NoBatch \in [todo : SUBSET Name, gzs : SUBSET Name, excess : Int]
  BY DEF NoBatch
<1>3. CASE WriteRotate \/ RotateForce
  <2>1. pc # "down" /\ UNCHANGED batch
        /\ \E y \in Days, forced \in BOOLEAN : BeginArchive(y, forced)
    BY <1>3, ArchiveDayIs DEF WriteRotate, RotateForce, WriteBegin, BeginArchive
  <2> QED
    BY <1>0, <2>1, BeginIs DEF LocalsOK
<1>4. CASE \/ \E c \in Configs : Create(c)
           \/ Flush \/ Reopen \/ Close \/ WriteStraight \/ WriteRollover \/ Tick \/ Crash
           \/ MoveAway \/ Rotation \/ UNCHANGED vars
  <2>1. (rot' = rot \/ rot' = NoRot) /\ (batch' = batch \/ batch' = NoBatch)
    <3>1. CASE Rotation
      BY <3>1 DEF Rotation, RenameDone, RenameFails, OpenSame, OpenNew, Rollover, Append
    <3>2. CASE \/ \E c \in Configs : Create(c)
               \/ Flush \/ Reopen \/ Close \/ WriteStraight \/ WriteRollover \/ Tick
               \/ Crash \/ MoveAway \/ UNCHANGED vars
      BY <3>2 DEF Create, Flush, Reopen, Close, WriteStraight, WriteRollover, Tick, Crash,
         MoveAway, vars
    <3> QED
      BY <1>4, <3>1, <3>2
  <2> QED
    BY <1>0, <1>1, <1>2, <2>1 DEF LocalsOK
<1>5. CASE Cleanup
  <2>0. /\ batch \in [todo : SUBSET Name, gzs : SUBSET Name, excess : Int]
        /\ batch.excess \in Int /\ batch.todo \in SUBSET Name /\ batch.gzs \in SUBSET Name
    BY <1>0 DEF LocalsOK
  <2>1. rot' = rot \/ rot' = NoRot
    BY <1>5 DEF Cleanup, Collect, DeleteAged, CompressBegin, CompressWrite, CompressDone,
       DeleteExcess, CompressEnd, CapDelete, CleanupEnd
  <2>2. /\ \A S \in SUBSET Name : Cardinality(S) \in Nat
        /\ cfg.backups \in Int /\ GzCap \in Int
    BY SizesAre, ConfigsAssumption, NumbersAre DEF NumbersOK, GzCap
  <2>3. batch' \in [todo : SUBSET Name, gzs : SUBSET Name, excess : Int]
    <3>1. CASE Collect
      <4>1. DOMAIN disk \subseteq Name
        BY DEF RotInv, TypeOK
      <4>2. Found("plain") \in SUBSET Name /\ Found("gz") \in SUBSET Name
        BY <4>1 DEF Found
      <4>3. \E P \in SUBSET Found("plain"), G \in SUBSET Found("gz") :
               batch' = [todo |-> P, gzs |-> G, excess |-> 0]
        BY <3>1 DEF Collect
      <4> QED
        BY <4>2, <4>3
    <3>2. CASE DeleteAged
      <4> DEFINE left == batch.todo \ Aged
      <4>1. left \in SUBSET Name /\ batch.gzs \ Aged \in SUBSET Name
        BY <2>0
      <4>2. Excess(left) \in Int
        BY <2>2, <4>1 DEF Excess
      <4>3. batch' = [todo |-> left, gzs |-> batch.gzs \ Aged, excess |-> Excess(left)]
        BY <3>2 DEF DeleteAged
      <4> HIDE DEF left
      <4> QED
        BY <4>1, <4>2, <4>3
    <3>3. CASE CompressEnd
      <4> DEFINE x == IF GzCap > 0 THEN Cardinality(batch.gzs) - GzCap ELSE 0
      <4>2. x \in Int
        BY <2>0, <2>2
      <4>3. batch' = [todo |-> {}, gzs |-> batch.gzs, excess |-> x]
        BY <3>3 DEF CompressEnd
      <4> HIDE DEF x
      <4>1. \E z \in Int : batch' = [todo |-> {}, gzs |-> batch.gzs, excess |-> z]
        BY <4>2, <4>3
      <4> QED
        BY <2>0, <4>1
    <3>4. CASE CompressBegin \/ CompressWrite
      <4>1. batch' = batch \/ batch' = Visited
        BY <3>4 DEF CompressBegin, CompressWrite
      <4> QED
        BY <2>0, <4>1 DEF Visited
    <3>5. CASE CompressDone
      <4>1. src \in Name
        BY <3>5, SrcIs DEF CompressDone, RotInv, BatchAgrees
      <4>2. \/ batch' = [Visited EXCEPT !.gzs = @ \cup {src}, !.excess = @ - 1]
            \/ batch' = Visited
        BY <3>5 DEF CompressDone
      <4>3. Visited \in [todo : SUBSET Name, gzs : SUBSET Name, excess : Int]
        BY <2>0 DEF Visited
      <4> DEFINE v == [Visited EXCEPT !.gzs = Visited.gzs \cup {src}]
      <4>4. v \in [todo : SUBSET Name, gzs : SUBSET Name, excess : Int]
        BY <4>1, <4>3
      <4>5. batch' = [v EXCEPT !.excess = Visited.excess - 1] \/ batch' = Visited
        BY <4>2 DEF v
      <4>6. Visited.excess - 1 \in Int
        BY <4>3
      <4> HIDE DEF v
      <4> QED
        BY <4>3, <4>4, <4>5, <4>6
    <3>6. CASE DeleteExcess
      <4>1. batch' = [Visited EXCEPT !.excess = @ - 1] \/ batch' = Visited
        BY <3>6 DEF DeleteExcess
      <4>2. Visited \in [todo : SUBSET Name, gzs : SUBSET Name, excess : Int]
        BY <2>0 DEF Visited
      <4> QED
        BY <4>1, <4>2
    <3>7. CASE CapDelete
      <4>1. PICK e \in batch.gzs :
               \/ batch' = [batch EXCEPT !.gzs = @ \ {e}, !.excess = @ - 1]
               \/ batch' = [batch EXCEPT !.gzs = @ \ {e}]
        BY <3>7 DEF CapDelete
      <4> DEFINE v == [batch EXCEPT !.gzs = batch.gzs \ {e}]
      <4>2. v \in [todo : SUBSET Name, gzs : SUBSET Name, excess : Int]
        BY <2>0
      <4>3. batch' = [v EXCEPT !.excess = batch.excess - 1] \/ batch' = v
        BY <4>1 DEF v
      <4> HIDE DEF v
      <4> QED
        BY <2>0, <4>2, <4>3
    <3>8. CASE CleanupEnd
      BY <1>2, <3>8 DEF CleanupEnd
    <3> QED
      BY <1>5, <3>1, <3>2, <3>3, <3>4, <3>5, <3>6, <3>7, <3>8 DEF Cleanup
  <2> QED
    BY <1>0, <1>1, <2>1, <2>3 DEF LocalsOK
<1> QED
  BY <1>3, <1>4, <1>5 DEF Next, Write

-----------------------------------------------------------------------------
(***************************************************************************)
(* Each step keeps the open file, the dates and the directories.           *)
(***************************************************************************)

\* The cleanup touches archives only, and makes none of a new date.
LEMMA CleanupSpares ==
  ASSUME RotInv, Cleanup
  PROVE  /\ UNCHANGED cleanFrame
         /\ \A f : f.kind \notin {"plain", "gz"} =>
               /\ f \in DOMAIN disk <=> f \in DOMAIN disk'
               /\ f \in DOMAIN disk => disk'[f] = disk[f]
         /\ \A g \in Archives(disk') : \E h \in Archives(disk) :
               h.dir = g.dir /\ h.day = g.day
         /\ pc \in {"collect"} \cup Cleaning
         /\ \/ rot.forced /\ pc' = "idle"
            \/ ~rot.forced /\ pc' = "append"
            \/ rot' = rot /\ pc' \in Cleaning
<1>1. UNCHANGED cleanFrame
  BY DEF Cleanup, Collect, DeleteAged, CompressBegin, CompressWrite, CompressDone,
     DeleteExcess, CompressEnd, CapDelete, CleanupEnd
<1>2. pc \in {"collect"} \cup Cleaning
  BY DEF Cleanup, Collect, DeleteAged, CompressBegin, CompressWrite, CompressDone,
     DeleteExcess, CompressEnd, CapDelete, CleanupEnd, Visits, Cleaning
<1>3. \/ rot.forced /\ pc' = "idle"
      \/ ~rot.forced /\ pc' = "append"
      \/ rot' = rot /\ pc' \in Cleaning
  BY DEF Cleanup, Collect, DeleteAged, CompressBegin, CompressWrite, CompressDone,
     DeleteExcess, CompressEnd, CapDelete, CleanupEnd, Visits, Cleaning, Resume
<1> DEFINE Same == \A f : f.kind \notin {"plain", "gz"} =>
                      /\ f \in DOMAIN disk <=> f \in DOMAIN disk'
                      /\ f \in DOMAIN disk => disk'[f] = disk[f]
           Dates == \A g \in Archives(disk') : \E h \in Archives(disk) :
                       h.dir = g.dir /\ h.day = g.day
<1>4. ASSUME UNCHANGED disk PROVE Same /\ Dates
  BY <1>4 DEF Archives
<1>5. ASSUME NEW G, \A f \in G : f.kind \in {"plain", "gz"},
             disk' = Restrict(disk, DOMAIN disk \ G)
      PROVE  Same /\ Dates
  <2>1. DOMAIN disk' = DOMAIN disk \ G /\ \A f \in DOMAIN disk' : disk'[f] = disk[f]
    BY <1>5, RestrictIs
  <2> QED
    BY <1>5, <2>1 DEF Archives
<1>12. ASSUME NEW g, g.kind \in {"plain", "gz"},
              disk' = Restrict(disk, DOMAIN disk \ {g})
       PROVE  Same /\ Dates
  <2> DEFINE G == {g}
  <2>1. (\A f \in G : f.kind \in {"plain", "gz"}) /\ disk' = Restrict(disk, DOMAIN disk \ G)
    BY <1>12
  <2> HIDE DEF Same, Dates, G
  <2> QED
    BY <1>5, <2>1
<1>6. ASSUME NEW s \in DOMAIN disk, s.kind = "plain", NEW g, g = Gz(s),
             DOMAIN disk' = DOMAIN disk \cup {g},
             \A f \in DOMAIN disk : f # g => disk'[f] = disk[f]
      PROVE  Same /\ Dates
  <2>1. s \in Name
    BY DEF RotInv, TypeOK
  <2>2. g.kind = "gz" /\ g.dir = s.dir /\ g.day = s.day
    BY <1>6, <2>1, NamesAre
  <2>3. Same
    BY <1>6, <2>2
  <2>4. Dates
    BY <1>6, <2>2 DEF Archives
  <2> QED
    BY <2>3, <2>4
<1> HIDE DEF Same, Dates
<1>7. ASSUME Collect \/ CompressEnd \/ CleanupEnd PROVE Same /\ Dates
  BY <1>4, <1>7 DEF Collect, CompressEnd, CleanupEnd
<1>8. ASSUME DeleteAged PROVE Same /\ Dates
  <2>1. PICK F \in SUBSET Aged : disk' = Restrict(disk, DOMAIN disk \ F)
    BY <1>8 DEF DeleteAged, Expire
  <2>2. \A f \in F : f.kind \in {"plain", "gz"}
    BY <1>8 DEF DeleteAged, Aged, RotInv, BatchAgrees
  <2> QED
    BY <1>5, <2>1, <2>2
<1>9. ASSUME DeleteExcess PROVE Same /\ Dates
  <2>1. src.kind = "plain"
    BY <1>9, SrcIs DEF DeleteExcess, Visits
  <2>2. disk' = Restrict(disk, DOMAIN disk \ {src}) \/ UNCHANGED disk
    BY <1>9 DEF DeleteExcess, Expire
  <2> QED
    BY <1>4, <1>12, <2>1, <2>2
<1>10. ASSUME CapDelete PROVE Same /\ Dates
  <2>1. PICK e \in batch.gzs : disk' = Restrict(disk, DOMAIN disk \ {Gz(e)}) \/ UNCHANGED disk
    BY <1>10 DEF CapDelete, Expire
  <2>2. e \in Name
    BY DEF RotInv, LocalsOK
  <2> QED
    BY <1>4, <1>12, <2>1, <2>2, NamesAre
<1>11. ASSUME CompressBegin \/ CompressWrite \/ CompressDone PROVE Same /\ Dates
  <2>1. /\ src \in DOMAIN disk /\ src.kind = "plain" /\ Gz(src).kind = "gz"
    BY <1>11, SrcIs DEF CompressBegin, CompressWrite, CompressDone, Visits, RotInv, BatchAgrees
  <2>2. \/ UNCHANGED disk
        \/ \E c : disk' = With(disk, Gz(src), c)
        \/ disk' = Without(disk, Gz(src))
        \/ pc = "gzip" /\ \E c : disk' = [disk EXCEPT ![Gz(src)] = c]
        \/ disk' = Without(disk, src)
    BY <1>11 DEF CompressBegin, CompressWrite, CompressDone
  <2>3. ASSUME NEW c, disk' = With(disk, Gz(src), c)
        PROVE  Same /\ Dates
    <3>1. DOMAIN disk' = DOMAIN disk \cup {Gz(src)}
          /\ \A f \in DOMAIN disk : f # Gz(src) => disk'[f] = disk[f]
      BY <2>3 DEF With
    <3> QED
      BY <1>6, <2>1, <3>1
  <2>4. ASSUME NEW c, pc = "gzip", disk' = [disk EXCEPT ![Gz(src)] = c]
        PROVE  Same /\ Dates
    <3>1. DOMAIN disk' = DOMAIN disk \cup {Gz(src)}
          /\ \A f \in DOMAIN disk : f # Gz(src) => disk'[f] = disk[f]
      BY <2>4 DEF RotInv, BatchAgrees, Exists
    <3> QED
      BY <1>6, <2>1, <3>1
  <2>5. ASSUME disk' = Without(disk, Gz(src)) \/ disk' = Without(disk, src)
        PROVE  Same /\ Dates
    BY <1>12, <2>1, <2>5 DEF Without
  <2> QED
    BY <1>4, <2>2, <2>3, <2>4, <2>5
<1> QED
  <2>1. Same /\ Dates
    BY <1>7, <1>8, <1>9, <1>10, <1>11 DEF Cleanup
  <2> QED
    BY <1>1, <1>2, <1>3, <2>1 DEF Same, Dates

\* What opening a file leaves.
LEMMA OpenIs ==
  ASSUME RotInv, NEW d, NEW c \in Configs, NEW size, OpenFile(d, c, size)
  PROVE  /\ fp' = Today(c) /\ fp' = Active(active_dir') /\ fp' \in DOMAIN disk'
         /\ disk' = Opened(d, c)
         /\ active_dir' = IF c.subdir THEN Day(now) ELSE 0
<1>1. Today(c) = Active(Today(c).dir) /\ Today(c).dir = IF c.subdir THEN Day(now) ELSE 0
  BY TodayIs
<1>2. disk' = Opened(d, c) /\ fp' = Today(c) /\ active_dir' = Today(c).dir
  BY DEF OpenFile, Opened
<1>3. Today(c) \in DOMAIN Opened(d, c)
  BY DEF Opened, With
<1> QED
  BY <1>1, <1>2, <1>3

FileAgrees == (fp = Closed \/ fp \in DOMAIN disk) /\ OpenAgrees

\* Every step keeps the open file one that exists, where the program has it open.
LEMMA FileStep == RotInv /\ [Next]_vars => FileAgrees'
<1> SUFFICES ASSUME RotInv, [Next]_vars PROVE FileAgrees'
  OBVIOUS
<1> USE DEF sinkVars, opVars, lineHist, runHist
<1>0. /\ fp = Closed \/ fp \in DOMAIN disk
      /\ OpenAgrees /\ cfg \in Configs /\ starts \in Nat
  BY BoundsAssumption DEF RotInv, TypeOK
<1>1. ASSUME NEW c \in Configs, Create(c)
      PROVE  FileAgrees'
  <2>1. fp' = Active(active_dir') /\ fp' \in DOMAIN disk'
    BY <1>1, OpenIs DEF Create
  <2>2. pc' \in {"force", "idle"} /\ starts' # 0
    BY <1>0, <1>1 DEF Create
  <2> QED
    BY <2>1, <2>2 DEF FileAgrees, OpenAgrees
<1>2. CASE Reopen \/ OpenSame \/ OpenNew \/ Rollover
  <2>1. /\ fp' = Closed \/ (fp' = Active(active_dir') /\ fp' \in DOMAIN disk')
        /\ pc' \in {"idle", "append", "collect"} /\ starts' = starts /\ pc # "down"
    <3>1. CASE Reopen
      BY <1>0, <3>1, OpenIs DEF Reopen, OpenFails
    <3>2. CASE OpenSame
      BY <1>0, <3>2, OpenIs DEF OpenSame, OpenFails, Resume
    <3>3. CASE OpenNew
      BY <1>0, <3>3, OpenIs DEF OpenNew, OpenFails, Resume
    <3>4. CASE Rollover
      BY <1>0, <3>4, OpenIs DEF Rollover, OpenFails
    <3> QED
      BY <1>2, <3>1, <3>2, <3>3, <3>4
  <2> QED
    BY <1>0, <2>1 DEF FileAgrees, OpenAgrees
<1>3. CASE Flush
  BY <1>0, <1>3, FlushedIs DEF Flush, FileAgrees, OpenAgrees
<1>4. CASE Close \/ WriteRollover \/ WriteRotate \/ RotateForce
  <2>1. fp' = Closed /\ pc' # "idle" /\ starts' = starts /\ pc # "down"
    BY <1>4 DEF Close, WriteRollover, WriteRotate, RotateForce, BeginArchive, CloseFile, WriteBegin
  <2> QED
    BY <1>0, <2>1 DEF FileAgrees, OpenAgrees
<1>5. CASE WriteStraight \/ RenameFails \/ Append \/ Tick \/ UNCHANGED vars
  BY <1>0, <1>5 DEF WriteStraight, WriteBegin, RenameFails, Append, Tick, vars, FileAgrees,
     OpenAgrees
<1>6. CASE RenameDone
  BY <1>0, <1>6 DEF RenameDone, FileAgrees, OpenAgrees
<1>7. CASE Crash
  BY <1>0, <1>7 DEF Crash, FileAgrees, OpenAgrees
<1>8. CASE MoveAway
  <2>1. DOMAIN disk' = (DOMAIN disk \ {Active(active_dir)}) \cup {Moved}
    BY <1>8 DEF MoveAway, Rename, With, Without, Restrict
  <2> QED
    BY <1>0, <1>8, <2>1 DEF MoveAway, FileAgrees, OpenAgrees
<1>9. CASE Cleanup
  <2>1. /\ UNCHANGED cleanFrame /\ pc' \notin {"down", "rollover", "rename", "reopen", "open"}
        /\ pc # "down"
    BY <1>9, CleanupSpares DEF Cleaning
  <2>2. fp = Closed \/ fp \in DOMAIN disk'
    <3>1. fp # Closed => fp.kind \notin {"plain", "gz"}
      BY <1>0 DEF OpenAgrees, Active, Moved
    <3> QED
      BY <1>0, <1>9, <3>1, CleanupSpares
  <2> QED
    BY <1>0, <2>1, <2>2 DEF cleanFrame, FileAgrees, OpenAgrees
<1> QED
  BY <1>1, <1>2, <1>3, <1>4, <1>5, <1>6, <1>7, <1>8, <1>9 DEF Next, Write, Rotation

\* Every step keeps the types, the open file and the files.
LEMMA TypesStep ==
  RotInv /\ [Next]_vars => TypeOK' /\ LocalsOK' /\ OpenAgrees' /\ FilesHold' /\ OrderHolds'
<1> SUFFICES ASSUME RotInv, [Next]_vars
             PROVE  TypeOK' /\ LocalsOK' /\ OpenAgrees' /\ FilesHold' /\ OrderHolds'
  OBVIOUS
<1>1. NumbersOK' /\ FlagsOK' /\ LineSetsOK' /\ LocalsOK' /\ FileAgrees' /\ FilesKept'
  BY NumbersStep, FlagsStep, LineSetsStep, LocalsStep, FileStep, FilesStep
<1>2. rot'.to = Closed \/ rot'.to \in Name
  BY <1>1 DEF LocalsOK
<1>3. /\ DOMAIN disk' \subseteq Name
      /\ \A f \in DOMAIN disk' : /\ disk'[f].bytes \subseteq BytesUpTo(n')
                                 /\ disk'[f].mtime \in 0..now'
                                 /\ disk'[f].whole \in BOOLEAN
  BY <1>1 DEF FilesKept, FilesHold, FilesOK, LineSetsOK
<1>4. TypeOK'
  BY <1>1, <1>2, <1>3 DEF TypeOK, NumbersOK, FlagsOK, LineSetsOK, FileAgrees
<1> QED
  BY <1>1, <1>4 DEF FileAgrees, FilesKept

\* Every step keeps the buffer ahead of the files and the line being written new.
LEMMA LinesOrderedStep == RotInv /\ [Next]_vars => LinesOrdered'
<1> SUFFICES ASSUME RotInv, [Next]_vars PROVE LinesOrdered'
  OBVIOUS
<1> USE DEF sinkVars, opVars, lineHist, runHist
<1>0. /\ LinesOrdered /\ n \in Nat /\ flushed \subseteq BytesUpTo(n) /\ buf \subseteq BytesUpTo(n)
      /\ rot.forced \in BOOLEAN
  BY BoundsAssumption DEF RotInv, TypeOK, LocalsOK
<1>1. CASE (\E c \in Configs : Create(c)) \/ Flush \/ Reopen \/ Close \/ Crash \/ MoveAway
  <2>1. /\ pc' \in {"idle", "force", "down"} /\ n' = n
        /\ buf' = {} \/ UNCHANGED <<flushed, buf>>
    BY <1>1 DEF Create, Flush, Reopen, Close, CloseFile, Crash, MoveAway
  <2> QED
    BY <1>0, <2>1 DEF LinesOrdered, Rotating, Cleaning
<1>2. CASE WriteStraight \/ WriteRollover \/ WriteRotate
  <2>1. /\ n' = n + 1 /\ flushed' \cup buf' = flushed \cup buf
        /\ buf' = {} \/ UNCHANGED <<flushed, buf>>
    BY <1>2 DEF WriteStraight, WriteRollover, WriteRotate, WriteBegin, BeginArchive, CloseFile
  <2>2. n' > 0 /\ \A l \in flushed' \cup buf' : l[1] < n'
    BY <1>0, <2>1, BytesGrow
  <2> QED
    BY <1>0, <2>1, <2>2 DEF LinesOrdered
<1>3. CASE RotateForce
  <2>1. pc' = "rename" /\ buf' = {} /\ rot'.forced = TRUE
    BY <1>3 DEF RotateForce, BeginArchive, CloseFile
  <2> QED
    BY <2>1 DEF LinesOrdered
<1>4. CASE RenameDone \/ RenameFails \/ Tick \/ UNCHANGED vars
  <2>1. /\ UNCHANGED <<n, flushed, buf, rot>>
        /\ pc' = pc \/ (pc = "rename" /\ pc' \in {"open", "reopen"})
    BY <1>4 DEF RenameDone, RenameFails, Tick, vars
  <2> QED
    BY <1>0, <2>1 DEF LinesOrdered, Rotating
<1>5. CASE OpenSame \/ OpenNew \/ Rollover
  <2>1. /\ UNCHANGED <<n, flushed, buf>>
        /\ \/ pc = "rollover" /\ pc' = "append"
           \/ /\ pc \in {"open", "reopen"}
              /\ \/ rot.forced /\ pc' = "idle"
                 \/ ~rot.forced /\ pc' = "append"
                 \/ rot' = rot /\ pc' = "collect"
    BY <1>5 DEF OpenSame, OpenNew, Rollover, Resume
  <2> QED
    BY <1>0, <2>1 DEF LinesOrdered, Rotating, Cleaning
<1>6. CASE Append
  <2>1. /\ pc' = "idle" /\ UNCHANGED <<n, flushed>>
        /\ buf' = buf \/ \E w \in 0..incoming : buf' = buf \cup ({n} \X (1..w))
        /\ \A l \in flushed : l[1] < n
    BY <1>6 DEF Append, RotInv, LinesOrdered
  <2>2. \A w \in 0..incoming : w \in Nat
    BY NumbersAre DEF NumbersOK
  <2>3. \A l \in flushed, m \in buf' : Before(l, m)
    BY <1>0, <2>1, <2>2, LineIs DEF LinesOrdered, Before
  <2> QED
    BY <2>1, <2>3 DEF LinesOrdered, Rotating, Cleaning
<1>7. CASE Cleanup
  <2>1. /\ UNCHANGED <<n, flushed, buf>> /\ pc \in {"collect"} \cup Cleaning
        /\ \/ rot.forced /\ pc' = "idle"
           \/ ~rot.forced /\ pc' = "append"
           \/ rot' = rot /\ pc' \in Cleaning
    BY <1>7, CleanupSpares DEF cleanFrame
  <2> QED
    BY <1>0, <2>1 DEF LinesOrdered, Rotating, Cleaning
<1> QED
  BY <1>1, <1>2, <1>3, <1>4, <1>5, <1>6, <1>7 DEF Next, Write, Rotation

\* Outside a cleanup no archive comes to be but by the rename of a rotation.
LEMMA ArchivesStay ==
  ASSUME RotInv, [Next]_vars, ~Cleanup
  PROVE  \/ Archives(disk') \subseteq Archives(disk)
         \/ RenameDone /\ Archives(disk') \subseteq Archives(disk) \cup {rot.to}
<1> USE DEF sinkVars, opVars, lineHist, runHist
<1>0. cfg \in Configs /\ DiskOK(disk, flushed, Gone, now)
      /\ DiskOK(Flushed, flushed \cup buf, Gone, now) /\ Archives(Flushed) = Archives(disk)
  BY DiskHolds, FlushKeeps DEF RotInv, TypeOK
<1>2. CASE RenameDone
  <2>1. /\ rot.to \in Name /\ rot.to.kind = "plain" /\ rot.to.dir = active_dir
        /\ ~blind => \A a \in Archives(disk) : a.dir = active_dir => Key(a) < Key(rot.to)
    BY <1>2 DEF RenameDone, RotInv, NameIsNewest
  <2> QED
    BY <1>2, <2>1, RenameKeeps DEF RenameDone
<1>3. CASE MoveAway
  <2>1. Archives(disk') \subseteq Archives(disk) \cup {Moved}
    BY <1>3, NamesAre, RenameKeeps DEF MoveAway
  <2> QED
    BY <2>1, NamesAre DEF Archives
<1>4. ASSUME ~RenameDone, ~MoveAway
      PROVE  Archives(disk') = Archives(disk)
  <2>1. CASE \/ WriteStraight \/ RenameFails \/ Append \/ Tick \/ Crash
             \/ UNCHANGED vars
    BY <2>1 DEF WriteStraight, RenameFails, Append, Tick, Crash, vars
  <2>2. CASE Flush \/ Close \/ WriteRollover \/ WriteRotate \/ RotateForce
    BY <1>0, <2>2 DEF Flush, Close, WriteRollover, WriteRotate, RotateForce, BeginArchive
  <2>3. CASE OpenSame \/ OpenNew \/ Rollover \/ \E c \in Configs : Create(c)
    <3>1. disk' = disk \/ \E c \in Configs : disk' = Opened(disk, c)
      BY <1>0, <2>3 DEF OpenSame, OpenNew, Rollover, Create, OpenFile, OpenFails, Opened
    <3> QED
      BY <1>0, <3>1, OpenKeeps
  <2>4. CASE Reopen
    <3>1. disk' = Flushed \/ disk' = Opened(Flushed, cfg)
      BY <2>4 DEF Reopen, OpenFile, OpenFails, Opened
    <3> QED
      BY <1>0, <3>1, OpenKeeps
  <2> QED
    BY <1>4, <2>1, <2>2, <2>3, <2>4 DEF Next, Write, Rotation
<1> QED
  BY <1>2, <1>3, <1>4

\* The archives after a step: those before, and what a rotation adds.
LEMMA ArchivesAre ==
  ASSUME RotInv, [Next]_vars, NEW g \in Archives(disk')
  PROVE  \/ \E h \in Archives(disk) : h.dir = g.dir /\ h.day = g.day
         \/ RenameDone /\ g = rot.to
BY CleanupSpares, ArchivesStay

\* The next index of a date is beyond those in use.
LEMMA NextIndexIs ==
  ASSUME RotInv, NEW y
  PROVE  \A g \in Archives(disk) : g.dir = active_dir /\ g.day = y
                                      => g.index < NextIndex(y)
<1> DEFINE S == {0} \cup UsedIndices(y)
           K == MaxLines + MaxFaults + MaxStarts
<1>1. DOMAIN disk \subseteq Name
  BY DEF RotInv, TypeOK
<1>2. K \in Nat
  BY BoundsAssumption
<1>3. \A f \in DOMAIN disk : f.index \in 0..K
  BY <1>1 DEF Name, Index
<1>4. UsedIndices(y) \subseteq 0..K
  BY <1>3 DEF UsedIndices
<1> HIDE DEF K
<1>5. S \in SUBSET (0..K) /\ S # {}
  BY <1>2, <1>4
<1>6. Max(S) \in 0..K /\ \A x \in S : x <= Max(S)
  BY <1>2, <1>5, NatMax
<1>7. NextIndex(y) = 1 + Max(S)
  BY DEF NextIndex
<1>8. \A g \in Archives(disk) : g.dir = active_dir /\ g.day = y => g.index \in S
  BY DEF Archives, UsedIndices
<1> HIDE DEF S
<1> QED
  BY <1>3, <1>6, <1>7, <1>8 DEF Archives

\* The date of the next archive is not before any date in use.
LEMMA DateIsLatest ==
  ASSUME RotInv, pc # "down"
  PROVE  /\ DatedBy(ArchiveDay) /\ ArchiveDay <= Day(now)
         /\ ByTime /\ (cfg.policy # "NONE" \/ cfg.daily) => ArchiveDay = Day(opened_sec)
         /\ Day(opened_sec) <= Day(now)
         /\ Day(now) \in Nat /\ Day(opened_sec) \in Nat
<1>1. /\ DatedBy(Day(now)) /\ opened_sec \in 1..now /\ cur_day = Day(opened_sec)
      /\ ByTime => DatedBy(Day(opened_sec))
      /\ now \in Nat
  BY ClockIs DEF RotInv, DatesAgree
<1>2. /\ Day(opened_sec) <= Day(now) /\ Day(now) \in Nat /\ Day(opened_sec) \in Nat
      /\ opened_sec > 0
  BY <1>1, DayIs
<1>3. NeedTime => ByTime
  BY DEF NeedTime, NeedDaily, NeedInterval, ByTime
<1>4. ~NeedTime /\ ByTime => Day(now) = cur_day
  BY DEF NeedTime, NeedDaily, ByTime
<1> QED
  BY <1>1, <1>2, <1>3, <1>4 DEF ArchiveDay

\* Where a rotation and a rollover begin and end.
LEMMA RotationPath ==
  ASSUME RotInv, [Next]_vars
  PROVE  /\ pc' = "rename" => \/ WriteRotate \/ RotateForce
                              \/ pc = "rename" /\ UNCHANGED <<disk, rot, active_dir, blind>>
         /\ pc' = "open" => \/ RenameDone
                            \/ pc = "open" /\ UNCHANGED <<disk, active_dir>>
         /\ pc' = "rollover" => WriteRollover \/ pc = "rollover"
<1> USE DEF sinkVars, opVars, lineHist, runHist
<1>1. CASE Cleanup
  BY <1>1, CleanupSpares DEF Cleaning
<1>2. CASE Rotation
  BY <1>2 DEF Rotation, RenameDone, RenameFails, OpenSame, OpenNew, Rollover, Append, Resume
<1>3. CASE \/ \E c \in Configs : Create(c)
           \/ Flush \/ Reopen \/ Close \/ Crash \/ MoveAway
           \/ WriteStraight \/ WriteRollover \/ WriteRotate \/ RotateForce
  BY <1>3 DEF Create, Flush, Reopen, Close, Crash, MoveAway, WriteStraight, WriteRollover,
     WriteRotate, RotateForce, BeginArchive
<1>4. CASE Tick \/ UNCHANGED vars
  BY <1>4 DEF Tick, vars
<1> QED
  BY <1>1, <1>2, <1>3, <1>4 DEF Next, Write

\* A rotation begins with a name newer than every archive's beside it.
LEMMA NameStep == RotInv /\ [Next]_vars => NameIsNewest'
<1> SUFFICES ASSUME RotInv, [Next]_vars, pc' = "rename" PROVE NameIsNewest'
  BY DEF NameIsNewest
<1> USE DEF sinkVars, opVars, lineHist, runHist
<1>1. CASE UNCHANGED <<disk, pc, rot, active_dir, blind>>
  BY <1>1 DEF RotInv, NameIsNewest
<1>2. ASSUME NEW y \in Days, NEW forced \in BOOLEAN, BeginArchive(y, forced), DatedBy(y)
      PROVE  NameIsNewest'
  <2>1. Archives(disk') = Archives(disk) /\ active_dir' = active_dir
    BY <1>2, FlushKeeps DEF BeginArchive
  <2>2. /\ rot'.to \in Name /\ rot'.to.kind = "plain" /\ rot'.to.dir = active_dir
        /\ rot'.to.day = y
        /\ ~blind' => rot'.to.index = NextIndex(y)
    BY <1>2, BeginIs
  <2>3. ASSUME ~blind', NEW g \in Archives(disk), g.dir = active_dir
        PROVE  Key(g) < Key(rot'.to)
    <3>1. g \in Name /\ g.day <= y /\ y \in Nat /\ g.day \in Nat
      BY <1>2, DaysAre DEF RotInv, TypeOK, Archives, DatedBy, Name
    <3>2. g.day = y => g.index < NextIndex(y)
      BY <2>3, NextIndexIs
    <3>3. g.day < rot'.to.day \/ (g.day = rot'.to.day /\ g.index < rot'.to.index)
      BY <2>2, <2>3, <3>1, <3>2
    <3> QED
      BY <2>2, <3>1, <3>3, KeyOrder
  <2> QED
    BY <2>1, <2>2, <2>3 DEF NameIsNewest
<1>3. CASE WriteRotate
  BY <1>2, <1>3, DateIsLatest, ArchiveDayIs DEF WriteRotate, WriteBegin
<1>4. CASE RotateForce
  <2>1. Day(opened_sec) \in Days /\ DatedBy(Day(opened_sec))
    BY <1>4, ArchiveDayIs DEF RotateForce, RotInv, DatesAgree
  <2> QED
    BY <1>2, <1>4, <2>1 DEF RotateForce
<1>5. CASE pc = "rename" /\ UNCHANGED <<disk, rot, active_dir, blind>>
  BY <1>1, <1>5
<1> QED
  BY <1>3, <1>4, <1>5, RotationPath

\* A step either opens a file, which dates everything anew, or fails to and
\* leaves only a new directory, or leaves what was opened last.
LEMMA OpeningStep ==
  ASSUME RotInv, [Next]_vars
  PROVE  /\ now <= now'
         /\ \/ /\ cfg' \in Configs /\ opened_sec' = now /\ cur_day' = Day(now)
               /\ active_dir' = IF cfg'.subdir THEN Day(now) ELSE 0
               /\ fp' = Active(active_dir')
               /\ pc' \notin {"down", "rename", "rollover", "open"}
            \/ /\ UNCHANGED <<opened_sec, cur_day, cfg>> /\ fp' \in {Closed, fp, Moved}
               /\ pc' # "down" => pc # "down"
               /\ pc' = "force" => pc = "force"
               /\ \/ active_dir' = active_dir
                  \/ /\ active_dir' = IF cfg.subdir THEN Day(now) ELSE 0
                     /\ pc' \notin {"down", "rename", "rollover", "open"}
<1> USE DEF sinkVars, opVars, lineHist, runHist
<1>0. now \in Nat /\ cfg \in Configs
  BY ClockIs, NumbersAre DEF NumbersOK
<1>1. ASSUME NEW c \in Configs, Create(c)
      PROVE  /\ now <= now'
             /\ cfg' \in Configs /\ opened_sec' = now /\ cur_day' = Day(now)
             /\ active_dir' = IF cfg'.subdir THEN Day(now) ELSE 0
             /\ fp' = Active(active_dir')
             /\ pc' \notin {"down", "rename", "rollover", "open"}
  BY <1>0, <1>1, OpenIs DEF Create, OpenFile
<1>2. CASE Reopen \/ OpenSame \/ OpenNew \/ Rollover
  <2>1. /\ UNCHANGED <<now, cfg>> /\ pc' \in {"idle", "append", "collect"} /\ pc # "down"
    BY <1>2 DEF Reopen, OpenSame, OpenNew, Rollover, Resume
  <2>2. \E d : (\E size : OpenFile(d, cfg, size)) \/ OpenFails(d)
    BY <1>2 DEF Reopen, OpenSame, OpenNew, Rollover
  <2>3. ASSUME NEW d, OpenFails(d)
        PROVE  /\ UNCHANGED <<opened_sec, cur_day>> /\ fp' = Closed
               /\ active_dir' = IF cfg.subdir THEN Day(now) ELSE 0
    BY <1>0, <2>3, TodayIs DEF OpenFails
  <2>4. ASSUME NEW d, NEW size, OpenFile(d, cfg, size)
        PROVE  /\ opened_sec' = now /\ cur_day' = Day(now) /\ fp' = Active(active_dir')
               /\ active_dir' = IF cfg.subdir THEN Day(now) ELSE 0
    BY <1>0, <2>4, OpenIs DEF OpenFile
  <2> QED
    BY <1>0, <2>1, <2>2, <2>3, <2>4
<1>3. CASE Flush \/ Close \/ WriteStraight \/ WriteRollover \/ WriteRotate \/ RotateForce
           \/ Tick \/ Crash \/ MoveAway \/ UNCHANGED vars
  <2>1. /\ UNCHANGED <<opened_sec, cur_day, cfg, active_dir>> /\ now' \in {now, now + 1}
        /\ pc' = pc \/ pc' \in {"down", "append", "rollover", "rename"}
    BY <1>3 DEF Flush, Close, WriteStraight, WriteRollover, WriteRotate, RotateForce,
       BeginArchive, Tick, Crash, MoveAway, vars
  <2>2. (pc' # "down" => pc # "down") /\ fp' \in {Closed, fp, Moved}
    BY <1>3 DEF Flush, Close, CloseFile, WriteStraight, WriteRollover, WriteRotate, WriteBegin,
       RotateForce, BeginArchive, Tick, Crash, MoveAway, vars
  <2> QED
    BY <1>0, <2>1, <2>2
<1>4. CASE RenameDone \/ RenameFails \/ Append
  BY <1>0, <1>4 DEF RenameDone, RenameFails, Append
<1>5. CASE Cleanup
  BY <1>0, <1>5, CleanupSpares DEF cleanFrame, Cleaning
<1> QED
  BY <1>1, <1>2, <1>3, <1>4, <1>5 DEF Next, Write, Rotation

\* Every step keeps the dates: none is ahead of the clock, and with a policy by
\* time none is ahead of the day the file was opened.
LEMMA DatesStep == RotInv /\ [Next]_vars => DatesAgree'
<1> SUFFICES ASSUME RotInv, [Next]_vars PROVE DatesAgree'
  OBVIOUS
<1>0. /\ now \in Nat /\ now > 0 /\ now' \in Nat /\ now <= now' /\ DatesAgree
      /\ Day(now) \in Nat /\ Day(now') \in Nat /\ Day(now) <= Day(now')
      /\ cfg \in Configs
  <2>1. now \in Nat /\ now > 0 /\ now' \in Nat /\ cfg \in Configs
    BY ClockIs, NumbersAre, NumbersStep, BoundsAssumption DEF NumbersOK
  <2>2. now <= now'
    BY OpeningStep
  <2>3. Day(now) \in Nat /\ Day(now') \in Nat /\ Day(now) <= Day(now')
    BY <2>1, <2>2, DayIs
  <2> QED
    BY <2>1, <2>2, <2>3 DEF RotInv
<1>1. \A g \in Archives(disk') : g.day \in Nat /\ g.day <= Day(now)
  <2> SUFFICES ASSUME NEW g \in Archives(disk')
               PROVE  g.day \in Nat /\ g.day <= Day(now)
    OBVIOUS
  <2>1. g.day \in Nat
    BY TypesStep, DaysAre DEF TypeOK, Archives, Name
  <2>2. RenameDone => rot.to.day <= Day(now)
    BY <1>0 DEF RenameDone, DatesAgree
  <2> QED
    BY <1>0, <2>1, <2>2, ArchivesAre DEF DatesAgree, DatedBy
<1>2. DatedBy(Day(now))'
  BY <1>0, <1>1 DEF DatedBy
<1>3. \/ cfg' \in Configs /\ opened_sec' = now /\ cur_day' = Day(now)
         /\ pc' # "rename"
      \/ /\ UNCHANGED <<opened_sec, cur_day, cfg>>
         /\ pc' # "down" => pc # "down"
         /\ pc' = "force" => pc = "force"
  BY OpeningStep
<1>4. ASSUME pc' # "down" PROVE opened_sec' \in 1..now' /\ cur_day' = Day(opened_sec')
  BY <1>0, <1>3, <1>4 DEF DatesAgree
<1>5. ASSUME pc' # "down", ByTime' \/ pc' = "force" PROVE DatedBy(Day(opened_sec))'
  <2>1. CASE opened_sec' = now
    BY <1>1, <2>1 DEF DatedBy
  <2>2. CASE UNCHANGED <<opened_sec, cfg>> /\ pc # "down" /\ (pc' = "force" => pc = "force")
    <3>1. ByTime \/ pc = "force"
      BY <1>5, <2>2 DEF ByTime
    <3>2. DatedBy(Day(opened_sec))
      BY <1>0, <2>2, <3>1 DEF DatesAgree
    <3>3. RenameDone => rot.to.day <= Day(opened_sec)
      BY <1>0, <3>1 DEF DatesAgree, RenameDone
    <3>4. \A g \in Archives(disk') : g.day <= Day(opened_sec)
      BY <3>2, <3>3, ArchivesAre DEF DatedBy
    <3> QED
      BY <2>2, <3>4 DEF DatedBy
  <2> QED
    BY <1>3, <1>5, <2>1, <2>2
<1>6. ASSUME pc' = "rename"
      PROVE  /\ rot'.to.day <= Day(now')
             /\ ByTime' => rot'.to.day <= Day(opened_sec')
  <2>0. UNCHANGED <<opened_sec, cfg>> /\ pc # "down" /\ (ByTime' => ByTime)
    BY <1>3, <1>6 DEF ByTime
  <2>1. /\ ArchiveDay <= Day(now) /\ Day(opened_sec) <= Day(now)
        /\ ByTime => ArchiveDay = Day(opened_sec)
        /\ ArchiveDay \in Nat /\ Day(opened_sec) \in Nat
    BY <2>0, DateIsLatest, ArchiveDayIs, DaysAre DEF ByTime
  <2>2. CASE WriteRotate
    <3>1. rot'.to.day = ArchiveDay
      BY <2>0, <2>2, ArchiveDayIs, BeginIs DEF WriteRotate
    <3> QED
      BY <1>0, <2>0, <2>1, <3>1
  <2>3. CASE RotateForce
    <3>1. rot'.to.day = Day(opened_sec)
      BY <2>0, <2>3, ArchiveDayIs, BeginIs DEF RotateForce
    <3> QED
      BY <1>0, <2>0, <2>1, <3>1
  <2>4. CASE pc = "rename" /\ rot' = rot
    <3>1. rot.to.day \in Nat
      BY <2>4, DaysAre DEF RotInv, NameIsNewest, Name
    <3> QED
      BY <1>0, <2>0, <2>4, <3>1 DEF DatesAgree
  <2> QED
    BY <1>6, <2>2, <2>3, <2>4, RotationPath
<1> QED
  BY <1>2, <1>4, <1>5, <1>6 DEF DatesAgree

\* A step makes no active file but the one it opens.
LEMMA ActivesAre ==
  ASSUME RotInv, [Next]_vars, NEW f \in DOMAIN disk', f.kind = "active"
  PROVE  f \in DOMAIN disk \/ f = fp'
<1> USE DEF sinkVars, opVars, lineHist, runHist
<1>0. cfg \in Configs /\ DiskOK(disk, flushed, Gone, now)
      /\ DiskOK(Flushed, flushed \cup buf, Gone, now) /\ DOMAIN Flushed = DOMAIN disk
  BY DiskHolds, FlushKeeps, FlushedIs DEF RotInv, TypeOK
<1>1. CASE Cleanup
  BY <1>1, CleanupSpares
<1>2. CASE RenameDone \/ MoveAway
  <2>1. \E to : to.kind # "active" /\ disk' = Rename(disk, Active(active_dir), to)
    BY <1>2, NamesAre DEF RenameDone, MoveAway, RotInv, NameIsNewest
  <2>2. PICK to : to.kind # "active" /\ disk' = Rename(disk, Active(active_dir), to)
    BY <2>1
  <2>3. DOMAIN disk' \subseteq DOMAIN disk \cup {to}
    BY <2>2 DEF Rename, With, Without, Restrict
  <2> QED
    BY <2>2, <2>3
<1>3. CASE \/ WriteStraight \/ RenameFails \/ Append \/ Tick \/ Crash \/ UNCHANGED vars
           \/ Flush \/ Close \/ WriteRollover \/ WriteRotate \/ RotateForce
  <2>1. disk' = disk \/ disk' = Flushed
    BY <1>3 DEF WriteStraight, RenameFails, Append, Tick, Crash, vars, Flush, Close,
       WriteRollover, WriteRotate, RotateForce, BeginArchive
  <2> QED
    BY <1>0, <2>1
<1>4. CASE OpenSame \/ OpenNew \/ Rollover \/ Reopen \/ \E c \in Configs : Create(c)
  <2>1. \/ disk' = disk \/ disk' = Flushed
        \/ \E c \in Configs : /\ disk' = Opened(disk, c) \/ disk' = Opened(Flushed, c)
                              /\ fp' = Today(c)
    BY <1>0, <1>4 DEF OpenSame, OpenNew, Rollover, Reopen, Create, OpenFile, OpenFails, Opened
  <2>2. \A c \in Configs : /\ DOMAIN Opened(disk, c) = DOMAIN disk \cup {Today(c)}
                           /\ DOMAIN Opened(Flushed, c) = DOMAIN disk \cup {Today(c)}
    BY <1>0, OpenKeeps
  <2> QED
    BY <1>0, <2>1, <2>2
<1> QED
  BY <1>1, <1>2, <1>3, <1>4 DEF Next, Write, Rotation

\* The day that was opened last is the latest with an active file, so a later
\* one starts with an empty file.
LEMMA LatestDir ==
  ASSUME RotInv, pc # "down"
  PROVE  /\ cur_day \in Nat /\ active_dir \in Nat /\ Day(now) \in Nat /\ cur_day <= Day(now)
         /\ cfg \in Configs
         /\ pc \in {"open", "rollover"} => Today(cfg) \notin DOMAIN disk
<1>1. /\ cur_day \in Nat /\ active_dir \in Nat /\ Day(now) \in Nat /\ cfg \in Configs
  BY NumbersAre, DaysAre, ClockIs DEF NumbersOK
<1>2. cur_day = Day(opened_sec) /\ opened_sec \in Nat /\ opened_sec <= now /\ now \in Nat
  BY ClockIs DEF RotInv, DatesAgree
<1>3. cur_day <= Day(now)
  BY <1>2, DayIs
<1>4. /\ Today(cfg) = Active(Today(cfg).dir) /\ Today(cfg).kind = "active"
      /\ Today(cfg).dir = IF cfg.subdir THEN Day(now) ELSE 0
  BY <1>1, TodayIs
<1>5. CASE pc = "rollover"
  <2>1. cfg.subdir /\ cur_day < Day(now) /\ \A f \in DOMAIN disk : f.kind = "active" => f.dir <= cur_day
    BY <1>5 DEF RotInv, DirsAgree
  <2> QED
    BY <1>1, <1>3, <1>4, <1>5, <2>1
<1>6. CASE pc = "open"
  <2>1. Active(active_dir) \notin DOMAIN disk
    BY <1>6 DEF RotInv, DirsAgree, Exists
  <2>2. CASE active_dir = Today(cfg).dir
    BY <1>1, <1>3, <1>4, <1>6, <2>1, <2>2
  <2>3. CASE active_dir # Today(cfg).dir
    <3>1. /\ cfg.subdir /\ cur_day <= active_dir /\ active_dir <= Day(now)
          /\ \A f \in DOMAIN disk : f.kind = "active" => f.dir <= cur_day
      BY <1>4, <1>6, <2>3 DEF RotInv, DirsAgree
    <3> QED
      BY <1>1, <1>3, <1>4, <1>6, <2>3, <3>1
  <2> QED
    BY <2>2, <2>3
<1> QED
  BY <1>1, <1>3, <1>5, <1>6

\* Every step keeps the directories in the order of the days.
LEMMA DirsStep == RotInv /\ [Next]_vars => DirsAgree'
<1> SUFFICES ASSUME RotInv, [Next]_vars PROVE DirsAgree'
  OBVIOUS
<1>0. /\ now \in Nat /\ now' \in Nat /\ now <= now' /\ DirsAgree
      /\ Day(now) \in Nat /\ Day(now') \in Nat /\ Day(now) <= Day(now')
      /\ OpenAgrees
  <2>1. now \in Nat /\ now' \in Nat
    BY ClockIs, NumbersStep, BoundsAssumption DEF NumbersOK
  <2>2. now <= now'
    BY OpeningStep
  <2>3. Day(now) \in Nat /\ Day(now') \in Nat /\ Day(now) <= Day(now')
    BY <2>1, <2>2, DayIs
  <2> QED
    BY <2>1, <2>2, <2>3 DEF RotInv
<1>1. \A f \in DOMAIN disk' : f.kind = "active" => f.dir \in Nat
  BY TypesStep, DaysAre DEF TypeOK, Name
<1>2. CASE /\ cfg' \in Configs /\ opened_sec' = now /\ cur_day' = Day(now)
           /\ active_dir' = IF cfg'.subdir THEN Day(now) ELSE 0
           /\ fp' = Active(active_dir')
           /\ pc' \notin {"down", "rename", "rollover", "open"}
  <2>1. active_dir' <= Day(now) /\ active_dir' \in Days
    <3>1. active_dir' \in Days
      BY NumbersStep DEF NumbersOK
    <3> QED
      BY <1>0, <1>2, <3>1
  <2>2. \A f \in DOMAIN disk' : f.kind = "active" => f \in DOMAIN disk \/ f.dir = active_dir'
    BY <1>2, <2>1, ActivesAre, NamesAre
  <2>3. \A f \in DOMAIN disk' : f.kind = "active" => f.dir <= Day(now)
    BY <1>0, <2>1, <2>2 DEF DirsAgree
  <2>4. \A f \in DOMAIN disk' : f.kind = "active" => f.dir <= Day(now')
    BY <1>0, <1>1, <2>3
  <2> QED
    BY <1>0, <1>2, <2>1, <2>3, <2>4 DEF DirsAgree
<1>3. CASE /\ UNCHANGED <<opened_sec, cur_day, cfg>> /\ fp' \in {Closed, fp, Moved}
           /\ pc' # "down" => pc # "down"
           /\ \/ active_dir' = active_dir
              \/ /\ active_dir' = IF cfg.subdir THEN Day(now) ELSE 0
                 /\ pc' \notin {"down", "rename", "rollover", "open"}
  <2>1. \A f \in DOMAIN disk' : f.kind = "active" => f \in DOMAIN disk
    <3>1. fp \in DOMAIN disk \/ fp = Closed
      BY DEF RotInv, TypeOK
    <3>2. Moved.kind # "active" /\ Closed.kind # "active"
      BY DEF Moved, Closed
    <3> QED
      BY <1>3, <3>1, <3>2, ActivesAre
  <2>2. \A f \in DOMAIN disk' : f.kind = "active" => f.dir <= Day(now')
    <3>1. \A f \in DOMAIN disk' : f.kind = "active" => f.dir <= Day(now)
      BY <1>0, <2>1 DEF DirsAgree
    <3> QED
      BY <1>0, <1>1, <3>1
  <2>3. ASSUME pc' # "down", cfg'.subdir
        PROVE  /\ cur_day' <= active_dir' /\ active_dir' <= Day(now')
               /\ \A f \in DOMAIN disk' : f.kind = "active" => f.dir <= cur_day'
    <3>1. pc # "down" /\ cfg.subdir
      BY <1>3, <2>3
    <3>2. /\ cur_day <= active_dir /\ active_dir <= Day(now)
          /\ \A f \in DOMAIN disk : f.kind = "active" => f.dir <= cur_day
          /\ cur_day \in Nat /\ active_dir \in Nat /\ cur_day <= Day(now)
      BY <1>0, <3>1, LatestDir DEF DirsAgree
    <3> QED
      BY <1>0, <1>3, <2>1, <3>1, <3>2
  <2>4. ASSUME pc' # "down", ~cfg'.subdir PROVE active_dir' = 0
    BY <1>0, <1>3, <2>4 DEF DirsAgree
  <2>5. ASSUME pc' = "rollover" PROVE cfg'.subdir /\ cur_day' < Day(now')
    <3>1. pc # "down"
      BY <1>3, <2>5
    <3>2. cur_day \in Nat /\ cur_day <= Day(now)
      BY <3>1, LatestDir
    <3>3. cfg.subdir /\ cur_day < Day(now)
      <4>1. CASE WriteRollover
        BY <1>0, <3>2, <4>1 DEF WriteRollover, NeedDaily
      <4>2. CASE pc = "rollover"
        BY <1>0, <4>2 DEF DirsAgree
      <4> QED
        BY <2>5, <4>1, <4>2, RotationPath
    <3> QED
      BY <1>0, <1>3, <3>2, <3>3
  <2>6. ASSUME pc' = "open" PROVE Active(active_dir') \notin DOMAIN disk'
    <3>1. active_dir' = active_dir
      BY <1>3, <2>6
    <3>2. CASE RenameDone
      <4>1. Active(active_dir) # rot.to
        BY <3>2 DEF RenameDone, RotInv, NameIsNewest, Active
      <4>2. DOMAIN disk' = (DOMAIN disk \ {Active(active_dir)}) \cup {rot.to}
        BY <3>2 DEF RenameDone, Rename, With, Without, Restrict
      <4> QED
        BY <3>1, <4>1, <4>2
    <3>3. CASE pc = "open" /\ UNCHANGED disk
      BY <1>0, <3>1, <3>3 DEF DirsAgree, Exists
    <3> QED
      BY <2>6, <3>2, <3>3, RotationPath
  <2> QED
    BY <2>2, <2>3, <2>4, <2>5, <2>6 DEF DirsAgree, Exists
<1> QED
  BY <1>2, <1>3, OpeningStep

\* Every step keeps the cleanup's working set on disk.
LEMMA BatchStep == RotInv /\ [Next]_vars => BatchAgrees'
<1> SUFFICES ASSUME RotInv, [Next]_vars PROVE BatchAgrees'
  OBVIOUS
<1> USE DEF sinkVars, opVars, lineHist, runHist
<1>0. /\ BatchAgrees
      /\ batch \in [todo : SUBSET Name, gzs : SUBSET Name, excess : Int]
  BY DEF RotInv, LocalsOK
<1>1. CASE UNCHANGED <<disk, pc, batch>>
  <2>1. src' = src
    BY <1>1 DEF src
  <2> QED
    BY <1>0, <1>1, <2>1 DEF BatchAgrees, Exists
<1>2. CASE pc' \notin {"age", "compress", "gzip", "gzdone"}
  BY <1>2 DEF BatchAgrees
\* What is left to visit after a step back to the loop.
<1>3. ASSUME pc' = "compress", batch'.todo \subseteq batch.todo,
             pc \in {"age", "compress", "gzip", "gzdone"},
             \A f \in batch'.todo : f \in DOMAIN disk'
      PROVE  BatchAgrees'
  BY <1>0, <1>3 DEF BatchAgrees, Exists
<1>4. Visited.todo = batch.todo \ {src} /\ [Visited EXCEPT !.excess = @ - 1].todo = batch.todo \ {src}
  BY <1>0 DEF Visited
<1>5. CASE Collect
  <2>1. /\ pc' = "age" /\ disk' = disk
        /\ batch'.todo \subseteq Found("plain") /\ batch'.gzs \subseteq Found("gz")
    BY <1>5 DEF Collect
  <2> QED
    BY <2>1 DEF BatchAgrees, Exists, Found
<1>6. CASE DeleteAged
  <2>1. PICK F \in SUBSET Aged : disk' = Restrict(disk, DOMAIN disk \ F)
    BY <1>6 DEF DeleteAged, Expire
  <2>2. DOMAIN disk' = DOMAIN disk \ F
    BY <2>1 DEF Restrict
  <2>3. batch'.todo = batch.todo \ Aged /\ pc' = "compress" /\ pc = "age"
    BY <1>6 DEF DeleteAged
  <2>4. \A f \in batch.todo : f \in DOMAIN disk
    BY <1>0, <2>3 DEF BatchAgrees, Exists
  <2> QED
    BY <1>3, <2>2, <2>3, <2>4
<1>7. ASSUME pc \in {"compress", "gzip", "gzdone"}, batch.todo # {}, pc' = "compress",
             batch'.todo = batch.todo \ {src},
             \/ disk' = disk \/ disk' = Without(disk, Gz(src))
             \/ disk' = Restrict(disk, DOMAIN disk \ {src})
      PROVE  BatchAgrees'
  <2>1. \A f \in batch.todo : f \in DOMAIN disk /\ f.kind = "plain"
    BY <1>0, <1>7 DEF BatchAgrees, Exists
  <2>2. Gz(src).kind = "gz"
    BY <1>7, SrcIs
  <2>3. \A f \in batch'.todo : f # Gz(src) /\ f # src /\ f \in DOMAIN disk
    BY <1>7, <2>1, <2>2
  <2>4. \A f \in batch'.todo : f \in DOMAIN disk'
    BY <1>7, <2>3 DEF Without, Restrict
  <2> QED
    BY <1>3, <1>7, <2>4
<1>8. CASE DeleteExcess
  <2>1. /\ pc = "compress" /\ batch.todo # {} /\ pc' = pc
        /\ batch' = Visited \/ batch' = [Visited EXCEPT !.excess = @ - 1]
        /\ disk' = disk \/ disk' = Restrict(disk, DOMAIN disk \ {src})
    BY <1>8 DEF DeleteExcess, Visits, Expire
  <2> QED
    BY <1>4, <1>7, <2>1
\* The compressed file is being written.
<1>9. ASSUME pc \in {"compress", "gzip"}, batch' = batch, batch.todo # {}, NEW c,
             DOMAIN disk' = DOMAIN disk \cup {Gz(src)}, disk'[Gz(src)] = c,
             \A f \in DOMAIN disk : f # Gz(src) => disk'[f] = disk[f],
             \/ pc' = "gzip" /\ ~c.whole
             \/ pc' = "gzdone" /\ c.whole /\ c.bytes = disk[src].bytes
      PROVE  BatchAgrees'
  <2>1. src' = src /\ Gz(src') = Gz(src)
    BY <1>9 DEF src
  <2>2. src \in DOMAIN disk /\ src # Gz(src)
    BY <1>9, SrcIs
  <2>3. \A f \in batch'.todo : f \in DOMAIN disk' /\ f.kind = "plain"
    BY <1>0, <1>9 DEF BatchAgrees, Exists
  <2>4. disk'[src] = disk[src] /\ Gz(src) \in DOMAIN disk'
    BY <1>9, <2>2
  <2> QED
    BY <1>9, <2>1, <2>3, <2>4 DEF BatchAgrees, Exists
<1>10. CASE CompressBegin
  <2>1. pc = "compress" /\ batch.todo # {}
    BY <1>10 DEF CompressBegin, Visits
  <2>2. \/ batch' = Visited /\ pc' = pc /\ (disk' = disk \/ disk' = Without(disk, Gz(src)))
        \/ /\ disk' = With(disk, Gz(src), [NewFile EXCEPT !.whole = FALSE])
           /\ pc' = "gzip" /\ batch' = batch
    BY <1>10 DEF CompressBegin
  <2>3. CASE batch' = Visited /\ pc' = pc /\ (disk' = disk \/ disk' = Without(disk, Gz(src)))
    BY <1>4, <1>7, <2>1, <2>3
  <2>4. CASE /\ disk' = With(disk, Gz(src), [NewFile EXCEPT !.whole = FALSE])
             /\ pc' = "gzip" /\ batch' = batch
    <3> DEFINE c == [NewFile EXCEPT !.whole = FALSE]
    <3>1. ~c.whole
      BY DEF NewFile
    <3> HIDE DEF c
    <3>2. /\ DOMAIN disk' = DOMAIN disk \cup {Gz(src)} /\ disk'[Gz(src)] = c
          /\ \A f \in DOMAIN disk : f # Gz(src) => disk'[f] = disk[f]
      BY <2>4 DEF With, c
    <3> QED
      BY <1>9, <2>1, <2>4, <3>1, <3>2
  <2> QED
    BY <2>2, <2>3, <2>4
<1>11. CASE CompressWrite
  <2>1. pc = "gzip" /\ batch.todo # {} /\ Gz(src) \in DOMAIN disk
    BY <1>0, <1>11 DEF CompressWrite, BatchAgrees, Exists
  <2>2. \/ batch' = Visited /\ pc' = "compress" /\ disk' = Without(disk, Gz(src))
        \/ /\ disk' = [disk EXCEPT ![Gz(src)] = [NewFile EXCEPT !.bytes = disk[src].bytes]]
           /\ pc' = "gzdone" /\ batch' = batch
    BY <1>11 DEF CompressWrite
  <2>3. CASE batch' = Visited /\ pc' = "compress" /\ disk' = Without(disk, Gz(src))
    BY <1>4, <1>7, <2>1, <2>3
  <2>4. CASE /\ disk' = [disk EXCEPT ![Gz(src)] = [NewFile EXCEPT !.bytes = disk[src].bytes]]
             /\ pc' = "gzdone" /\ batch' = batch
    <3> DEFINE c == [NewFile EXCEPT !.bytes = disk[src].bytes]
    <3>1. c.whole /\ c.bytes = disk[src].bytes
      BY DEF NewFile
    <3> HIDE DEF c
    <3>2. /\ DOMAIN disk' = DOMAIN disk \cup {Gz(src)} /\ disk'[Gz(src)] = c
          /\ \A f \in DOMAIN disk : f # Gz(src) => disk'[f] = disk[f]
      BY <2>1, <2>4 DEF c
    <3> QED
      BY <1>9, <2>1, <2>4, <3>1, <3>2
  <2> QED
    BY <2>2, <2>3, <2>4
<1>12. CASE CompressDone
  <2>1. pc = "gzdone" /\ batch.todo # {} /\ pc' = "compress"
    BY <1>0, <1>12 DEF CompressDone, BatchAgrees
  <2>2. \/ disk' = Without(disk, src)
           /\ batch' = [Visited EXCEPT !.gzs = @ \cup {src}, !.excess = @ - 1]
        \/ disk' = disk /\ batch' = Visited
    BY <1>12 DEF CompressDone
  <2>3. batch'.todo = batch.todo \ {src}
    BY <1>0, <1>4, <2>2 DEF Visited
  <2>4. disk' = disk \/ disk' = Restrict(disk, DOMAIN disk \ {src})
    BY <2>2 DEF Without
  <2> QED
    BY <1>7, <2>1, <2>3, <2>4
<1>13. CASE CapDelete
  <2>1. pc' = "cap"
    BY <1>13 DEF CapDelete
  <2> QED
    BY <1>2, <2>1
<1>14. CASE CompressEnd \/ CleanupEnd \/ Rotation \/ Crash
  <2>1. pc' \notin {"age", "compress", "gzip", "gzdone"}
    BY <1>14 DEF CompressEnd, CleanupEnd, Rotation, RenameDone, RenameFails, OpenSame, OpenNew,
       Rollover, Append, Crash, Resume
  <2> QED
    BY <1>2, <2>1
<1>15. CASE \/ \E c \in Configs : Create(c)
            \/ Flush \/ Reopen \/ Close \/ MoveAway \/ Write \/ RotateForce
  <2>1. pc' \notin {"age", "compress", "gzip", "gzdone"}
    BY <1>15 DEF Create, Flush, Reopen, Close, MoveAway, Write, WriteStraight, WriteRollover,
       WriteRotate, RotateForce, BeginArchive
  <2> QED
    BY <1>2, <2>1
<1>16. CASE Tick \/ UNCHANGED vars
  BY <1>1, <1>16 DEF Tick, vars
<1> QED
  BY <1>5, <1>6, <1>8, <1>10, <1>11, <1>12, <1>13, <1>14, <1>15, <1>16 DEF Next, Cleanup

-----------------------------------------------------------------------------
(***************************************************************************)
(* Each step keeps the size and the limit.                                 *)
(***************************************************************************)

\* An opened file has the size found on disk.
LEMMA OpenedSize ==
  ASSUME RotInv, NEW c \in Configs, NEW d, NEW F, NEW E, DiskOK(d, F, E, now),
         OpenFile(d, c, SizeOnDisk(d, Today(c)))
  PROVE  fp' \in DOMAIN disk' /\ current_size' = Cardinality(disk'[fp'].bytes)
<1>1. /\ fp' = Today(c) /\ disk' = Opened(d, c)
      /\ current_size' = SizeOnDisk(d, Today(c))
  BY DEF OpenFile, Opened
<1>2. /\ Today(c) \in DOMAIN Opened(d, c)
      /\ Today(c) \in DOMAIN d => Opened(d, c)[Today(c)] = d[Today(c)]
      /\ Today(c) \notin DOMAIN d => Opened(d, c)[Today(c)].bytes = {}
  <2>1. DOMAIN Opened(d, c) = DOMAIN d \cup {Today(c)}
    BY OpenKeeps
  <2>2. \A f \in DOMAIN d : Opened(d, c)[f] = d[f]
    BY OpenKeeps
  <2>3. Today(c) \notin DOMAIN d => Opened(d, c)[Today(c)].bytes = {}
    BY OpenKeeps
  <2> QED
    BY <2>1, <2>2, <2>3
<1> QED
  BY <1>1, <1>2, FS_EmptySet DEF SizeOnDisk

\* The file and its buffer have no line in common.
LEMMA FileAndBuffer ==
  ASSUME RotInv, fp # Closed
  PROVE  /\ IsFiniteSet(disk[fp].bytes) /\ IsFiniteSet(buf)
         /\ Cardinality(disk[fp].bytes \cup buf)
               = Cardinality(disk[fp].bytes) + Cardinality(buf)
         /\ Cardinality(disk[fp].bytes) \in Nat /\ Cardinality(buf) \in Nat
<1>1. /\ fp \in DOMAIN disk /\ disk[fp].bytes \subseteq BytesUpTo(n) /\ buf \subseteq BytesUpTo(n)
      /\ disk[fp].bytes \subseteq flushed /\ \A l \in flushed, m \in buf : Before(l, m)
  BY DEF RotInv, TypeOK, FilesHold, FilesOK, LinesOrdered
<1>2. disk[fp].bytes \cap buf = {}
  <2>1. \A l \in disk[fp].bytes \cap buf : l[1] < l[1] /\ l[1] \in Nat
    BY <1>1, BytesGrow, NumbersAre DEF Before, NumbersOK
  <2> QED
    BY <2>1
<1>3. /\ IsFiniteSet(disk[fp].bytes) /\ IsFiniteSet(buf)
      /\ Cardinality(disk[fp].bytes) \in Nat /\ Cardinality(buf) \in Nat
  BY <1>1, SizesAre
<1>4. Cardinality(disk[fp].bytes \cup buf)
         = Cardinality(disk[fp].bytes) + Cardinality(buf) - Cardinality({})
  BY <1>2, <1>3, FS_Union
<1> QED
  BY <1>3, <1>4, FS_EmptySet

\* Every step keeps current_size.
LEMMA SizeStep == RotInv /\ [Next]_vars => SizeAgrees'
<1> SUFFICES ASSUME RotInv, [Next]_vars, fp' # Closed PROVE SizeAgrees'
  BY DEF SizeAgrees
<1> USE DEF sinkVars, opVars, lineHist, runHist
<1>0. /\ SizeAgrees /\ cfg \in Configs /\ current_size \in Nat /\ n \in Nat
      /\ fp = Closed => buf = {}
      /\ fp = Closed \/ fp \in DOMAIN disk
      /\ pc \in {"down", "rollover", "rename", "reopen", "open"} => fp = Closed
      /\ fp # Closed => fp \in {Active(active_dir), Moved}
      /\ Cardinality({}) = 0
      /\ DiskOK(disk, flushed, Gone, now) /\ DiskOK(Flushed, flushed \cup buf, Gone, now)
  <2>1. Cardinality({}) = 0
    BY FS_EmptySet
  <2>2. DiskOK(disk, flushed, Gone, now) /\ DiskOK(Flushed, flushed \cup buf, Gone, now)
    BY DiskHolds, FlushKeeps
  <2>3. SizeAgrees /\ TypeOK /\ OpenAgrees
    BY DEF RotInv
  <2>4. /\ cfg \in Configs /\ current_size \in Nat /\ n \in Nat
        /\ fp = Closed => buf = {}
        /\ fp = Closed \/ fp \in DOMAIN disk
    BY <2>3, BoundsAssumption DEF TypeOK
  <2> QED
    BY <2>1, <2>2, <2>3, <2>4 DEF OpenAgrees
<1>1. CASE UNCHANGED <<disk, fp, buf, current_size>>
  BY <1>0, <1>1 DEF SizeAgrees
<1>2. ASSUME NEW c \in Configs, NEW d, NEW F, NEW E, DiskOK(d, F, E, now),
             OpenFile(d, c, SizeOnDisk(d, Today(c))), buf' = {}
      PROVE  SizeAgrees'
  <2>1. current_size' = Cardinality(disk'[fp'].bytes)
    BY <1>2, OpenedSize
  <2>2. current_size' \in Nat
    BY NumbersStep DEF NumbersOK
  <2> QED
    BY <1>0, <1>2, <2>1, <2>2 DEF SizeAgrees
<1>3. ASSUME NEW c \in Configs, Create(c) PROVE SizeAgrees'
  <2>1. OpenFile(disk, c, SizeOnDisk(disk, Today(c))) /\ buf' = {}
    BY <1>0, <1>3 DEF Create
  <2> QED
    BY <1>0, <1>2, <2>1
<1>4. CASE Reopen
  <2>1. OpenFile(Flushed, cfg, SizeOnDisk(Flushed, Today(cfg))) /\ buf' = {}
    BY <1>0, <1>4 DEF Reopen, OpenFails
  <2> QED
    BY <1>0, <1>2, <2>1
<1>5. CASE OpenSame \/ OpenNew \/ Rollover
  <2>1. buf' = {}
    BY <1>0, <1>5 DEF OpenSame, OpenNew, Rollover
  <2>2. CASE OpenSame
    <3>1. OpenFile(disk, cfg, SizeOnDisk(disk, Today(cfg)))
      BY <1>0, <2>2 DEF OpenSame, OpenFails
    <3> QED
      BY <1>0, <1>2, <2>1, <3>1
  <2>3. CASE OpenNew \/ Rollover
    <3>1. Today(cfg) \notin DOMAIN disk
      BY <2>3, LatestDir DEF OpenNew, Rollover
    <3>2. SizeOnDisk(disk, Today(cfg)) = 0
      BY <3>1 DEF SizeOnDisk
    <3>3. OpenFile(disk, cfg, 0)
      BY <1>0, <2>3 DEF OpenNew, Rollover, OpenFails
    <3> QED
      BY <1>0, <1>2, <2>1, <3>2, <3>3
  <2> QED
    BY <1>5, <2>2, <2>3
<1>6. CASE Flush
  <2>1. fp # Closed /\ disk' = Flushed /\ buf' = {} /\ UNCHANGED <<fp, current_size>>
    BY <1>6 DEF Flush
  <2>2. Flushed[fp].bytes = disk[fp].bytes \cup buf
    BY <1>0, <2>1, FlushedIs
  <2> QED
    BY <1>0, <2>1, <2>2, FileAndBuffer DEF SizeAgrees
<1>7. CASE Append
  <2>1. /\ \A l \in buf : l[1] < n
        /\ UNCHANGED <<disk, fp>>
    BY <1>7 DEF Append, RotInv, LinesOrdered
  <2>2. CASE UNCHANGED <<buf, current_size>>
    BY <1>1, <2>1, <2>2
  <2>3. ASSUME NEW w \in 0..incoming, buf' = buf \cup ({n} \X (1..w)),
               current_size' = current_size + w
        PROVE  SizeAgrees'
    <3>1. IsFiniteSet(buf) /\ Cardinality(buf) \in Nat /\ Cardinality(disk[fp].bytes) \in Nat
      BY <2>1, FileAndBuffer
    <3>2. w \in Nat
      BY NumbersAre DEF NumbersOK
    <3> DEFINE L == {n} \X (1..w)
    <3>3. IsFiniteSet(L) /\ Cardinality(L) = w /\ \A x \in L : x[1] = n
      BY <1>0, <3>2, LineIs, Zenon
    <3>4. buf \cap L = {}
      BY <1>0, <2>1, <3>3
    <3> HIDE DEF L
    <3>7. Cardinality(buf \cup L) = Cardinality(buf) + Cardinality(L) - Cardinality(buf \cap L)
      BY <3>1, <3>3, FS_Union, Zenon
    <3>5. Cardinality(buf \cup L) = Cardinality(buf) + w
      <4>1. Cardinality(buf \cap L) = 0 /\ Cardinality(L) = w
        BY <1>0, <3>3, <3>4, Zenon
      <4> QED
        BY <3>1, <3>2, <3>7, <4>1
    <3>6. buf' = buf \cup L
      BY <2>3 DEF L
    <3>8. fp # Closed /\ current_size = Cardinality(disk[fp].bytes) + Cardinality(buf)
      BY <1>0, <2>1 DEF SizeAgrees
    <3>9. disk' = disk /\ fp' = fp /\ Cardinality(buf') = Cardinality(buf) + w
      BY <2>1, <3>5, <3>6, Zenon
    <3>10. current_size' = Cardinality(disk[fp].bytes) + Cardinality(buf')
      BY <2>3, <3>1, <3>2, <3>8, <3>9
    <3> QED
      BY <3>9, <3>10, Zenon DEF SizeAgrees
  <2> QED
    BY <1>7, <2>2, <2>3 DEF Append
<1>8. CASE MoveAway
  <2>1. /\ disk' = Rename(disk, Active(active_dir), Moved) /\ ~Exists(Moved)
        /\ fp' = IF fp = Active(active_dir) THEN Moved ELSE fp
        /\ UNCHANGED <<buf, current_size>>
    BY <1>8 DEF MoveAway
  <2>2. fp = Active(active_dir) /\ fp' = Moved /\ fp # Closed
    BY <1>0, <2>1, NamesAre DEF Exists
  <2>3. disk'[Moved] = disk[fp]
    BY <2>1, <2>2 DEF Rename, With, Without, Restrict
  <2> QED
    BY <1>0, <2>1, <2>2, <2>3 DEF SizeAgrees
<1>9. CASE Cleanup
  <2>1. UNCHANGED <<fp, buf, current_size>>
    BY <1>9, CleanupSpares DEF cleanFrame
  <2>2. fp.kind \notin {"plain", "gz"} /\ fp \in DOMAIN disk
    BY <1>0, <2>1 DEF Active, Moved
  <2>3. disk'[fp] = disk[fp]
    BY <1>9, <2>2, CleanupSpares
  <2> QED
    BY <1>0, <2>1, <2>3 DEF SizeAgrees
<1>10. CASE WriteStraight \/ RenameFails \/ Tick \/ UNCHANGED vars
  BY <1>1, <1>10 DEF WriteStraight, RenameFails, Tick, vars
<1>11. CASE Close \/ WriteRollover \/ WriteRotate \/ RotateForce \/ Crash \/ RenameDone
  BY <1>0, <1>11 DEF Close, WriteRollover, WriteRotate, RotateForce, BeginArchive, CloseFile,
     Crash, RenameDone
<1> QED
  BY <1>3, <1>4, <1>5, <1>6, <1>7, <1>8, <1>9, <1>10, <1>11 DEF Next, Write, Rotation

\* Today's file is the one last opened, or there is none.
LEMMA TodayOrNew ==
  ASSUME RotInv, pc # "down"
  PROVE  /\ Today(cfg) = Active(active_dir) \/ Today(cfg) \notin DOMAIN disk
         /\ cfg \in Configs
<1>1. /\ cur_day \in Nat /\ active_dir \in Nat /\ Day(now) \in Nat /\ cur_day <= Day(now)
      /\ cfg \in Configs
  BY LatestDir
<1>2. /\ Today(cfg) = Active(Today(cfg).dir) /\ Today(cfg).kind = "active"
      /\ Today(cfg).dir = IF cfg.subdir THEN Day(now) ELSE 0
  BY <1>1, TodayIs
<1>3. CASE active_dir = Today(cfg).dir
  BY <1>1, <1>2, <1>3
<1>4. CASE active_dir # Today(cfg).dir
  <2>1. /\ cfg.subdir /\ cur_day <= active_dir /\ active_dir <= Day(now)
        /\ \A f \in DOMAIN disk : f.kind = "active" => f.dir <= cur_day
    BY <1>2, <1>4 DEF RotInv, DirsAgree
  <2> QED
    BY <1>1, <1>2, <1>4, <2>1
<1> QED
  BY <1>3, <1>4

\* The active file after a flush, while a limit holds.
LEMMA FlushedWithin ==
  ASSUME RotInv, Limited, Exists(Active(active_dir))
  PROVE  /\ Within(disk[Active(active_dir)].bytes)
         /\ Within(Flushed[Active(active_dir)].bytes)
<1> DEFINE f == Active(active_dir)
<1>1. f \in DOMAIN disk /\ Within(disk[f].bytes) /\ OpenWithin /\ f # Closed
  BY NamesAre DEF RotInv, LimitHolds, ActiveWithin, Exists
<1> HIDE DEF f
<1>2. Flushed[f].bytes = IF f = fp THEN disk[f].bytes \cup buf ELSE disk[f].bytes
  BY <1>1, FlushedIs
<1>3. Within(Flushed[f].bytes)
  BY <1>1, <1>2 DEF OpenWithin
<1> QED
  BY <1>1, <1>3 DEF f

\* What a step does to the failure that a rotation left behind.
LEMMA OwedStep ==
  ASSUME RotInv, [Next]_vars
  PROVE  /\ pc' # "down" /\ rotate_fail_sec' # 0 => owed'
         /\ pc' = "reopen" => owed'
         /\ \/ \E c \in Configs : Create(c)
            \/ RenameDone
            \/ UNCHANGED <<cfg, starts>> /\ (pc' # "down" /\ ~owed' => pc # "down" /\ ~owed)
<1> USE DEF sinkVars, opVars, lineHist, runHist
<1>0. (pc # "down" /\ rotate_fail_sec # 0 => owed) /\ (pc = "reopen" => owed)
  BY DEF RotInv, LimitHolds
<1>1. CASE \E c \in Configs : Create(c)
  BY <1>1 DEF Create
<1>2. CASE RenameDone
  BY <1>2 DEF RenameDone
<1>3. CASE RenameFails
  <2>1. owed' = TRUE /\ UNCHANGED <<cfg, starts>>
    BY <1>3 DEF RenameFails
  <2> QED
    BY <2>1
<1>4. CASE Close \/ Crash
  <2>1. pc' = "down" /\ UNCHANGED <<cfg, starts>>
    BY <1>4 DEF Close, Crash
  <2> QED
    BY <2>1
<1>5. ASSUME UNCHANGED <<cfg, starts, rotate_fail_sec, owed>>,
             pc' # "down" => pc # "down", pc' = "reopen" => pc = "reopen"
      PROVE  /\ pc' # "down" /\ rotate_fail_sec' # 0 => owed'
             /\ pc' = "reopen" => owed'
             /\ UNCHANGED <<cfg, starts>> /\ (pc' # "down" /\ ~owed' => pc # "down" /\ ~owed)
  <2>1. owed' <=> owed
    BY <1>5, Zenon
  <2> QED
    BY <1>0, <1>5, <2>1
<1>6. CASE Flush \/ Reopen \/ WriteStraight \/ WriteRollover \/ WriteRotate \/ RotateForce
           \/ MoveAway
  <2>1. /\ UNCHANGED <<cfg, starts, rotate_fail_sec, owed>>
        /\ (pc' # "down" => pc # "down") /\ (pc' = "reopen" => pc = "reopen")
    BY <1>6 DEF Flush, Reopen, WriteStraight, WriteRollover, WriteRotate, WriteBegin,
       RotateForce, BeginArchive, MoveAway
  <2> QED
    BY <1>5, <2>1
<1>7. CASE OpenSame \/ OpenNew \/ Rollover \/ Append \/ Tick \/ UNCHANGED vars
  <2>1. /\ UNCHANGED <<cfg, starts, rotate_fail_sec, owed>>
        /\ (pc' # "down" => pc # "down") /\ (pc' = "reopen" => pc = "reopen")
    BY <1>7 DEF OpenSame, OpenNew, Rollover, Append, Tick, vars, Resume
  <2> QED
    BY <1>5, <2>1
<1>8. CASE Cleanup
  <2>1. /\ UNCHANGED <<cfg, starts, rotate_fail_sec, owed>>
        /\ (pc' # "down" => pc # "down") /\ (pc' = "reopen" => pc = "reopen")
    BY <1>8, CleanupSpares DEF cleanFrame, Cleaning
  <2> QED
    BY <1>5, <2>1
<1> QED
  BY <1>1, <1>2, <1>3, <1>4, <1>6, <1>7, <1>8 DEF Next, Write, Rotation

\* Every step keeps the limit.
LEMMA LimitStep == RotInv /\ [Next]_vars => LimitHolds'
<1> SUFFICES ASSUME RotInv, [Next]_vars, Limited' PROVE OpenWithin' /\ ActiveWithin'
  BY OwedStep DEF LimitHolds
<1> USE DEF sinkVars, opVars, lineHist, runHist
<1>0. /\ LimitHolds /\ cfg \in Configs /\ cfg' \in Configs
      /\ current_size \in Nat /\ incoming \in Nat /\ n \in Nat
      /\ \A c \in Configs : c.max_size \in Nat
      /\ \A d : Active(d) # Closed /\ Active(d).kind = "active"
      /\ DiskOK(disk, flushed, Gone, now) /\ DiskOK(Flushed, flushed \cup buf, Gone, now)
      /\ DOMAIN Flushed = DOMAIN disk
      /\ pc \in {"down", "rollover", "rename", "reopen", "open"} => fp = Closed
      /\ fp = Closed => buf = {}
  <2>1. /\ LimitHolds /\ cfg \in Configs /\ cfg' \in Configs
        /\ current_size \in Nat /\ incoming \in Nat /\ n \in Nat
    BY NumbersAre, NumbersStep DEF RotInv, NumbersOK
  <2>2. /\ \A c \in Configs : c.max_size \in Nat
        /\ \A d : Active(d) # Closed /\ Active(d).kind = "active"
    BY ConfigsAssumption DEF Active, Closed
  <2>3. /\ pc \in {"down", "rollover", "rename", "reopen", "open"} => fp = Closed
        /\ fp = Closed => buf = {}
    BY DEF RotInv, OpenAgrees, TypeOK
  <2> QED
    BY <2>1, <2>2, <2>3, DiskHolds, FlushKeeps, FlushedIs
<1>1. OneLine({})
  BY DEF OneLine
<1>2. /\ starts' = 1 /\ pc' # "down" /\ ~owed' /\ cfg'.max_size > 0
      /\ cfg'.policy \in {"SIZE", "BOTH"}
  BY DEF Limited
\* A file that is opened with what it held.
<1>3. ASSUME NEW c \in Configs, NEW d, NEW F, NEW E, DiskOK(d, F, E, now),
             OpenFile(d, c, SizeOnDisk(d, Today(c))), buf' = {},
             \/ Today(c) \notin DOMAIN d
             \/ ~Underway' /\ \/ Cardinality(d[Today(c)].bytes) <= cfg'.max_size
                              \/ OneLine(d[Today(c)].bytes)
      PROVE  OpenWithin' /\ ActiveWithin'
  <2>1. /\ fp' = Active(active_dir') /\ fp' = Today(c)
        /\ disk' = Opened(d, c) /\ current_size' = SizeOnDisk(d, Today(c))
    BY <1>3, OpenIs DEF OpenFile, Opened
  <2>2. IF Today(c) \in DOMAIN d THEN disk'[Today(c)].bytes = d[Today(c)].bytes
                                 ELSE disk'[Today(c)].bytes = {}
    <3>1. /\ \A f \in DOMAIN d : Opened(d, c)[f] = d[f]
          /\ Today(c) \notin DOMAIN d => Opened(d, c)[Today(c)].bytes = {}
      BY <1>3, OpenKeeps
    <3> QED
      BY <2>1, <3>1
  <2>3. disk'[fp'].bytes \cup buf' = disk'[fp'].bytes
    BY <1>3
  <2>4. Today(c) \notin DOMAIN d => current_size' = 0
    BY <2>1 DEF SizeOnDisk
  <2>5. \/ Cardinality(disk'[fp'].bytes) <= cfg'.max_size
        \/ OneLine(disk'[fp'].bytes)
    BY <1>1, <1>3, <2>1, <2>2
  <2> QED
    BY <1>3, <2>1, <2>3, <2>4, <2>5 DEF OpenWithin, ActiveWithin, Within
<1>4. ASSUME NEW c \in Configs, Create(c) PROVE OpenWithin' /\ ActiveWithin'
  <2>1. starts = 0
    BY <1>2, <1>4, NumbersAre DEF Create, NumbersOK
  <2>2. DOMAIN disk = {} /\ pc = "down"
    BY <2>1 DEF RotInv, OpenAgrees
  <2>3. OpenFile(disk, c, SizeOnDisk(disk, Today(c))) /\ buf' = {}
    BY <1>0, <1>4, <2>2 DEF Create
  <2> QED
    BY <1>0, <1>3, <2>2, <2>3
\* The active file is gone.
<1>5. CASE RenameDone
  <2>1. fp' = fp /\ pc = "rename" /\ active_dir' = active_dir
        /\ disk' = Rename(disk, Active(active_dir), rot.to)
    BY <1>5 DEF RenameDone
  <2>2. fp = Closed /\ Active(active_dir) # rot.to
    BY <2>1 DEF RotInv, OpenAgrees, NameIsNewest, Active
  <2>3. Active(active_dir) \notin DOMAIN disk'
    BY <2>1, <2>2 DEF Rename, With, Without, Restrict
  <2> QED
    BY <2>1, <2>2, <2>3 DEF OpenWithin, ActiveWithin, Exists
<1>6. ASSUME ~RenameDone, ~ \E c \in Configs : Create(c)
      PROVE  OpenWithin' /\ ActiveWithin'
  <2>1. /\ UNCHANGED <<cfg, starts>> /\ pc # "down" /\ ~owed /\ Limited
    BY <1>2, <1>6, OwedStep DEF Limited
  <2>2. /\ OpenWithin /\ ActiveWithin /\ rotate_fail_sec = 0
    BY <1>0, <2>1 DEF LimitHolds
  <2>3. cfg.max_size \in Nat /\ cfg.max_size > 0 /\ cfg'.max_size = cfg.max_size
    BY <1>0, <1>2, <2>1
  <2>4. ASSUME active_dir' = active_dir,
               \/ DOMAIN disk' = DOMAIN disk \ {Active(active_dir)}
               \/ /\ Active(active_dir) \in DOMAIN disk' => Active(active_dir) \in DOMAIN disk
                  /\ Active(active_dir) \in DOMAIN disk'
                        => disk'[Active(active_dir)] = disk[Active(active_dir)]
               \/ disk' = Flushed
        PROVE  ActiveWithin'
    BY <1>0, <2>1, <2>2, <2>3, <2>4, FlushedWithin DEF ActiveWithin, Exists, Within
  <2>5. ASSUME fp' = Closed \/ /\ disk'[fp'].bytes \cup buf' = disk[fp].bytes \cup buf
                               /\ UNCHANGED <<current_size, incoming>>
                               /\ fp # Closed /\ (Underway' => Underway)
        PROVE  OpenWithin'
    BY <2>2, <2>3, <2>5 DEF OpenWithin, Within
  <2>6. CASE Tick \/ RenameFails \/ UNCHANGED vars
    <3>1. /\ UNCHANGED <<disk, fp, buf, active_dir, current_size, incoming>>
          /\ Underway' => Underway
      BY <2>6 DEF Tick, RenameFails, vars, Underway, Cleaning
    <3> QED
      BY <2>4, <2>5, <3>1
  <2>7. CASE Flush
    <3>1. /\ UNCHANGED <<fp, active_dir, current_size, incoming, pc>>
          /\ fp # Closed /\ disk' = Flushed /\ buf' = {}
      BY <2>7 DEF Flush
    <3>2. fp \in DOMAIN disk
      BY <3>1 DEF RotInv, TypeOK
    <3>3. Flushed[fp].bytes = disk[fp].bytes \cup buf
      BY <3>1, <3>2, FlushedIs
    <3> QED
      BY <2>4, <2>5, <3>1, <3>3 DEF Underway
  <2>8. CASE Close \/ WriteRollover \/ WriteRotate \/ RotateForce
    BY <2>4, <2>5, <2>8 DEF Close, CloseFile, WriteRollover, WriteRotate, RotateForce, BeginArchive
  <2>9. CASE Crash
    BY <2>9, <1>2 DEF Crash
  <2>10. CASE WriteStraight
    <3>1. PICK k \in 1..MaxSize : incoming' = k /\ ~NeedSize(k)
      BY <1>2, <2>1, <2>2, <2>10 DEF WriteStraight, WriteBegin, Rotates, Deferred
    <3>2. current_size = 0 \/ current_size + k <= cfg.max_size
      BY <1>0, <1>2, <2>1, <3>1, BoundsAssumption DEF NeedSize
    <3>3. UNCHANGED <<disk, fp, buf, current_size, active_dir>>
      BY <2>10 DEF WriteStraight
    <3>4. ActiveWithin'
      BY <2>4, <3>3
    <3> QED
      BY <2>2, <2>3, <3>1, <3>2, <3>3, <3>4 DEF OpenWithin, Within
  <2>11. CASE Append
    <3>1. UNCHANGED <<disk, fp, active_dir>> /\ pc' = "idle" /\ Underway
      BY <2>11 DEF Append, Underway
    <3>2. ActiveWithin'
      BY <2>4, <3>1
    <3>3. ASSUME fp # Closed, NEW w \in 0..incoming, buf' = buf \cup ({n} \X (1..w))
          PROVE  \/ Cardinality(disk'[fp'].bytes \cup buf') <= cfg'.max_size
                 \/ OneLine(disk'[fp'].bytes \cup buf')
      <4> DEFINE L == {n} \X (1..w)
                 c == disk[fp].bytes \cup buf
      <4>0. w \in Nat
        BY <1>0
      <4>1. IsFiniteSet(L) /\ Cardinality(L) = w /\ w \in Nat /\ \A x \in L : x[1] = n
        BY <1>0, <4>0, LineIs, Zenon
      <4>2. IsFiniteSet(c) /\ Cardinality(c) = current_size
        BY <3>3, FileAndBuffer, FS_Union DEF RotInv, SizeAgrees
      <4>3. disk'[fp'].bytes \cup buf' = c \cup L
        BY <3>1, <3>3
      <4> HIDE DEF L, c
      <4>4. CASE current_size = 0
        <5>1. c = {}
          BY <4>2, <4>4, FS_EmptySet
        <5>2. OneLine(c \cup L)
          BY <4>1, <5>1 DEF OneLine
        <5> QED
          BY <4>3, <5>2
      <4>5. CASE current_size + incoming <= cfg.max_size
        <5>1. Cardinality(c \cup L) = Cardinality(c) + w - Cardinality(c \cap L)
          BY <4>1, <4>2, FS_Union
        <5>2. Cardinality(c \cap L) \in Nat
          BY <4>2, FS_Subset, FS_CardinalityType
        <5>3. Cardinality(c \cup L) <= cfg'.max_size
          BY <1>0, <2>3, <4>1, <4>2, <4>5, <5>1, <5>2
        <5> QED
          BY <4>3, <5>3
      <4> QED
        BY <2>2, <3>1, <3>3, <4>4, <4>5 DEF OpenWithin
    <3>4. ~Underway'
      BY <3>1 DEF Underway, Cleaning
    <3>5. \/ fp = Closed
          \/ fp # Closed /\ \E w \in 0..incoming : buf' = buf \cup ({n} \X (1..w))
      BY <2>11 DEF Append
    <3>6. OpenWithin'
      BY <3>1, <3>3, <3>4, <3>5 DEF OpenWithin, Within
    <3> QED
      BY <3>2, <3>6
  <2>12. CASE Cleanup
    <3>1. UNCHANGED <<fp, buf, active_dir, current_size, incoming>> /\ Underway
      BY <2>12, CleanupSpares DEF cleanFrame, Underway
    <3>2. /\ Active(active_dir) \in DOMAIN disk' => Active(active_dir) \in DOMAIN disk
          /\ Active(active_dir) \in DOMAIN disk'
                => disk'[Active(active_dir)] = disk[Active(active_dir)]
      BY <1>0, <2>12, CleanupSpares
    <3>3. ASSUME fp # Closed PROVE disk'[fp] = disk[fp]
      <4>1. fp \in DOMAIN disk /\ fp.kind \notin {"plain", "gz"}
        BY <3>3 DEF RotInv, TypeOK, OpenAgrees, Active, Moved
      <4> QED
        BY <2>12, <4>1, CleanupSpares
    <3>4. OpenWithin'
      BY <2>5, <3>1, <3>3
    <3> QED
      BY <2>4, <3>1, <3>2, <3>4
  <2>13. CASE MoveAway
    <3>1. /\ disk' = Rename(disk, Active(active_dir), Moved) /\ ~Exists(Moved)
          /\ fp' = IF fp = Active(active_dir) THEN Moved ELSE fp
          /\ UNCHANGED <<pc, buf, current_size, active_dir, incoming>>
      BY <2>13 DEF MoveAway
    <3>2. /\ DOMAIN disk' = (DOMAIN disk \ {Active(active_dir)}) \cup {Moved}
          /\ Active(active_dir) # Moved
      BY <3>1 DEF Rename, With, Without, Restrict, Active, Moved
    <3>3. fp' # Closed => fp = Active(active_dir) /\ fp' = Moved
      BY <3>1 DEF RotInv, OpenAgrees, TypeOK, Exists
    <3>4. fp' # Closed => disk'[fp'] = disk[fp]
      BY <3>1, <3>3 DEF Rename, With, Without, Restrict
    <3>5. OpenWithin'
      BY <1>0, <2>5, <3>1, <3>3, <3>4 DEF Underway
    <3> QED
      BY <3>1, <3>2, <3>5 DEF ActiveWithin, Exists
  \* The active file of a later day is a new one.
  <2>14. ASSUME NEW d, DOMAIN d = DOMAIN disk,
                Active(active_dir) \in DOMAIN d => Within(d[Active(active_dir)].bytes),
                OpenFails(d)
         PROVE  OpenWithin' /\ ActiveWithin'
    <3>1. disk' = d /\ fp' = Closed /\ active_dir' = Today(cfg).dir
      BY <2>14 DEF OpenFails
    <3>2. Active(active_dir') = Today(cfg)
      BY <1>0, <3>1, TodayIs
    <3>3. Today(cfg) = Active(active_dir) \/ Today(cfg) \notin DOMAIN d
      BY <2>1, <2>14, TodayOrNew
    <3>4. ActiveWithin'
      BY <2>3, <2>14, <3>1, <3>2, <3>3 DEF ActiveWithin, Exists, Within
    <3> QED
      BY <3>1, <3>4 DEF OpenWithin
  <2>15. CASE Reopen
    <3>1. Active(active_dir) \in DOMAIN Flushed
             => Within(Flushed[Active(active_dir)].bytes)
      BY <1>0, <2>1, FlushedWithin DEF Exists
    <3>2. /\ OpenFile(Flushed, cfg, SizeOnDisk(Flushed, Today(cfg))) \/ OpenFails(Flushed)
          /\ pc' = "idle" /\ buf' = {}
      BY <2>15 DEF Reopen
    <3>3. CASE OpenFails(Flushed)
      BY <1>0, <2>14, <3>1, <3>3
    <3>4. CASE OpenFile(Flushed, cfg, SizeOnDisk(Flushed, Today(cfg)))
      <4>1. Today(cfg) = Active(active_dir) \/ Today(cfg) \notin DOMAIN Flushed
        BY <1>0, <2>1, TodayOrNew
      <4>2. ~Underway'
        BY <3>2 DEF Underway, Cleaning
      <4>3. \/ Today(cfg) \notin DOMAIN Flushed
            \/ Cardinality(Flushed[Today(cfg)].bytes) <= cfg'.max_size
            \/ OneLine(Flushed[Today(cfg)].bytes)
        BY <2>3, <3>1, <4>1 DEF Within
      <4> QED
        BY <1>0, <1>3, <3>2, <3>4, <4>2, <4>3
    <3> QED
      BY <3>2, <3>3, <3>4
  <2>16. CASE OpenSame
    <3>1. pc = "reopen"
      BY <2>16 DEF OpenSame
    <3> QED
      BY <1>0, <2>1, <3>1 DEF LimitHolds
  <2>17. CASE OpenNew \/ Rollover
    <3>1. Today(cfg) \notin DOMAIN disk
      BY <2>17, LatestDir DEF OpenNew, Rollover
    <3>2. SizeOnDisk(disk, Today(cfg)) = 0
      BY <3>1 DEF SizeOnDisk
    <3>3. (OpenFile(disk, cfg, 0) \/ OpenFails(disk)) /\ buf' = {}
      BY <1>0, <2>17 DEF OpenNew, Rollover
    <3>4. CASE OpenFile(disk, cfg, 0)
      BY <1>0, <1>3, <3>1, <3>2, <3>3, <3>4
    <3>5. CASE OpenFails(disk)
      BY <2>2, <2>14, <3>5 DEF ActiveWithin, Exists
    <3> QED
      BY <3>3, <3>4, <3>5
  <2> QED
    BY <1>6, <2>6, <2>7, <2>8, <2>9, <2>10, <2>11, <2>12, <2>13, <2>15, <2>16, <2>17
       DEF Next, Write, Rotation
<1> QED
  BY <1>4, <1>5, <1>6

-----------------------------------------------------------------------------
(***************************************************************************)
(* The invariant and what follows from it.                                 *)
(***************************************************************************)
\* The invariant holds of a sink that was never created.
LEMMA RotInvInit == Init => RotInv
<1> SUFFICES ASSUME Init PROVE RotInv
  OBVIOUS
<1> USE DEF Init
<1>1. DOMAIN disk = {} /\ Archives(disk) = {} /\ \A f : ~Exists(f)
  BY DEF Archives, Exists
<1>3. TypeOK
  <2>1. MaxTime \in Nat /\ MaxTime > 0
    BY BoundsAssumption
  <2>2. now \in 1..MaxTime
    BY <2>1
  <2>3. NumbersOK
    BY <2>2, DaysAre, BoundsAssumption DEF NumbersOK
  <2>4. LineSetsOK
    BY DEF LineSetsOK
  <2>5. FlagsOK
    BY Zenon DEF FlagsOK
  <2>6. rot.to = Closed /\ fp = Closed
    BY DEF NoRot
  <2> QED
    BY <1>1, <2>3, <2>4, <2>5, <2>6 DEF TypeOK, NumbersOK, FlagsOK, LineSetsOK
<1>4. LocalsOK
  BY DEF LocalsOK, NoRot, NoBatch
<1>5. OpenAgrees /\ LinesOrdered /\ FilesHold /\ OrderHolds /\ NameIsNewest
  BY <1>1 DEF OpenAgrees, LinesOrdered, Rotating, Cleaning, FilesHold, FilesOK, KeptIn,
     OrderHolds, OrderIn, TwinsIn, Archives, NameIsNewest
<1>6. DatesAgree /\ DirsAgree /\ BatchAgrees
  BY <1>1 DEF DatesAgree, DatedBy, DirsAgree, BatchAgrees
<1>7. SizeAgrees /\ LimitHolds
  BY DEF SizeAgrees, LimitHolds, Limited
<1> QED
  BY <1>3, <1>4, <1>5, <1>6, <1>7 DEF RotInv

\* The invariant is inductive.
LEMMA RotInvStep == RotInv /\ [Next]_vars => RotInv'
BY TypesStep, LinesOrderedStep, NameStep, DatesStep, DirsStep, BatchStep, SizeStep, LimitStep
   DEF RotInv

\* The inductive invariant of the sink.
THEOREM RotateInvariant == Spec => []RotInv
BY RotInvInit, RotInvStep, PTL DEF Spec

\* Every value has its type, among them the open file, which is always one
\* that exists: hx_file_open_active creates it, a rotation closes it before
\* the rename, retention never deletes it, and a tool that moves it away takes
\* it along.
THEOREM RotateTypeCorrect == Spec => []TypeOK
<1>1. RotInv => TypeOK
  BY DEF RotInv
<1> QED
  BY <1>1, RotateInvariant, PTL

\* A line that reached a file is in a complete file ever after, or retention
\* deleted its archive, or a directory could not be read when an archive was
\* named: through hx_rotate_maybe, gzip_file, crashes and failures at any step.
THEOREM FlushedLinesAreKept == Spec => []FlushedLinesKept
<1>1. RotInv => FlushedLinesKept
  <2> SUFFICES ASSUME RotInv, NEW l \in flushed
               PROVE  l \in Kept \cup expired \cup (IF blind THEN erased ELSE {})
    BY DEF FlushedLinesKept
  <2>1. (\E f \in DOMAIN disk : disk[f].whole /\ l \in disk[f].bytes) \/ l \in Gone
    BY DEF RotInv, FilesHold, KeptIn
  <2> QED
    BY <2>1 DEF Kept, Gone
<1> QED
  BY <1>1, RotateInvariant, PTL

\* The order of the archives' names, by which hx_rotate_cleanup deletes and
\* compresses, is the order in which they were written, whatever the clock and
\* the policy, and across restarts.
THEOREM NamesFollowTheTime == Spec => []NamesFollowTime
<1>1. RotInv => NamesFollowTime
  BY DEF RotInv, OrderHolds, OrderIn, Archives, NamesFollowTime
<1> QED
  BY <1>1, RotateInvariant, PTL

\* current_size is what the open file holds with its buffer, after every way
\* of opening it: creation, reopen, rotation, failed rotation and rollover.
THEOREM SizeIsRight == Spec => []SizeIsKnown
<1>1. RotInv => SizeIsKnown
  BY DEF RotInv, SizeAgrees, SizeIsKnown
<1> QED
  BY <1>1, RotateInvariant, PTL

\* The open file of a sink's first run stays within max_file_size, or holds
\* one line that is longer and nothing else, as long as no rename of it has
\* failed since the last rotation.  Short writes and lines of any size are
\* counted as file_write counts them.
THEOREM FileStaysWithinLimit == Spec => []FileWithinLimit
<1>1. RotInv => FileWithinLimit
  BY DEF RotInv, LimitHolds, Limited, OpenWithin, FileWithinLimit
<1> QED
  BY <1>1, RotateInvariant, PTL

-----------------------------------------------------------------------------
(***************************************************************************)
(* Retention by count, as long as nothing has failed.                      *)
(***************************************************************************)

\* An archive is plain or compressed, and both only while it is compressed.
Compressing == pc \in {"gzip", "gzdone"}
NoTwins == \A a \in Archives(disk) : a.kind = "plain" /\ Gz(a) \in Archives(disk)
                                        => Compressing /\ a = src

\* The cleanup still has to visit the plain archives that are on disk, and its
\* entries of compressed archives are those on disk, each once.
PlainsAgree ==
    /\ pc \in {"age", "compress", "gzip", "gzdone"} => batch.todo = Found("plain")
    /\ pc \in {"compress", "gzip", "gzdone"} => batch.excess = Excess(batch.todo)
    /\ Compressing => batch.excess > 0
GzsAgree ==
    /\ pc = "age" => batch.gzs = Found("gz")
    /\ pc \in {"compress", "gzip", "gzdone", "cap"} =>
          /\ \A e, g \in batch.gzs : Gz(e) = Gz(g) => e = g
          /\ {Gz(e) : e \in batch.gzs}
                = Found("gz") \ (IF Compressing THEN {Gz(src)} ELSE {})
    /\ pc = "cap" => batch.excess = IF GzCap > 0 THEN Cardinality(batch.gzs) - GzCap
                                                 ELSE 0

CountsAgree == faults = 0 => ~blind /\ NoTwins /\ PlainsAgree /\ GzsAgree

\* As long as nothing has failed, nothing failed in the step before.
LEMMA NothingFailed ==
  ASSUME RotInv, [Next]_vars, faults' = 0
  PROVE  faults = 0 /\ (\A k : ~Fault(k)) /\ (~blind => ~blind')
<1>1. faults \in Nat
  BY BoundsAssumption DEF RotInv, TypeOK
<1>2. \A k : ~Fault(k)
  BY <1>1 DEF Fault
<1>3. faults' = faults /\ (blind' = blind)
  <2> USE DEF sinkVars, opVars, lineHist, runHist
  <2>1. CASE Cleanup
    BY <1>2, <2>1 DEF Cleanup, Collect, DeleteAged, CompressBegin, CompressWrite,
       CompressDone, DeleteExcess, CompressEnd, CapDelete, CleanupEnd, cleanFrame, NoFault
  <2>2. CASE Rotation \/ Write \/ RotateForce
    BY <1>2, <2>2 DEF Rotation, RenameDone, RenameFails, OpenSame, OpenNew, Rollover, Append,
       Write, WriteStraight, WriteRotate, WriteRollover, RotateForce, BeginArchive, NoFault,
       OpenFails
  <2>3. CASE \/ \E c \in Configs : Create(c)
             \/ Flush \/ Reopen \/ Close \/ Tick \/ Crash \/ MoveAway \/ UNCHANGED vars
    BY <1>2, <2>3 DEF Create, Flush, Reopen, Close, Tick, Crash, MoveAway, NoFault, OpenFails,
       vars
  <2> QED
    BY <2>1, <2>2, <2>3 DEF Next
<1> QED
  BY <1>2, <1>3, Zenon

\* The archives found are archives on disk.
LEMMA FoundAre ==
  ASSUME RotInv, NEW k \in {"plain", "gz"}
  PROVE  Found(k) \subseteq Archives(disk) /\ Found(k) \subseteq Name
BY DEF RotInv, TypeOK, Found, Archives

\* Steps that are not of a cleanup, and the clock.
LEMMA CountsRest ==
  ASSUME RotInv, CountsAgree, [Next]_vars, faults' = 0, ~Cleanup
  PROVE  CountsAgree'
<1> USE DEF sinkVars, opVars, lineHist, runHist
<1>1. /\ faults = 0 /\ ~blind /\ ~blind' /\ \A k : ~Fault(k)
      /\ NoTwins /\ PlainsAgree /\ GzsAgree
  BY NothingFailed DEF CountsAgree
<1>2. CASE UNCHANGED <<disk, pc, batch, active_dir, cfg>>
  <2>1. src' = src /\ Compressing' = Compressing
    BY <1>2 DEF src, Compressing
  <2>2. Found("plain")' = Found("plain") /\ Found("gz")' = Found("gz")
    BY <1>2 DEF Found
  <2>3. NoTwins'
    BY <1>1, <1>2, <2>1 DEF NoTwins, Archives
  <2>4. PlainsAgree'
    BY <1>1, <1>2, <2>1, <2>2 DEF PlainsAgree, Excess
  <2>5. GzsAgree'
    BY <1>1, <1>2, <2>1, <2>2 DEF GzsAgree, GzCap
  <2> QED
    BY <1>1, <2>3, <2>4, <2>5 DEF CountsAgree
<1>3. CASE pc \notin Cleaning /\ pc' \notin Cleaning
  <2>1. PlainsAgree' /\ GzsAgree'
    BY <1>3 DEF PlainsAgree, GzsAgree, Compressing, Cleaning
  <2>2. ASSUME NEW a \in Archives(disk'), a.kind = "plain", Gz(a) \in Archives(disk')
        PROVE  FALSE
    <3>1. ~(a \in Archives(disk) /\ Gz(a) \in Archives(disk))
      BY <1>1, <1>3, <2>2 DEF NoTwins, Compressing, Cleaning
    <3>2. RenameDone /\ Archives(disk') \subseteq Archives(disk) \cup {rot.to}
      BY <2>2, <3>1, ArchivesStay
    <3>3. /\ rot.to \in Name /\ rot.to.kind = "plain" /\ rot.to.dir = active_dir
          /\ \A g \in Archives(disk) : g.dir = active_dir => Key(g) < Key(rot.to)
      BY <1>1, <3>2 DEF RenameDone, RotInv, NameIsNewest
    <3>4. a \in Name
      BY <2>2, <3>2, <3>3 DEF Archives, RotInv, TypeOK
    <3>5. Gz(a).kind = "gz" /\ Gz(a).dir = a.dir /\ Key(Gz(a)) = Key(a) /\ Key(a) \in Nat
      BY <3>4, NamesAre, GzIs, KeyOrder
    <3>6. Gz(a) # rot.to
      BY <3>3, <3>5
    <3>7. a = rot.to /\ Gz(a) \in Archives(disk)
      BY <2>2, <3>1, <3>2, <3>6
    <3>8. Key(Gz(a)) < Key(a)
      BY <3>3, <3>5, <3>7
    <3> QED
      BY <3>5, <3>8
  <2> QED
    BY <1>1, <2>1, <2>2 DEF CountsAgree, NoTwins
<1>4. CASE Tick \/ UNCHANGED vars
  BY <1>2, <1>4 DEF Tick, vars
<1>5. ~Crash
  BY <1>1 DEF Crash
<1>6. CASE Rotation
  BY <1>3, <1>6 DEF Rotation, RenameDone, RenameFails, OpenSame, OpenNew, Rollover, Append,
     Resume, Cleaning
<1>7. CASE \/ \E c \in Configs : Create(c)
           \/ Flush \/ Reopen \/ Close \/ MoveAway \/ Write \/ RotateForce
  BY <1>3, <1>7 DEF Create, Flush, Reopen, Close, MoveAway, Write, WriteBegin, WriteStraight,
     WriteRollover, WriteRotate, RotateForce, BeginArchive, Cleaning
<1> QED
  BY <1>4, <1>5, <1>6, <1>7 DEF Next

\* A plain archive that goes takes its place in the excess with it.
LEMMA ExcessStep ==
  ASSUME RotInv, NEW A \in SUBSET Name, NEW a \in A, Excess(A) > 0
  PROVE  Excess(A \ {a}) = Excess(A) - 1 /\ Cardinality(A) - 1 >= cfg.backups
<1>1. IsFiniteSet(A) /\ Cardinality(A) \in Nat
  BY SizesAre
<1>2. Cardinality(A \ {a}) = Cardinality(A) - 1
  BY <1>1, FS_RemoveElement
<1>3. cfg.backups \in Int
  BY ConfigsAssumption DEF RotInv, TypeOK
<1> QED
  BY <1>1, <1>2, <1>3 DEF Excess

\* The steps of a cleanup.
LEMMA CountsClean ==
  ASSUME RotInv, CountsAgree, [Next]_vars, faults' = 0, Cleanup
  PROVE  CountsAgree'
<1>1. /\ faults = 0 /\ ~blind /\ ~blind' /\ \A k : ~Fault(k)
      /\ NoTwins /\ PlainsAgree /\ GzsAgree
  BY NothingFailed DEF CountsAgree
<1>2. active_dir' = active_dir /\ cfg' = cfg
  BY CleanupSpares DEF cleanFrame, sinkVars
<1>3. /\ batch \in [todo : SUBSET Name, gzs : SUBSET Name, excess : Int]
      /\ DOMAIN disk \subseteq Name
  BY DEF RotInv, LocalsOK, TypeOK
<1>4. /\ Found("plain")' = {f \in DOMAIN disk' : f.kind = "plain" /\ f.dir = active_dir}
      /\ Found("gz")' = {f \in DOMAIN disk' : f.kind = "gz" /\ f.dir = active_dir}
  BY <1>2 DEF Found
<1>5. \A A : Excess(A)' = Excess(A)
  BY <1>2 DEF Excess
<1>6. Visited = [todo |-> batch.todo \ {src}, gzs |-> batch.gzs, excess |-> batch.excess]
  BY <1>3 DEF Visited
<1>7. SUFFICES NoTwins' /\ PlainsAgree' /\ GzsAgree'
  BY <1>1 DEF CountsAgree
\* Archives that go leave no new twins, out of gzip_file.
<1>8. ASSUME DOMAIN disk' \subseteq DOMAIN disk, ~Compressing
      PROVE  NoTwins'
  BY <1>1, <1>8 DEF NoTwins, Archives
<1>9. CASE Collect
  <2>1. /\ batch'.todo = Found("plain") /\ batch'.gzs = Found("gz")
        /\ pc = "collect" /\ pc' = "age" /\ disk' = disk
    BY <1>1, <1>9 DEF Collect
  <2>2. Found("plain")' = Found("plain") /\ Found("gz")' = Found("gz")
    BY <1>4, <2>1 DEF Found
  <2> QED
    BY <1>8, <2>1, <2>2 DEF PlainsAgree, GzsAgree, Compressing
<1>10. CASE DeleteAged
  <2>1. /\ pc = "age" /\ pc' = "compress"
        /\ disk' = Restrict(disk, DOMAIN disk \ Aged)
        /\ batch' = [todo |-> batch.todo \ Aged, gzs |-> batch.gzs \ Aged,
                     excess |-> Excess(batch.todo \ Aged)]
    BY <1>1, <1>10 DEF DeleteAged, Expire
  <2>2. DOMAIN disk' = DOMAIN disk \ Aged
    BY <2>1, RestrictIs
  <2>3. batch.todo = Found("plain") /\ batch.gzs = Found("gz")
    BY <1>1, <2>1 DEF PlainsAgree, GzsAgree
  <2>4. Found("plain")' = Found("plain") \ Aged /\ Found("gz")' = Found("gz") \ Aged
    BY <1>4, <2>2 DEF Found
  <2>5. \A e \in batch.gzs : Gz(e) = e
    BY <1>3, <2>3, GzIs DEF Found
  <2>6. NoTwins'
    BY <1>8, <2>1, <2>2 DEF Compressing
  <2>7. PlainsAgree'
    BY <1>5, <2>1, <2>3, <2>4 DEF PlainsAgree, Compressing
  <2>8. {Gz(e) : e \in batch'.gzs} = batch'.gzs
    BY <2>1, <2>5
  <2>9. GzsAgree'
    BY <2>1, <2>3, <2>4, <2>5, <2>8 DEF GzsAgree, Compressing
  <2> QED
    BY <2>6, <2>7, <2>9
\* What is known of the archive that is visited.
<1>11. ASSUME pc \in {"compress", "gzip", "gzdone"}, batch.todo # {}
       PROVE  /\ src \in Found("plain") /\ src \in Archives(disk) /\ src \in Name
              /\ src.kind = "plain" /\ src.dir = active_dir
              /\ Gz(src).kind = "gz" /\ Gz(src).dir = active_dir
  <2>1. src \in batch.todo /\ src \in Name /\ batch.todo = Found("plain")
    BY <1>1, <1>11, SrcIs DEF PlainsAgree
  <2> QED
    BY <2>1, NamesAre DEF Found, Archives
\* It goes, compressed or deleted.
<1>12. ASSUME pc \in {"compress", "gzdone"}, batch.todo # {}, batch.excess > 0,
              disk' = Restrict(disk, DOMAIN disk \ {src}), pc' = "compress",
              batch'.todo = batch.todo \ {src}, batch'.excess = batch.excess - 1
       PROVE  PlainsAgree' /\ Found("gz")' = Found("gz")
  <2>1. DOMAIN disk' = DOMAIN disk \ {src}
    BY <1>12, RestrictIs
  <2>6. src.kind = "plain"
    BY <1>11, <1>12
  <2>2. Found("plain")' = Found("plain") \ {src} /\ Found("gz")' = Found("gz")
    BY <1>4, <2>1, <2>6 DEF Found
  <2>3. batch.todo = Found("plain") /\ batch.excess = Excess(batch.todo)
    BY <1>1, <1>12 DEF PlainsAgree
  <2>4. src \in batch.todo /\ batch.todo \in SUBSET Name
    BY <1>3, <1>11, <1>12, <2>3
  <2>5. Excess(batch'.todo) = batch'.excess
    BY <1>12, <2>3, <2>4, ExcessStep
  <2> QED
    BY <1>5, <1>12, <2>2, <2>3, <2>5 DEF PlainsAgree, Compressing
<1>13. CASE DeleteExcess
  <2>1. /\ pc = "compress" /\ pc' = "compress" /\ batch.todo # {} /\ batch.excess > 0
        /\ disk' = Restrict(disk, DOMAIN disk \ {src})
        /\ batch' = [Visited EXCEPT !.excess = @ - 1]
    BY <1>1, <1>13 DEF DeleteExcess, Visits, Expire
  <2>2. batch' = [todo |-> batch.todo \ {src}, gzs |-> batch.gzs,
                  excess |-> batch.excess - 1]
    BY <1>6, <2>1
  <2>3. PlainsAgree' /\ Found("gz")' = Found("gz")
    BY <1>12, <2>1, <2>2
  <2>4. NoTwins'
    BY <1>8, <2>1, RestrictIs DEF Compressing
  <2>5. GzsAgree'
    BY <1>1, <2>1, <2>2, <2>3 DEF GzsAgree, Compressing
  <2> QED
    BY <2>3, <2>4, <2>5
<1>14. CASE CompressBegin
  <2>1. /\ pc = "compress" /\ pc' = "gzip" /\ batch.todo # {} /\ batch.excess > 0
        /\ disk' = With(disk, Gz(src), [NewFile EXCEPT !.whole = FALSE])
        /\ batch' = batch
    BY <1>1, <1>14 DEF CompressBegin, Visits
  <2>2. src' = src /\ DOMAIN disk' = DOMAIN disk \cup {Gz(src)}
    BY <2>1 DEF src, With
  <2>3. Gz(src) \notin DOMAIN disk
    BY <1>1, <1>11, <2>1 DEF NoTwins, Compressing, Archives
  <2>4. /\ Found("plain")' = Found("plain")
        /\ Found("gz")' = Found("gz") \cup {Gz(src)} /\ Gz(src) \notin Found("gz")
    <3>1. Gz(src).kind = "gz" /\ Gz(src).dir = active_dir
      BY <1>11, <2>1
    <3> QED
      BY <1>4, <2>2, <2>3, <3>1 DEF Found
  <2>5. NoTwins'
    <3> SUFFICES ASSUME NEW a \in Archives(disk'), a.kind = "plain", Gz(a) \in DOMAIN disk'
                 PROVE  a = src
      BY <2>1, <2>2 DEF NoTwins, Compressing, Archives
    <3>1. a \in Archives(disk) /\ a \in Name /\ Gz(a).kind = "gz"
      BY <1>3, <1>11, <2>1, <2>2, NamesAre DEF Archives
    <3>2. Gz(a) \notin DOMAIN disk
      BY <1>1, <2>1, <3>1 DEF NoTwins, Compressing, Archives
    <3> QED
      BY <1>11, <2>1, <2>2, <3>1, <3>2, GzIs
  <2>6. PlainsAgree'
    BY <1>1, <1>5, <2>1, <2>4 DEF PlainsAgree, Compressing
  <2>7. GzsAgree'
    BY <1>1, <2>1, <2>2, <2>4 DEF GzsAgree, Compressing
  <2> QED
    BY <2>5, <2>6, <2>7
<1>15. CASE CompressWrite
  <2>1. /\ pc = "gzip" /\ pc' = "gzdone" /\ batch' = batch
        /\ disk' = [disk EXCEPT ![Gz(src)] = [NewFile EXCEPT !.bytes = disk[src].bytes]]
    BY <1>1, <1>15 DEF CompressWrite
  <2>2. src' = src /\ DOMAIN disk' = DOMAIN disk
    BY <2>1 DEF src
  <2>3. Found("plain")' = Found("plain") /\ Found("gz")' = Found("gz")
    BY <1>4, <2>2 DEF Found
  <2>4. NoTwins'
    BY <1>1, <2>1, <2>2 DEF NoTwins, Compressing, Archives
  <2>5. PlainsAgree'
    BY <1>1, <1>5, <2>1, <2>3 DEF PlainsAgree, Compressing
  <2>6. GzsAgree'
    BY <1>1, <2>1, <2>2, <2>3 DEF GzsAgree, Compressing
  <2> QED
    BY <2>4, <2>5, <2>6
<1>16. CASE CompressDone
  <2>1. /\ pc = "gzdone" /\ pc' = "compress"
        /\ disk' = Restrict(disk, DOMAIN disk \ {src})
        /\ batch' = [Visited EXCEPT !.gzs = @ \cup {src}, !.excess = @ - 1]
    BY <1>1, <1>16 DEF CompressDone, Without
  <2>2. batch' = [todo |-> batch.todo \ {src}, gzs |-> batch.gzs \cup {src},
                  excess |-> batch.excess - 1]
    BY <1>6, <2>1
  <2>3. batch.todo # {} /\ Gz(src) \in DOMAIN disk /\ batch.excess > 0
    BY <1>1, <2>1 DEF RotInv, BatchAgrees, Exists, PlainsAgree, Compressing
  <2>4. PlainsAgree' /\ Found("gz")' = Found("gz")
    <3>1. batch'.todo = batch.todo \ {src} /\ batch'.excess = batch.excess - 1
      BY <2>2
    <3> QED
      BY <1>12, <2>1, <2>3, <3>1
  <2>5. DOMAIN disk' = DOMAIN disk \ {src}
    BY <2>1, RestrictIs
  <2>6. NoTwins'
    BY <1>1, <2>5 DEF NoTwins, Archives
  <2>7. Gz(src) \in Found("gz")
    BY <1>11, <2>1, <2>3 DEF Found
  <2>8. /\ \A e, g \in batch.gzs : Gz(e) = Gz(g) => e = g
        /\ {Gz(e) : e \in batch.gzs} = Found("gz") \ {Gz(src)}
    BY <1>1, <2>1 DEF GzsAgree, Compressing
  <2>9. \A e, g \in batch'.gzs : Gz(e) = Gz(g) => e = g
    BY <2>2, <2>8
  <2>10. {Gz(e) : e \in batch'.gzs} = Found("gz")
    BY <2>2, <2>7, <2>8
  <2>11. GzsAgree'
    BY <2>1, <2>4, <2>9, <2>10 DEF GzsAgree, Compressing
  <2> QED
    BY <2>4, <2>6, <2>11
<1>17. CASE CompressEnd
  <2>1. /\ pc = "compress" /\ pc' = "cap" /\ disk' = disk
        /\ batch' = [todo |-> {}, gzs |-> batch.gzs,
                     excess |-> IF GzCap > 0 THEN Cardinality(batch.gzs) - GzCap ELSE 0]
    BY <1>17 DEF CompressEnd
  <2>2. Found("gz")' = Found("gz") /\ GzCap' = GzCap
    BY <1>2, <1>4, <2>1 DEF Found, GzCap
  <2>3. NoTwins' /\ PlainsAgree'
    BY <1>8, <2>1 DEF PlainsAgree, Compressing
  <2>4. GzsAgree'
    BY <1>1, <2>1, <2>2 DEF GzsAgree, Compressing
  <2> QED
    BY <2>3, <2>4
<1>18. CASE CapDelete
  <2>1. pc = "cap" /\ pc' = "cap" /\ batch.excess > 0
    BY <1>18 DEF CapDelete
  <2>2. /\ \A e, g \in batch.gzs : Gz(e) = Gz(g) => e = g
        /\ {Gz(e) : e \in batch.gzs} = Found("gz")
        /\ batch.excess = IF GzCap > 0 THEN Cardinality(batch.gzs) - GzCap ELSE 0
    BY <1>1, <2>1 DEF GzsAgree, Compressing
  <2>3. \A e \in batch.gzs : Exists(Gz(e))
    BY <2>2 DEF Exists, Found
  <2>4. PICK e \in batch.gzs :
           /\ disk' = Restrict(disk, DOMAIN disk \ {Gz(e)})
           /\ batch' = [batch EXCEPT !.gzs = @ \ {e}, !.excess = @ - 1]
    BY <1>1, <1>18, <2>3 DEF CapDelete, Expire
  <2>5. batch'.gzs = batch.gzs \ {e} /\ batch'.excess = batch.excess - 1
    BY <1>3, <2>4
  <2>6. DOMAIN disk' = DOMAIN disk \ {Gz(e)}
    BY <2>4, RestrictIs
  <2>7. Found("gz")' = Found("gz") \ {Gz(e)} /\ GzCap' = GzCap
    BY <1>2, <1>4, <2>6 DEF Found, GzCap
  <2>8. {Gz(g) : g \in batch'.gzs} = Found("gz")'
    BY <2>2, <2>5, <2>7
  <2>9. IsFiniteSet(batch.gzs) /\ Cardinality(batch.gzs) \in Nat
    BY <1>3, SizesAre
  <2>10. Cardinality(batch'.gzs) = Cardinality(batch.gzs) - 1
    BY <2>5, <2>9, FS_RemoveElement
  <2>11. GzCap \in Int
    BY ConfigsAssumption DEF GzCap, RotInv, TypeOK
  <2>12. batch'.excess = IF GzCap > 0 THEN Cardinality(batch'.gzs) - GzCap ELSE 0
    BY <2>1, <2>2, <2>5, <2>9, <2>10, <2>11
  <2>13. GzsAgree'
    BY <2>1, <2>2, <2>5, <2>7, <2>8, <2>12 DEF GzsAgree, Compressing
  <2>14. NoTwins' /\ PlainsAgree'
    BY <1>8, <2>1, <2>6 DEF PlainsAgree, Compressing
  <2> QED
    BY <2>13, <2>14
<1>19. CASE CleanupEnd
  <2>1. pc = "cap" /\ pc' \in {"idle", "append"} /\ disk' = disk
    BY <1>19 DEF CleanupEnd, Resume
  <2> QED
    BY <1>8, <2>1 DEF PlainsAgree, GzsAgree, Compressing
<1> QED
  BY <1>9, <1>10, <1>13, <1>14, <1>15, <1>16, <1>17, <1>18, <1>19 DEF Cleanup

\* The counts are right as long as nothing has failed.
LEMMA CountsStep == RotInv /\ CountsAgree /\ [Next]_vars => CountsAgree'
<1> SUFFICES ASSUME RotInv, CountsAgree, [Next]_vars, faults' = 0 PROVE CountsAgree'
  BY DEF CountsAgree
<1> QED
  BY CountsRest, CountsClean

\* A plain archive that the cleanup takes out is the oldest of those found.
LEMMA PlainSpares ==
  ASSUME RotInv, CountsAgree, faults = 0, pc \in {"compress", "gzip", "gzdone"},
         batch.todo # {}, batch.excess > 0
  PROVE  Cardinality(Newer(src)) >= cfg.backups
<1>1. /\ batch.todo = Found("plain") /\ batch.excess = Excess(batch.todo)
      /\ batch.todo \in SUBSET Name
  BY DEF CountsAgree, PlainsAgree, RotInv, LocalsOK
<1>2. src \in batch.todo /\ src.kind = "plain" /\ src.dir = active_dir
  BY <1>1, SrcIs DEF Found
<1>3. \A g \in batch.todo \ {src} : Key(src) < Key(g)
  <2> SUFFICES ASSUME NEW g \in batch.todo \ {src} PROVE Key(src) < Key(g)
    OBVIOUS
  <2>1. Key(src) <= Key(g)
    BY <1>1, OldestIs DEF src
  <2>2. Key(src) < Key(g) \/ Key(g) < Key(src)
    BY <1>1, <1>2, KeysDiffer DEF Found
  <2>3. Key(src) \in Nat /\ Key(g) \in Nat
    BY <1>1, <1>2, KeyOrder
  <2> QED
    BY <2>1, <2>2, <2>3
<1>4. ~(Key(src) > Key(src))
  BY <1>1, <1>2, KeyOrder
<1>5. Newer(src) = batch.todo \ {src}
  BY <1>1, <1>2, <1>3, <1>4 DEF Newer
<1>6. IsFiniteSet(batch.todo) /\ Cardinality(batch.todo) \in Nat
  BY <1>1, SizesAre
<1>7. Cardinality(batch.todo \ {src}) = Cardinality(batch.todo) - 1
  BY <1>2, <1>6, FS_RemoveElement
<1>8. Cardinality(batch.todo) - 1 >= cfg.backups
  BY <1>1, <1>2, ExcessStep
<1> QED
  BY <1>5, <1>7, <1>8

\* A compressed one is the oldest of the compressed ones found.
LEMMA GzSpares ==
  ASSUME RotInv, CountsAgree, faults = 0, pc = "cap", batch.excess > 0,
         NEW e \in batch.gzs, \A g \in batch.gzs : Key(e) <= Key(g)
  PROVE  Cardinality(Newer(Gz(e))) >= GzCap
<1> DEFINE A == batch.gzs
           B == Found("gz")
<1>1. /\ \A x, y \in A : Gz(x) = Gz(y) => x = y
      /\ {Gz(x) : x \in A} = B
      /\ batch.excess = IF GzCap > 0 THEN Cardinality(A) - GzCap ELSE 0
      /\ A \in SUBSET Name
  BY DEF CountsAgree, GzsAgree, Compressing, RotInv, LocalsOK
<1>2. B \in SUBSET Name
  BY FoundAre
<1>3. Gz(e) \in B /\ Gz(e).kind = "gz"
  BY <1>1 DEF Found
<1>4. \A g \in B \ {Gz(e)} : Key(Gz(e)) < Key(g)
  <2> SUFFICES ASSUME NEW g \in B \ {Gz(e)} PROVE Key(Gz(e)) < Key(g)
    OBVIOUS
  <2>1. PICK x \in A : g = Gz(x)
    BY <1>1
  <2>2. Key(Gz(e)) = Key(e) /\ Key(g) = Key(x) /\ Key(e) <= Key(x)
    BY <1>1, <2>1, GzIs
  <2>3. Key(Gz(e)) < Key(g) \/ Key(g) < Key(Gz(e))
    BY <1>2, <1>3, KeysDiffer DEF Found
  <2>4. Key(Gz(e)) \in Nat /\ Key(g) \in Nat
    BY <1>2, <1>3, KeyOrder
  <2> QED
    BY <2>2, <2>3, <2>4
<1>5. ~(Key(Gz(e)) > Key(Gz(e)))
  BY <1>2, <1>3, KeyOrder
<1>6. Newer(Gz(e)) = B \ {Gz(e)}
  BY <1>3, <1>4, <1>5 DEF Newer
<1>7. Cardinality(B) = Cardinality(A)
  <2> DEFINE f == [x \in A |-> Gz(x)]
  <2>1. f \in Bijection(A, B)
    BY <1>1 DEF Bijection, Injection, Surjection, IsInjective
  <2>2. IsFiniteSet(A)
    BY <1>1, SizesAre
  <2> HIDE DEF A, B, f
  <2>3. ExistsBijection(A, B)
    BY <2>1 DEF ExistsBijection
  <2> QED
    BY <2>2, <2>3, FS_Bijection
<1>8. IsFiniteSet(B) /\ Cardinality(B) \in Nat
  BY <1>2, SizesAre
<1>9. Cardinality(B \ {Gz(e)}) = Cardinality(B) - 1
  BY <1>3, <1>8, FS_RemoveElement
<1>10. GzCap \in Int
  BY ConfigsAssumption DEF GzCap, RotInv, TypeOK
<1> HIDE DEF A, B
<1>11. Cardinality(A) - GzCap > 0
  BY <1>1
<1> QED
  BY <1>6, <1>7, <1>8, <1>9, <1>10, <1>11

\* Every file that a step takes out.
LEMMA SparesStep ==
  ASSUME RotInv, CountsAgree, [Next]_vars, faults = 0
  PROVE  SparesNewest
<1> USE DEF sinkVars, opVars, lineHist, runHist
<1> SUFFICES ASSUME NEW f \in DOMAIN disk \ DOMAIN disk'
             PROVE  /\ f.kind = "plain" /\ pc \in {"compress", "gzdone"}
                          => Cardinality(Newer(f)) >= cfg.backups
                    /\ f.kind = "gz" /\ pc = "cap" => Cardinality(Newer(f)) >= GzCap
  BY DEF SparesNewest
<1>1. SUFFICES ASSUME pc \in {"compress", "gzdone", "cap"}
               PROVE  /\ f.kind = "plain" /\ pc \in {"compress", "gzdone"}
                            => Cardinality(Newer(f)) >= cfg.backups
                      /\ f.kind = "gz" /\ pc = "cap" => Cardinality(Newer(f)) >= GzCap
  OBVIOUS
<1>2. \/ CompressBegin \/ DeleteExcess \/ CompressDone \/ CapDelete
      \/ UNCHANGED disk
  <2>1. CASE Cleanup
    BY <1>1, <2>1 DEF Cleanup, Collect, DeleteAged, CompressWrite, CompressEnd, CleanupEnd
  <2>2. CASE Rotation \/ Write \/ RotateForce
    BY <1>1, <2>2 DEF Rotation, RenameDone, RenameFails, OpenSame, OpenNew, Rollover, Append,
       Write, WriteBegin, WriteStraight, WriteRotate, WriteRollover, RotateForce
  <2>3. CASE \/ \E c \in Configs : Create(c)
             \/ Flush \/ Reopen \/ Close \/ Tick \/ Crash \/ MoveAway \/ UNCHANGED vars
    BY <1>1, <2>3 DEF Create, Flush, Reopen, Close, Tick, Crash, MoveAway, vars
  <2> QED
    BY <2>1, <2>2, <2>3 DEF Next
<1>3. CASE CompressBegin
  <2>1. pc = "compress" /\ batch.todo # {}
    BY <1>3 DEF CompressBegin, Visits
  <2>2. Gz(src).kind = "gz"
    BY <2>1, SrcIs
  <2>3. DOMAIN disk \ {Gz(src)} \subseteq DOMAIN disk'
    BY <1>3, RestrictIs DEF CompressBegin, With, Without
  <2> QED
    BY <2>1, <2>2, <2>3
<1>4. CASE DeleteExcess \/ CompressDone
  <2>1. /\ pc \in {"compress", "gzdone"} /\ batch.todo # {} /\ batch.excess > 0
    BY <1>4 DEF DeleteExcess, Visits, CompressDone, RotInv, BatchAgrees, CountsAgree,
       PlainsAgree, Compressing
  <2>2. disk' = disk \/ disk' = Restrict(disk, DOMAIN disk \ {src})
    BY <1>4 DEF DeleteExcess, CompressDone, Expire, Without
  <2>3. f = src
    BY <2>2, RestrictIs
  <2> QED
    BY <2>1, <2>3, PlainSpares
<1>5. CASE CapDelete
  <2>1. /\ pc = "cap" /\ batch.excess > 0
    BY <1>5 DEF CapDelete
  <2>2. PICK e \in batch.gzs :
           /\ \A g \in batch.gzs : Key(e) <= Key(g)
           /\ disk' = disk \/ disk' = Restrict(disk, DOMAIN disk \ {Gz(e)})
    BY <1>5 DEF CapDelete, Expire
  <2>3. f = Gz(e)
    BY <2>2, RestrictIs
  <2>4. Cardinality(Newer(Gz(e))) >= GzCap
    BY <2>1, <2>2, GzSpares
  <2> QED
    BY <2>1, <2>3, <2>4
<1>6. CASE UNCHANGED disk
  BY <1>6
<1> QED
  BY <1>2, <1>3, <1>4, <1>5, <1>6

\* Retention by count deletes or compresses an archive only when the
\* configured number of newer ones remain (hx_rotate_cleanup, gzip_file), for
\* any limits, clock and restarts, as long as no call has failed.
THEOREM NewestStay == Spec => NewestAreSparedWithoutFaults
<1>1. Init => CountsAgree
  BY DEF Init, CountsAgree, NoTwins, Archives, PlainsAgree, GzsAgree, Compressing
<1>2. Spec => [](RotInv /\ CountsAgree)
  BY <1>1, RotInvInit, RotInvStep, CountsStep, PTL DEF Spec
<1>3. RotInv /\ CountsAgree /\ [Next]_vars => [faults = 0 => SparesNewest]_vars
  BY SparesStep
<1> QED
  BY <1>2, <1>3, PTL DEF Spec, NewestAreSparedWithoutFaults

=============================================================================
