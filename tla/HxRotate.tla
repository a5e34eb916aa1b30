------------------------------ MODULE HxRotate ------------------------------
(***************************************************************************)
(* The rotating file sink (src/src/hx_clog_file.c, hx_clog_rotate.c).      *)
(*                                                                         *)
(* A write may rotate first: the active file is closed, renamed to an      *)
(* archive, reopened, and old archives are deleted by age, compressed and  *)
(* deleted by count.  All of it runs under the sink's lock, so the steps   *)
(* of one operation never interleave with another's; what can come between *)
(* them is the clock, a failing system call, and the end of the process.   *)
(* A failure, a crash and a move of the file from outside are faults, of   *)
(* which a behaviour has at most MaxFaults.                                *)
(*                                                                         *)
(* Line n is the n-th line written, and a file holds its bytes, the pairs  *)
(* <<n, 1>>, <<n, 2>>, ...  A second is one unit of now and a day has      *)
(* DayLength of them.  Paths are the records of Name, so that formatting   *)
(* and strict parsing of archive names are the construction and the        *)
(* selection of records.                                                   *)
(***************************************************************************)
EXTENDS Integers, FiniteSets, FiniteSetsExt, Functions

CONSTANTS
    Configs,    \* configurations a sink may be created with
    MaxLines,   \* bound: lines written
    MaxSize,    \* bound: bytes of a line
    MaxTime,    \* bound: last second
    DayLength,  \* seconds of a day
    MaxStarts,  \* bound: creations of the sink
    MaxFaults,  \* bound: faults
    Faults      \* the faults considered

FaultKinds == {"open", "scan", "rename", "remove", "gzip", "write",
               "crash", "move"}

ASSUME ConfigsAssumption == \A c \in Configs :
    /\ c.policy \in {"NONE", "SIZE", "TIME", "BOTH"}
    /\ c.max_size \in Nat /\ c.interval \in Nat /\ c.days \in Nat
    /\ c.backups \in Int /\ c.gz \in Int
    /\ {c.daily, c.align, c.startup, c.subdir, c.zlib} \subseteq BOOLEAN
ASSUME BoundsAssumption == /\ {MaxLines, MaxSize, MaxTime, DayLength, MaxStarts,
                               MaxFaults} \subseteq Nat
                           /\ DayLength > 0 /\ MaxTime > 0
                           /\ Faults \subseteq FaultKinds

VARIABLES
    disk,    \* the files: a function from their names to their content
    now,     \* the clock, in seconds
    cfg,     \* the configuration of the sink
    \* struct hx_file_sink_impl
    fp,      \* name of the open file, or Closed
    buf,     \* bytes in its stdio buffer
    current_size, active_dir, cur_day, opened_sec, rotate_fail_sec,
    \* the operation in progress and its locals
    pc,
    incoming, \* bytes of the line being written, 0 between writes
    rot,     \* locals of hx_rotate_maybe and hx_rotate_force
    batch,   \* locals of hx_rotate_cleanup
    \* history
    n,       \* lines submitted
    flushed, \* bytes that reached a file
    expired, \* bytes deleted by retention
    erased,  \* bytes of an archive overwritten by a rename or a compression
    blind,   \* did a scan for the next index ever fail?
    owed,    \* has a rotation failed that did not succeed since?
    starts, faults

sinkVars == <<fp, buf, current_size, active_dir, cur_day, opened_sec,
              rotate_fail_sec>>
opVars   == <<rot, batch>>
lineHist == <<n, incoming, flushed, expired, erased>>
runHist  == <<blind, owed, starts, faults>>
vars     == <<disk, now, cfg, sinkVars, pc, opVars, lineHist, runHist>>

-----------------------------------------------------------------------------
(***************************************************************************)
(* Names.  A directory is a day with date_subdir and 0 without.            *)
(***************************************************************************)
Day(s) == s \div DayLength
Days   == 0..Day(MaxTime)
Index  == 0..MaxLines + MaxFaults + MaxStarts

Active(d)       == [kind |-> "active", dir |-> d, day |-> 0, index |-> 0]
Archive(d, y, i) == [kind |-> "plain", dir |-> d, day |-> y, index |-> i]
Gz(a)           == [a EXCEPT !.kind = "gz"]
Moved           == [kind |-> "moved", dir |-> 0, day |-> 0, index |-> 0]
Closed          == [kind |-> "closed", dir |-> 0, day |-> 0, index |-> 0]

Name == [kind : {"active", "plain", "gz", "moved"}, dir : Days, day : Days,
         index : Index]

\* archive_order_key: the age of an archive, from the date and index in its name.
Key(a) == a.day * (MaxLines + MaxFaults + MaxStarts + 1) + a.index
Oldest(A) == CHOOSE a \in A : \A b \in A : Key(a) <= Key(b)

Exists(f) == f \in DOMAIN disk
Without(d, f)  == Restrict(d, DOMAIN d \ {f})
With(d, f, c)  == [g \in DOMAIN d \cup {f} |-> IF g = f THEN c ELSE d[g]]
Rename(d, f, g) == With(Without(d, f), g, d[f])

BytesIn(f) == IF Exists(f) THEN disk[f].bytes ELSE {}
NewFile == [bytes |-> {}, mtime |-> now, whole |-> TRUE]

\* fflush of the open file: its content with the stdio buffer appended.
Flushed == IF fp = Closed \/ buf = {} THEN disk
           ELSE With(disk, fp, [bytes |-> disk[fp].bytes \cup buf,
                                mtime |-> now, whole |-> TRUE])

NoRot   == [ts |-> 0, to |-> Closed, forced |-> FALSE]
NoBatch == [todo |-> {}, gzs |-> {}, excess |-> 0]

Fault(k) == /\ k \in Faults /\ faults < MaxFaults
            /\ faults' = faults + 1
NoFault  == UNCHANGED faults

\* The bytes of the lines up to m.
BytesUpTo(m) == (1..m) \X (1..MaxSize)

TypeOK ==
    /\ DOMAIN disk \subseteq Name
    /\ \A f \in DOMAIN disk : /\ disk[f].bytes \subseteq BytesUpTo(n)
                              /\ disk[f].mtime \in 0..now
                              /\ disk[f].whole \in BOOLEAN
    /\ now \in 1..MaxTime /\ cfg \in Configs
    /\ fp = Closed \/ fp \in DOMAIN disk
    /\ buf \subseteq BytesUpTo(n) /\ (fp = Closed => buf = {})
    /\ {current_size, opened_sec, rotate_fail_sec} \subseteq Nat
    /\ {active_dir, cur_day} \subseteq Days
    /\ pc \in {"down", "idle", "force", "rollover", "rename", "reopen", "open",
               "collect", "age", "compress", "gzip", "gzdone", "cap", "append"}
    /\ rot.to = Closed \/ rot.to \in Name
    /\ n \in 0..MaxLines /\ incoming \in 0..MaxSize
    /\ flushed \subseteq BytesUpTo(n)
    /\ expired \subseteq BytesUpTo(n) /\ erased \subseteq BytesUpTo(n)
    /\ blind \in BOOLEAN /\ owed \in BOOLEAN
    /\ starts \in 0..MaxStarts /\ faults \in 0..MaxFaults

Init ==
    /\ disk = [f \in {} |-> NewFile] /\ now = 1 /\ cfg \in Configs
    /\ fp = Closed /\ buf = {} /\ current_size = 0 /\ active_dir = 0
    /\ cur_day = 0 /\ opened_sec = 0 /\ rotate_fail_sec = 0
    /\ pc = "down" /\ rot = NoRot /\ batch = NoBatch
    /\ n = 0 /\ incoming = 0 /\ flushed = {} /\ expired = {} /\ erased = {}
    /\ blind = FALSE /\ owed = FALSE /\ starts = 0 /\ faults = 0

-----------------------------------------------------------------------------
(***************************************************************************)
(* Pieces shared by the operations.                                        *)
(***************************************************************************)

\* The stdio buffer goes to the file, and the file is closed.
CloseFile_KeepBuf ==  \* (mutant)
    /\ flushed' = flushed \cup buf /\ fp' = Closed /\ UNCHANGED buf
CloseFile == flushed' = flushed \cup buf /\ fp' = Closed /\ buf' = {}

\* hx_file_open_active: today's directory, append mode; the file now belongs
\* to today.  d is the disk before, size what current_size becomes.
Today(c) == Active(IF c.subdir THEN Day(now) ELSE 0)

SizeOnDisk_Zero(d, f) == 0  \* (mutant) what the file holds is not looked at
SizeOnDisk(d, f) == IF f \in DOMAIN d THEN Cardinality(d[f].bytes) ELSE 0

OpenFile(d, c, size) ==
    /\ disk' = IF Today(c) \in DOMAIN d THEN d ELSE With(d, Today(c), NewFile)
    /\ fp' = Today(c)
    /\ current_size' = size
    /\ active_dir' = Today(c).dir
    /\ cur_day' = Day(now) /\ opened_sec' = now

\* fopen fails: the directory was computed already, the rest keeps its values.
OpenFails(d) ==
    /\ Fault("open")
    /\ disk' = d /\ fp' = Closed
    /\ active_dir' = Today(cfg).dir
    /\ UNCHANGED <<current_size, cur_day, opened_sec>>

\* The end of a rotation: the write goes on, the creation of the sink is done.
Resume == pc' = IF rot.forced THEN "idle" ELSE "append"

-----------------------------------------------------------------------------
(***************************************************************************)
(* Creating, flushing, reopening and closing the sink.                     *)
(***************************************************************************)
Create(c) ==
    /\ pc = "down" /\ starts < MaxStarts
    /\ starts' = starts + 1
    /\ cfg' = c
    /\ OpenFile(disk, c, SizeOnDisk(disk, Today(c)))
    /\ rotate_fail_sec' = 0
    /\ pc' = IF c.startup /\ current_size' > 0 THEN "force" ELSE "idle"
    /\ UNCHANGED <<now, buf, opVars, lineHist, blind, owed, faults>>

Flush ==
    /\ pc = "idle" /\ fp # Closed /\ buf # {}
    /\ disk' = Flushed /\ flushed' = flushed \cup buf /\ buf' = {}
    /\ UNCHANGED <<now, cfg, fp, current_size, active_dir, cur_day, opened_sec,
                   rotate_fail_sec, pc, opVars, n, incoming, expired, erased,
                   runHist>>

\* hx_sink_file_reopen.
Reopen ==
    /\ pc = "idle"
    /\ flushed' = flushed \cup buf /\ buf' = {}
    /\ \/ OpenFile(Flushed, cfg, SizeOnDisk(Flushed, Today(cfg))) /\ NoFault
       \/ OpenFails(Flushed)
    /\ UNCHANGED <<now, cfg, rotate_fail_sec, pc, opVars, n, incoming, expired,
                   erased, blind, owed, starts>>

Close ==
    /\ pc = "idle"
    /\ disk' = Flushed /\ CloseFile
    /\ pc' = "down"
    /\ UNCHANGED <<now, cfg, current_size, active_dir, cur_day, opened_sec,
                   rotate_fail_sec, opVars, n, incoming, expired, erased,
                   runHist>>

-----------------------------------------------------------------------------
(***************************************************************************)
(* hx_rotate_maybe: the decision, at the start of the write of k bytes.    *)
(***************************************************************************)
NeedSize_Late(k) ==  \* (mutant) the incoming line is not counted
    /\ cfg.policy \in {"SIZE", "BOTH"} /\ cfg.max_size > 0
    /\ current_size > cfg.max_size /\ current_size > 0
NeedSize(k) == /\ cfg.policy \in {"SIZE", "BOTH"} /\ cfg.max_size > 0
               /\ current_size + k > cfg.max_size /\ current_size > 0
NeedDaily == /\ cfg.daily \/ cfg.policy \in {"TIME", "BOTH"}
             /\ Day(now) # cur_day
NeedInterval ==
    /\ cfg.policy \in {"TIME", "BOTH"} /\ cfg.interval > 0 /\ current_size > 0
    /\ IF cfg.align THEN now \div cfg.interval # opened_sec \div cfg.interval
                    ELSE now >= opened_sec + cfg.interval
NeedTime == NeedDaily \/ NeedInterval

\* A failed rotation is not tried again within the same second.
Deferred == rotate_fail_sec # 0 /\ now <= rotate_fail_sec
Rotates(k) == /\ cfg.policy # "NONE" \/ cfg.daily
              /\ ~Deferred
              /\ NeedSize(k) \/ NeedTime

\* The date in the archive's name.
ArchiveDay_Yesterday == IF NeedTime THEN Day(now) - 1 ELSE Day(now)  \* (mutant)
ArchiveDay == IF NeedTime /\ opened_sec > 0 THEN Day(opened_sec) ELSE Day(now)

\* index_cb: one more than the highest index in use for that date.
UsedIndices(y) == {f.index : f \in {g \in DOMAIN disk :
                       /\ g.kind \in {"plain", "gz"}
                       /\ g.dir = active_dir /\ g.day = y}}
NextIndex_Last(y) == Max({1} \cup UsedIndices(y))  \* (mutant)
NextIndex(y) == 1 + Max({0} \cup UsedIndices(y))

\* The archive is named and the active file is closed.  When the directory
\* cannot be read the index is 1.
BeginArchive(y, forced) ==
    /\ \E i \in Index :
          /\ \/ i = NextIndex(y) /\ NoFault /\ UNCHANGED blind
             \/ i = 1 /\ Fault("scan") /\ blind' = TRUE
          /\ rot' = [ts |-> now, to |-> Archive(active_dir, y, i),
                     forced |-> forced]
    /\ disk' = Flushed /\ CloseFile
    /\ pc' = "rename"
    /\ UNCHANGED <<now, cfg, current_size, active_dir, cur_day, opened_sec,
                   rotate_fail_sec, batch, expired, erased, owed, starts>>

WriteBegin(k) == pc = "idle" /\ n < MaxLines /\ n' = n + 1 /\ incoming' = k

WriteRotate ==
    /\ \E k \in 1..MaxSize : WriteBegin(k) /\ Rotates(k)
    /\ ~(cfg.subdir /\ NeedDaily)
    /\ BeginArchive(ArchiveDay, FALSE)

\* With date_subdir a new day is a new directory and no archive.
WriteRollover ==
    /\ \E k \in 1..MaxSize : WriteBegin(k) /\ Rotates(k)
    /\ cfg.subdir /\ NeedDaily
    /\ disk' = Flushed /\ CloseFile
    /\ pc' = "rollover"
    /\ UNCHANGED <<now, cfg, current_size, active_dir, cur_day, opened_sec,
                   rotate_fail_sec, opVars, expired, erased, runHist>>

WriteStraight ==
    /\ \E k \in 1..MaxSize : WriteBegin(k) /\ ~Rotates(k)
    /\ pc' = "append"
    /\ UNCHANGED <<disk, now, cfg, sinkVars, opVars, flushed, expired, erased,
                   runHist>>

\* hx_rotate_force, at the creation of a sink over a file with content.
RotateForce ==
    /\ pc = "force"
    /\ BeginArchive(Day(opened_sec), TRUE)
    /\ UNCHANGED <<n, incoming>>

-----------------------------------------------------------------------------
(***************************************************************************)
(* The rotation itself.                                                    *)
(***************************************************************************)
RenameDone ==
    /\ pc = "rename" /\ Exists(Active(active_dir))
    /\ disk' = Rename(disk, Active(active_dir), rot.to)
    /\ erased' = erased \cup BytesIn(rot.to)
    /\ rotate_fail_sec' = 0 /\ owed' = FALSE
    /\ pc' = "open"
    /\ UNCHANGED <<now, cfg, fp, buf, current_size, active_dir, cur_day,
                   opened_sec, opVars, n, incoming, flushed, expired, blind,
                   starts, faults>>

\* The file is in use or was moved away: go on with what the active path names.
RenameFails ==
    /\ pc = "rename"
    /\ IF Exists(Active(active_dir)) THEN Fault("rename") ELSE NoFault
    /\ owed' = TRUE
    /\ rotate_fail_sec' = IF rot.forced THEN now ELSE rot.ts
    /\ pc' = "reopen"
    /\ UNCHANGED <<disk, now, cfg, fp, buf, current_size, active_dir, cur_day,
                   opened_sec, opVars, lineHist, blind, starts>>

OpenSame ==
    /\ pc = "reopen"
    /\ \/ OpenFile(disk, cfg, SizeOnDisk(disk, Today(cfg))) /\ NoFault
       \/ OpenFails(disk)
    /\ Resume /\ rot' = NoRot
    /\ UNCHANGED <<now, cfg, buf, rotate_fail_sec, batch, lineHist, blind, owed,
                   starts>>

OpenNew ==
    /\ pc = "open"
    /\ \/ OpenFile(disk, cfg, 0) /\ NoFault /\ pc' = "collect" /\ UNCHANGED rot
       \/ OpenFails(disk) /\ Resume /\ rot' = NoRot
    /\ UNCHANGED <<now, cfg, buf, rotate_fail_sec, batch, lineHist, blind, owed,
                   starts>>

Rollover ==
    /\ pc = "rollover"
    /\ \/ OpenFile(disk, cfg, 0) /\ NoFault
       \/ OpenFails(disk)
    /\ pc' = "append"
    /\ UNCHANGED <<now, cfg, buf, rotate_fail_sec, opVars, lineHist, blind, owed,
                   starts>>

\* The line is written, or lost: no file is open, or fwrite comes up short
\* after w bytes.
Append ==
    /\ pc = "append"
    /\ \/ /\ fp # Closed
          /\ \E w \in 0..incoming :
                /\ IF w = incoming THEN NoFault ELSE Fault("write")
                /\ buf' = buf \cup ({n} \X (1..w))
                /\ current_size' = current_size + w
       \/ fp = Closed /\ NoFault /\ UNCHANGED <<buf, current_size>>
    /\ pc' = "idle" /\ incoming' = 0
    /\ UNCHANGED <<disk, now, cfg, fp, active_dir, cur_day, opened_sec,
                   rotate_fail_sec, opVars, n, flushed, expired, erased, blind,
                   owed, starts>>

-----------------------------------------------------------------------------
(***************************************************************************)
(* hx_rotate_cleanup.  batch.todo holds the plain archives still to be     *)
(* visited.  batch.gzs holds the entries of compressed archives: those     *)
(* found as .gz, and those just compressed, still under their plain name.  *)
(***************************************************************************)
cleanFrame == <<now, cfg, sinkVars, n, incoming, flushed, blind, owed, starts>>

Found(k) == {f \in DOMAIN disk : f.kind = k /\ f.dir = active_dir}

\* The working set; a part of it when the directory cannot be read, or the
\* list cannot grow any further.
Collect ==
    /\ pc = "collect"
    /\ \E P \in SUBSET Found("plain"), G \in SUBSET Found("gz") :
          /\ batch' = [todo |-> P, gzs |-> G, excess |-> 0]
          /\ IF P = Found("plain") /\ G = Found("gz") THEN NoFault
                                                      ELSE Fault("scan")
    /\ pc' = "age"
    /\ UNCHANGED <<disk, rot, expired, erased, cleanFrame>>

Expire(F) == /\ disk' = Restrict(disk, DOMAIN disk \ F)
             /\ expired' = expired \cup UNION {disk[f].bytes : f \in F}

Aged == {f \in batch.todo \cup batch.gzs :
            cfg.days > 0 /\ disk[f].mtime < now - cfg.days * DayLength}

\* How many of the plain archives are beyond max_backup_files.
Excess_OffByOne(A) ==  \* (mutant)
    IF cfg.backups > 0 THEN Cardinality(A) - cfg.backups + 1 ELSE 0
Excess(A) == IF cfg.backups > 0 THEN Cardinality(A) - cfg.backups ELSE 0

\* Delete by age.  What could not be deleted is not looked at again.
DeleteAged ==
    /\ pc = "age"
    /\ \E F \in SUBSET Aged :
          /\ Expire(F)
          /\ IF F = Aged THEN NoFault ELSE Fault("remove")
    /\ LET left == batch.todo \ Aged
       IN  batch' = [todo |-> left, gzs |-> batch.gzs \ Aged,
                     excess |-> Excess(left)]
    /\ pc' = "compress"
    /\ UNCHANGED <<rot, erased, cleanFrame>>

src     == Oldest(batch.todo)
Visited == [batch EXCEPT !.todo = @ \ {src}]
Visits(p) == pc = p /\ batch.excess > 0 /\ batch.todo # {}

\* gzip_file: the old target goes, the new one is created and filled, the
\* source is removed.  A failure leaves the source and goes to the next entry.
CompressBegin ==
    /\ Visits("compress") /\ cfg.zlib
    /\ \/ Fault("gzip") /\ batch' = Visited /\ UNCHANGED <<disk, erased, pc>>
       \/ /\ erased' = erased \cup BytesIn(Gz(src))
          /\ \/ /\ disk' = With(disk, Gz(src), [NewFile EXCEPT !.whole = FALSE])
                /\ pc' = "gzip" /\ NoFault /\ UNCHANGED batch
             \/ /\ disk' = Without(disk, Gz(src))
                /\ Fault("gzip") /\ batch' = Visited /\ UNCHANGED pc
    /\ UNCHANGED <<rot, expired, cleanFrame>>

CompressWrite ==
    /\ pc = "gzip"
    /\ \/ /\ disk' = [disk EXCEPT ![Gz(src)] =
                         [NewFile EXCEPT !.bytes = disk[src].bytes]]
          /\ pc' = "gzdone" /\ NoFault /\ UNCHANGED batch
       \/ /\ disk' = Without(disk, Gz(src))
          /\ Fault("gzip") /\ batch' = Visited /\ pc' = "compress"
    /\ UNCHANGED <<rot, expired, erased, cleanFrame>>

CompressDone ==
    /\ pc = "gzdone"
    /\ \/ /\ disk' = Without(disk, src) /\ NoFault
          /\ batch' = [Visited EXCEPT !.gzs = @ \cup {src}, !.excess = @ - 1]
       \/ UNCHANGED disk /\ Fault("remove") /\ batch' = Visited
    /\ pc' = "compress"
    /\ UNCHANGED <<rot, expired, erased, cleanFrame>>

\* Built without zlib: the archive is deleted instead.
DeleteExcess ==
    /\ Visits("compress") /\ ~cfg.zlib
    /\ \/ Expire({src}) /\ NoFault /\ batch' = [Visited EXCEPT !.excess = @ - 1]
       \/ UNCHANGED <<disk, expired>> /\ Fault("remove") /\ batch' = Visited
    /\ UNCHANGED <<pc, rot, erased, cleanFrame>>

GzCap == IF cfg.gz = 0 THEN cfg.backups ELSE cfg.gz

CompressEnd ==
    /\ pc = "compress" /\ ~Visits("compress")
    /\ batch' = [todo |-> {}, gzs |-> batch.gzs,
                 excess |-> IF GzCap > 0 THEN Cardinality(batch.gzs) - GzCap
                                         ELSE 0]
    /\ pc' = "cap"
    /\ UNCHANGED <<disk, rot, expired, erased, faults, cleanFrame>>

\* Delete the oldest compressed archives beyond the cap.  Two entries may
\* name the same file: the second remove fails.
CapDelete ==
    /\ pc = "cap" /\ batch.excess > 0 /\ batch.gzs # {}
    /\ \E e \in batch.gzs :
          /\ \A g \in batch.gzs : Key(e) <= Key(g)
          /\ \/ /\ Exists(Gz(e)) /\ NoFault
                /\ Expire({Gz(e)})
                /\ batch' = [batch EXCEPT !.gzs = @ \ {e}, !.excess = @ - 1]
             \/ /\ IF Exists(Gz(e)) THEN Fault("remove") ELSE NoFault
                /\ UNCHANGED <<disk, expired>>
                /\ batch' = [batch EXCEPT !.gzs = @ \ {e}]
    /\ UNCHANGED <<pc, rot, erased, cleanFrame>>

CleanupEnd ==
    /\ pc = "cap" /\ (batch.excess <= 0 \/ batch.gzs = {})
    /\ Resume /\ rot' = NoRot /\ batch' = NoBatch
    /\ UNCHANGED <<disk, expired, erased, faults, cleanFrame>>

-----------------------------------------------------------------------------
(***************************************************************************)
(* The world outside: the clock, the end of the process, and a tool that   *)
(* moves the active file away before it calls hx_clog_reopen.              *)
(***************************************************************************)
Tick == /\ now < MaxTime /\ now' = now + 1
        /\ UNCHANGED <<disk, cfg, sinkVars, pc, opVars, lineHist, runHist>>

Crash ==
    /\ pc # "down" /\ Fault("crash")
    /\ fp' = Closed /\ buf' = {} /\ pc' = "down"
    /\ incoming' = 0 /\ rot' = NoRot /\ batch' = NoBatch /\ owed' = FALSE
    /\ UNCHANGED <<disk, now, cfg, current_size, active_dir, cur_day, opened_sec,
                   rotate_fail_sec, n, flushed, expired, erased, blind, starts>>

MoveAway ==
    /\ pc = "idle" /\ Exists(Active(active_dir)) /\ ~Exists(Moved)
    /\ Fault("move")
    /\ disk' = Rename(disk, Active(active_dir), Moved)
    /\ fp' = IF fp = Active(active_dir) THEN Moved ELSE fp
    /\ UNCHANGED <<now, cfg, buf, current_size, active_dir, cur_day, opened_sec,
                   rotate_fail_sec, pc, opVars, lineHist, blind, owed, starts>>

Write    == WriteStraight \/ WriteRotate \/ WriteRollover
Rotation == RenameDone \/ RenameFails \/ OpenSame \/ OpenNew \/ Rollover \/ Append
Cleanup  == \/ Collect \/ DeleteAged \/ CompressBegin \/ CompressWrite
            \/ CompressDone \/ DeleteExcess \/ CompressEnd \/ CapDelete
            \/ CleanupEnd

Next == \/ \E c \in Configs : Create(c)
        \/ Flush \/ Reopen \/ Close \/ Write \/ RotateForce \/ Rotation \/ Cleanup
        \/ Tick \/ Crash \/ MoveAway

Spec == Init /\ [][Next]_vars

-----------------------------------------------------------------------------
(***************************************************************************)
(* Properties.                                                             *)
(***************************************************************************)
\* Was the byte x written before the byte y?
Before(x, y) == x[1] < y[1]

Kept == UNION {disk[f].bytes : f \in {g \in DOMAIN disk : disk[g].whole}}

\* A byte that reached a file stays in some complete file, through renames,
\* compressions, failures and crashes, until retention deletes its archive.
\* Only a directory that could not be read when the archive was named may
\* cost an archive of the same name (list_dir returns nothing at all).
FlushedLinesKept ==
    flushed \subseteq Kept \cup expired \cup (IF blind THEN erased ELSE {})

\* The order of the names, by which hx_rotate_cleanup chooses its victims, is
\* the order in which the archives were written.
NamesFollowTime ==
    ~blind =>
       \A a, b \in {f \in DOMAIN disk : f.kind \in {"plain", "gz"}} :
          a.dir = b.dir /\ Key(a) < Key(b)
             => \A l \in disk[a].bytes, m \in disk[b].bytes : Before(l, m)

\* current_size, which decides when to rotate, is what the open file holds
\* with its buffer, also after a failed rotation (hx_clog_rotate.c:727).
SizeIsKnown ==
    pc = "idle" /\ fp # Closed
       => current_size = Cardinality(disk[fp].bytes) + Cardinality(buf)

\* The open file stays within max_file_size, through flushes and reopens, or
\* holds one line alone, which is longer (an empty file is not rotated,
\* hx_clog_rotate.c:630), unless an archive rename has failed since the last
\* rotation.  (A file left by an earlier run of the program may be larger.)
OneLine(c) == \A x, y \in c : x[1] = y[1]
Within(c)  == Cardinality(c) <= cfg.max_size \/ OneLine(c)
FileWithinLimit ==
    pc = "idle" /\ fp # Closed /\ starts = 1
    /\ cfg.policy \in {"SIZE", "BOTH"} /\ cfg.max_size > 0 /\ ~owed
       => Within(disk[fp].bytes \cup buf)

Newer(f) == {g \in Found(f.kind) : Key(g) > Key(f)}

SparesNewest ==
    \A f \in DOMAIN disk \ DOMAIN disk' :
       /\ f.kind = "plain" /\ pc \in {"compress", "gzdone"}
             => Cardinality(Newer(f)) >= cfg.backups
       /\ f.kind = "gz" /\ pc = "cap" => Cardinality(Newer(f)) >= GzCap

\* Retention by count touches an archive only if the configured number of
\* newer ones remain: "N>0 keep N newest .gz", "how many newest backups stay
\* uncompressed" (docs/api.md:297-298).
NewestAreSpared == [][SparesNewest]_vars

\* The same as long as nothing has failed.
NewestAreSparedWithoutFaults == [][faults = 0 => SparesNewest]_vars
=============================================================================
