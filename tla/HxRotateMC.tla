----------------------------- MODULE HxRotateMC -----------------------------
(* Small instances of HxRotate for TLC.                                    *)
EXTENDS HxRotate, TLC

Base == [policy |-> "SIZE", max_size |-> 1, interval |-> 0, days |-> 0,
         backups |-> -1, gz |-> -1, daily |-> FALSE, align |-> FALSE,
         startup |-> FALSE, subdir |-> FALSE, zlib |-> TRUE]

\* Aligned intervals and a day's directory, compression with a cap, startup
\* rotation; and a limit of one byte, intervals of a second and dates in one
\* directory, deletion by age and number without zlib.
MCConfigs == {[Base EXCEPT !.policy = "BOTH", !.max_size = 2, !.interval = 2,
                           !.align = TRUE, !.subdir = TRUE, !.backups = 1,
                           !.gz = 1, !.startup = TRUE],
              [Base EXCEPT !.policy = "BOTH", !.interval = 1, !.days = 1,
                           !.backups = 1, !.zlib = FALSE]}
MCFaults  == FaultKinds

MCCap     == {[Base EXCEPT !.backups = 1, !.gz = 1]}
MCCrash   == {"crash"}
=============================================================================
