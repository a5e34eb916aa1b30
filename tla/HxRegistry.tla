----------------------------- MODULE HxRegistry -----------------------------
(***************************************************************************)
(* The registry of named loggers (src/src/hx_clog_core.c:2601-2769): a     *)
(* list under logger_lock, searched by name, in which "a.b" inherits the   *)
(* level of its nearest registered ancestor when it is created and         *)
(* set_level_for_prefix sets a logger and all its descendants.             *)
(*                                                                         *)
(* A name is a value with its set of dotted ancestors.  A logger stores    *)
(* 127 characters of its name: Stored[n] is what is left of n, and a name  *)
(* that does not fit (Stored[n] # n) is never found again under n.         *)
(* logger_create and logger_destroy handle loggers outside the registry    *)
(* and change none of this state.                                          *)
(***************************************************************************)
EXTENDS Integers, Sequences

CONSTANTS
    Client,    \* the threads
    Name,      \* the names callers use and loggers store
    Above,     \* Above[n]: the dotted ancestors of name n
    Stored,    \* Stored[n]: the name a logger created for n stores
    Level,     \* the levels callers set
    NoLevel,   \* no level
    MaxCalls   \* bound: calls that change the registry or a level

IsLong(n) == Stored[n] # n

\* A name under which only loggers created for it are found.
IsPlain(n) == ~IsLong(n) /\ \A m \in Name : IsLong(m) => Stored[m] # n

ASSUME AboveAssumption ==
    /\ Above \in [Name -> SUBSET Name]
    /\ \A n \in Name : n \notin Above[n] /\ \A a \in Above[n] : Above[a] \subseteq Above[n]
ASSUME StoredAssumption ==
    /\ Stored \in [Name -> Name]
    /\ \A n \in Name : ~IsLong(Stored[n]) /\ \A a \in Above[Stored[n]] : ~IsLong(a)
ASSUME LevelAssumption == NoLevel \notin Level /\ Level # {} /\ MaxCalls \in Nat

VARIABLES
    global,      \* g_core.level
    deflevel,    \* g_core.default_logger.level
    registry,    \* g_core.logger_head, oldest logger first
    doing,       \* the second half of the call each thread is in
    rule,        \* history: the level last set for a prefix and still in force
    calls        \* history: number of calls begun

regVars == <<global, deflevel, registry, doing, rule, calls>>

Idle   == [op |-> "none"]
Prefix == [op : {"prefix"}, name : Name, level : Level, cut : BOOLEAN]
Store  == [op : {"default", "global"}, level : Level]
Doing  == {Idle} \cup Prefix \cup Store
Logger == [name : Name, level : Level]

RegTypeOK ==
    /\ global \in Level /\ deflevel \in Level
    /\ registry \in Seq(Logger)
    /\ doing \in [Client -> Doing]
    /\ rule \in [Name -> Level \cup {NoLevel}]
    /\ calls \in 0..MaxCalls

RegInit ==
    /\ global \in Level /\ deflevel = global
    /\ registry = <<>>
    /\ doing = [t \in Client |-> Idle]
    /\ rule = [n \in Name |-> NoLevel]
    /\ calls = 0

-----------------------------------------------------------------------------
Call(t) == /\ doing[t] = Idle /\ calls < MaxCalls
           /\ calls' = calls + 1

\* logger_find_locked compares whole names.
Registered(n) == \E i \in DOMAIN registry : registry[i].name = n

\* The prefix logger itself and its dotted descendants.
Covers(p, n) == n = p \/ p \in Above[n]

\* logger_inherited_level_locked: the levels a new logger n may start at.
\* The newest of several loggers of one name is the one that is found.
Newest(i) == \A j \in DOMAIN registry :
                registry[j].name = registry[i].name => j <= i
Inherited_Global(n) == {global}   \* (mutant) ancestors are not looked up
Inherited(n) ==
    LET up == {i \in DOMAIN registry : registry[i].name \in Above[Stored[n]]}
    IN IF up = {} THEN {global}
       ELSE {registry[i].level : i \in {k \in up :
               /\ Newest(k)
               /\ \A j \in up : Covers(registry[j].name, registry[k].name)}}

\* hx_clog_logger_get under its lock: found, created, or out of memory.
GetLogger(n) ==
    \/ Registered(n) /\ UNCHANGED registry
    \/ /\ ~Registered(n)
       /\ \E l \in Inherited(n) :
             registry' = Append(registry, [name |-> Stored[n], level |-> l])
GetFails(n) == ~Registered(n) /\ UNCHANGED registry

\* The rules that setting the loggers named in hit to l leaves in force.
RulesAfter(hit, l) ==
    [q \in Name |-> IF rule[q] # l /\ \E n \in hit : Covers(q, n)
                    THEN NoLevel ELSE rule[q]]

-----------------------------------------------------------------------------
Get(t, n) ==
    /\ Call(t)
    /\ GetLogger(n) \/ GetFails(n)
    /\ UNCHANGED <<global, deflevel, doing, rule>>

\* set_level_for_prefix first makes sure that the prefix logger exists,
\* whether that succeeds or not, and releases the lock.
PrefixBegin(t, p, l) ==
    /\ Call(t)
    /\ \E cut \in BOOLEAN :
          /\ IF cut THEN GetFails(p) ELSE GetLogger(p)
          /\ doing' = [doing EXCEPT ![t] = [op |-> "prefix", name |-> p,
                                            level |-> l, cut |-> cut]]
    /\ UNCHANGED <<global, deflevel, rule>>

\* ... then sets every logger at or below the prefix.
Sweep(p, l) ==
    registry' = [i \in DOMAIN registry |->
                   IF Covers(p, registry[i].name)
                   THEN [registry[i] EXCEPT !.level = l] ELSE registry[i]]

PrefixSweep(t) ==
    /\ doing[t].op = "prefix"
    /\ LET p == doing[t].name
           l == doing[t].level
       IN /\ Sweep(p, l)
          /\ rule' = [RulesAfter({n \in Name : Covers(p, n)}, l) EXCEPT
                        ![p] = IF IsPlain(p) /\ ~doing[t].cut THEN l ELSE @]
    /\ doing' = [doing EXCEPT ![t] = Idle]
    /\ UNCHANGED <<global, deflevel, calls>>

\* The empty prefix: every registered logger, and no prefix logger.
SweepAll(t, l) ==
    /\ Call(t)
    /\ registry' = [i \in DOMAIN registry |-> [registry[i] EXCEPT !.level = l]]
    /\ rule' = [q \in Name |-> IF rule[q] = l THEN l ELSE NoLevel]
    /\ UNCHANGED <<global, deflevel, doing>>

\* hx_clog_logger_set_level through the handle of a registered logger.
SetLogger(t, i, l) ==
    /\ Call(t) /\ i \in DOMAIN registry
    /\ registry' = [registry EXCEPT ![i].level = l]
    /\ rule' = RulesAfter({registry[i].name}, l)
    /\ UNCHANGED <<global, deflevel, doing>>

\* hx_clog_logger_drop_all; its callers use no handle afterwards.
DropAll(t) ==
    /\ Call(t)
    /\ registry' = <<>>
    /\ rule' = [n \in Name |-> NoLevel]
    /\ doing' = [u \in Client |-> IF doing[u].op = "prefix"
                                  THEN [doing[u] EXCEPT !.cut = TRUE] ELSE doing[u]]
    /\ UNCHANGED <<global, deflevel>>

\* hx_clog_set_level stores the global level, then the default logger's;
\* logger_set_level on the default logger stores them the other way round.
SetLevel(t, l) ==
    /\ Call(t)
    /\ global' = l
    /\ doing' = [doing EXCEPT ![t] = [op |-> "default", level |-> l]]
    /\ UNCHANGED <<deflevel, registry, rule>>
SetDefaultLogger(t, l) ==
    /\ Call(t)
    /\ deflevel' = l
    /\ doing' = [doing EXCEPT ![t] = [op |-> "global", level |-> l]]
    /\ UNCHANGED <<global, registry, rule>>
StoreSecond(t) ==
    /\ doing[t].op \in {"default", "global"}
    /\ IF doing[t].op = "default"
       THEN deflevel' = doing[t].level /\ UNCHANGED global
       ELSE global' = doing[t].level /\ UNCHANGED deflevel
    /\ doing' = [doing EXCEPT ![t] = Idle]
    /\ UNCHANGED <<registry, rule, calls>>

RegNext ==
    \E t \in Client :
       \/ \E n \in Name : Get(t, n)
       \/ \E p \in Name, l \in Level : PrefixBegin(t, p, l)
       \/ PrefixSweep(t) \/ DropAll(t) \/ StoreSecond(t)
       \/ \E l \in Level : SweepAll(t, l) \/ SetLevel(t, l) \/ SetDefaultLogger(t, l)
       \/ \E i \in DOMAIN registry, l \in Level : SetLogger(t, i, l)

RegSpec == RegInit /\ [][RegNext]_regVars

-----------------------------------------------------------------------------
(***************************************************************************)
(* Properties.                                                             *)
(***************************************************************************)

\* A thread between the halves of set_level_for_prefix can rely on the prefix
\* logger it made sure of, unless it was told otherwise.
PrefixLoggerWaits ==
    \A t \in Client : doing[t].op = "prefix" /\ ~doing[t].cut /\ ~IsLong(doing[t].name)
       => Registered(doing[t].name)

\* One logger per name: "returns the existing logger of that name" holds for
\* every name that is not what a longer name was cut to.
OneLoggerPerName ==
    \A i, j \in DOMAIN registry :
       registry[i].name = registry[j].name /\ i # j
       => ~IsPlain(registry[i].name)

\* set_level_for_prefix "sets the prefix logger and all current descendants
\* and creates the prefix logger so later descendants inherit too"
\* (hx_clog.h:315-317): until another call sets one of them otherwise, every
\* logger at or below the prefix has that level, whenever and by whichever
\* thread it was created - unless the prefix logger could not be created, the
\* registry was dropped while the call ran, or a longer name was cut to it.
\* With it, what it rests on.
PrefixLevelHolds ==
    /\ \A p \in Name : rule[p] # NoLevel =>
          /\ Registered(p)
          /\ \A i \in DOMAIN registry :
                Covers(p, registry[i].name) => registry[i].level = rule[p]
    /\ PrefixLoggerWaits /\ OneLoggerPerName
=============================================================================
