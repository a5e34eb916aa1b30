------------------------------- MODULE HxNet -------------------------------
(***************************************************************************)
(* The network sink (src/src/hx_clog_net.c).  The connection is opened by  *)
(* the first write and, after a failure, by the first write that comes     *)
(* RetrySecs after it; lines written in between are dropped, and so is the *)
(* line whose connect or send fails.  The sink runs under sink_lock, so it *)
(* handles one line at a time, however long a connect or a send takes.     *)
(*                                                                         *)
(* A line is sent in Chunks pieces, which stand for the partial sends of   *)
(* TCP; a UDP datagram goes out whole.  The peer and the clock move at any *)
(* time; the clock, time(NULL), does not go back.                          *)
(***************************************************************************)
EXTENDS Integers, Sequences

CONSTANTS
    RetrySecs,  \* HX_NET_RETRY_SECS
    Chunks,     \* pieces a TCP line may be sent in
    MaxNow,     \* bound: the clock
    MaxWrites   \* bound: lines

ASSUME NetAssumption == /\ RetrySecs \in Nat /\ Chunks \in Nat \ {0}
                        /\ MaxNow \in Nat /\ MaxWrites \in Nat

VARIABLES
    now,            \* time(NULL)
    proto,          \* n->proto
    connected,      \* n->connected and n->fd
    last_attempt,   \* n->last_attempt_sec
    npc,            \* where the sink is in net_write, or "closed"
    cur,            \* number of the line being written: lines count up
    off,            \* pieces of it sent
    wire,           \* history: the pieces sent, with their connection
    starts,         \* history: when connection attempts began
    reports         \* history: errors reported

netVars == <<now, proto, connected, last_attempt, npc, cur, off, wire, starts, reports>>

Piece == [conn : Nat, line : Nat, piece : Nat]

NetTypeOK ==
    /\ now \in Nat /\ proto \in {"TCP", "UDP"}
    /\ connected \in BOOLEAN /\ last_attempt \in Nat
    /\ npc \in {"idle", "opening", "sending", "closed"}
    /\ cur \in 0..MaxWrites /\ off \in 0..Chunks
    /\ wire \in Seq(Piece) /\ starts \in Seq(Nat) /\ reports \in Nat

\* hx_sink_network_create: the first write attempts at once.
NetInit ==
    /\ now = RetrySecs /\ proto \in {"TCP", "UDP"}
    /\ connected = FALSE /\ last_attempt = 0
    /\ npc = "idle" /\ cur = 0 /\ off = 0
    /\ wire = <<>> /\ starts = <<>> /\ reports = 0

-----------------------------------------------------------------------------
NextLine == npc = "idle" /\ cur < MaxWrites /\ cur' = cur + 1 /\ off' = 0

Report == reports' = reports + 1

\* net_disconnect after a failed send; the back-off starts.
Disconnect_Not == /\ UNCHANGED connected     \* (mutant) the socket is kept
                  /\ last_attempt' = now /\ npc' = "idle"
Disconnect == connected' = FALSE /\ last_attempt' = now /\ npc' = "idle"

\* A line that meets the back-off window is dropped without a report.
InBackoff_Never == FALSE      \* (mutant) every line attempts to connect
InBackoff == now - last_attempt < RetrySecs

WriteDropped ==
    /\ NextLine /\ ~connected /\ InBackoff
    /\ UNCHANGED <<now, proto, connected, last_attempt, npc, wire, starts, reports>>

\* net_open begins: resolve, then connect to each address in turn.
WriteAttempt ==
    /\ NextLine /\ ~connected /\ ~InBackoff
    /\ last_attempt' = now
    /\ starts' = Append(starts, now)
    /\ npc' = "opening"
    /\ UNCHANGED <<now, proto, connected, wire, reports>>

OpenDone ==
    /\ npc = "opening"
    /\ connected' = TRUE /\ npc' = "sending"
    /\ UNCHANGED <<now, proto, last_attempt, cur, off, wire, starts, reports>>

OpenFails ==
    /\ npc = "opening"
    /\ npc' = "idle" /\ Report
    /\ UNCHANGED <<now, proto, connected, last_attempt, cur, off, wire, starts>>

WriteConnected ==
    /\ NextLine /\ connected
    /\ npc' = "sending"
    /\ UNCHANGED <<now, proto, connected, last_attempt, wire, starts, reports>>

\* send() takes a part of the line; the write returns after the last one.
LastPart_Late == off = Chunks    \* (mutant) off <= size
LastPart == off + 1 = Chunks
SendPart ==
    /\ npc = "sending" /\ proto = "TCP"
    /\ off' = off + 1
    /\ wire' = Append(wire, [conn |-> Len(starts), line |-> cur, piece |-> off + 1])
    /\ npc' = IF LastPart THEN "idle" ELSE "sending"
    /\ UNCHANGED <<now, proto, connected, last_attempt, cur, starts, reports>>

SendFails ==
    /\ npc = "sending" /\ proto = "TCP"
    /\ Disconnect /\ Report
    /\ UNCHANGED <<now, proto, cur, off, wire, starts>>

\* A datagram goes out, or its failure closes the socket without a report.
SendDatagram ==
    /\ npc = "sending" /\ proto = "UDP"
    /\ npc' = "idle"
    /\ UNCHANGED <<now, proto, connected, last_attempt, cur, off, wire, starts, reports>>

DatagramFails ==
    /\ npc = "sending" /\ proto = "UDP"
    /\ Disconnect
    /\ UNCHANGED <<now, proto, cur, off, wire, starts, reports>>

\* net_close, under sink_lock like the writes.
NetClose ==
    /\ npc = "idle"
    /\ connected' = FALSE /\ npc' = "closed"
    /\ UNCHANGED <<now, proto, last_attempt, cur, off, wire, starts, reports>>

Tick ==
    /\ now < MaxNow
    /\ now' = now + 1
    /\ UNCHANGED <<proto, connected, last_attempt, npc, cur, off, wire, starts, reports>>

NetNext == \/ WriteDropped \/ WriteAttempt \/ OpenDone \/ OpenFails
           \/ WriteConnected \/ SendPart \/ SendFails
           \/ SendDatagram \/ DatagramFails \/ NetClose \/ Tick

NetSpec == NetInit /\ [][NetNext]_netVars

-----------------------------------------------------------------------------
(***************************************************************************)
(* Properties.                                                             *)
(***************************************************************************)

\* The collector can split what it receives on one connection into lines: a
\* connection starts with the start of a line, and a line is followed by
\* another one only when it was sent to its end.  A line cut by a failed send
\* is the last of its connection, and no line is sent again.
Continues(a, b) == a.line = b.line /\ b.piece = a.piece + 1
Follows(a, b)   == a.line < b.line /\ b.piece = 1
WholeLines ==
    \A i \in DOMAIN wire :
       LET b == wire[i] IN
       IF i > 1 /\ wire[i - 1].conn = b.conn
       THEN LET a == wire[i - 1]
            IN Continues(a, b) \/ (a.piece = Chunks /\ Follows(a, b))
       ELSE b.piece = 1 /\ (i > 1 => wire[i - 1].line < b.line)

\* "Drops are reported through the error handler at most once per retry
\* window" (net.c:17): attempts to connect start at least RetrySecs apart, and
\* each of them leads to at most one report, its own or that of the send that
\* ends its connection.
OneReportPerWindow ==
    /\ \A i \in 2..Len(starts) : starts[i] - starts[i - 1] >= RetrySecs
    /\ reports <= Len(starts)
    /\ connected \/ npc = "opening" => reports < Len(starts)
=============================================================================
