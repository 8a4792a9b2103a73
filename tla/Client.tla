------------------------------- MODULE Client -------------------------------
(***************************************************************************)
(* The client program (svdhcp.c): the main loop, its signals, and the list *)
(* of servers that have answered.  reply_to_server puts a server on the    *)
(* front of the list when its PACKET_2 comes (new_server of protocol.c),   *)
(* and looks every other packet up by its id only to refuse it: the later  *)
(* steps of the handshake are commented out.  Servers are never removed,   *)
(* timeout_check_server does nothing.                                      *)
(*                                                                         *)
(* Only the ids of the servers and their order tell anything apart, so the *)
(* list is the sequence of the ids, and a pointer into it a position, 0    *)
(* for NULL.  new_server ends in three calls of packet_get, which may not   *)
(* come back (phase "keys") or use memory that is not theirs (fault        *)
(* "keys").                                                                *)
(***************************************************************************)
EXTENDS SignalPipe

CONSTANT MaxServers \* bound: servers in the list

ASSUME ServersAssumption == MaxServers \in Nat

VARIABLES
    list_server,    \* ids of the servers that answered, newest first
    server,         \* the cursor of the lookup
    id,             \* the id looked up
    fault,          \* first invalid use of memory: nomem, nolist or keys
    heard           \* history: id bytes of the PACKET_2s in the list

listvars == <<list_server, server, id, fault, heard>>
cvars == <<allvars, listvars>>

ClientTypeOK ==
    /\ PipeTypeOK
    /\ list_server \in Seq(Int)
    /\ server \in 0..Len(list_server)
    /\ id \in Int
    /\ fault \in {"none", "nomem", "nolist", "keys"}
    /\ heard \subseteq 0..XID_MOD-1

ClientInit ==
    /\ PipeInit
    /\ list_server = <<>> /\ server = 0 /\ id = 0
    /\ fault = "none" /\ heard = {}

-----------------------------------------------------------------------------
(* main.                                                                   *)

Turn == Control /\ UNCHANGED listvars

\* reply_to_server on a packet whose type reads as -1.
ReplyMalformed ==
    /\ Receive
    /\ PacketType(Received) = -1
    /\ phase' = "sweep"
    /\ UNCHANGED listvars

\* The calls of packet_get at the end of new_server, on a packet whose keys
\* are k: they return, they never do, or they use memory that is not theirs.
KeysRead(k) ==
    \/ k # "endless" /\ phase' = "sweep" /\ UNCHANGED fault
    \/ k # "sound"   /\ phase' = "keys"  /\ UNCHANGED fault
    \/ k = "wild"    /\ phase' = "sweep" /\ fault' = "keys"

\* Slip: the id is kept as the byte it came in.
NewServerByte ==
    /\ list_server' = <<Received.xid>> \o list_server
    /\ heard' = heard \cup {Received.xid}
    /\ KeysRead(Received.keys)

\* The link to the rest of the list, the new head, and new_server, which
\* reads the id and then the keys; the value it does not return is only
\* returned.
NewServer ==
    /\ list_server' = <<PacketXid(Received)>> \o list_server
    /\ heard' = heard \cup {Received.xid}
    /\ KeysRead(Received.keys)

\* malloc returned NULL, through which next_server is written.
OutOfMemory ==
    /\ phase' = "sweep" /\ fault' = "nomem"
    /\ UNCHANGED <<list_server, heard>>

\* reply_to_server on a PACKET_2.
ReplySecond ==
    /\ Receive
    /\ PacketType(Received) = PACKET_2
    /\ NewServer \/ OutOfMemory
    /\ UNCHANGED <<server, id>>

\* Slip: the head of the list taken for a dummy.
ReplyOtherSecond ==
    /\ Receive
    /\ PacketType(Received) \notin {-1, PACKET_2}
    /\ phase' = "lookup"
    /\ id' = PacketXid(Received)
    /\ server' = IF Len(list_server) < 2 THEN Len(list_server) ELSE 2
    /\ UNCHANGED <<list_server, fault, heard>>

\* reply_to_server on anything else, a packet that was too short included.
ReplyOther ==
    /\ Receive
    /\ PacketType(Received) \notin {-1, PACKET_2}
    /\ phase' = "lookup"
    /\ id' = PacketXid(Received)
    /\ server' = IF list_server = <<>> THEN 0 ELSE 1
    /\ UNCHANGED <<list_server, fault, heard>>

\* The list is empty, and server->xid is read all the same.
LookupNull ==
    /\ LookupStep /\ server = 0
    /\ phase' = "lookup"
    /\ fault' = "nolist"
    /\ UNCHANGED <<list_server, server, id, heard>>

\* expected_packet was never assigned; whether it is the type of the packet
\* or not, the packet is refused.
LookupHit ==
    /\ LookupStep /\ server > 0 /\ list_server[server] = id
    /\ phase' = "sweep" /\ server' = 0 /\ id' = 0
    /\ UNCHANGED <<list_server, fault, heard>>

\* Slip: the next server without a test for the end of the list.
LookupAdvanceUnchecked ==
    /\ LookupStep /\ server > 0 /\ list_server[server] # id
    /\ phase' = "lookup" /\ server' = server + 1
    /\ UNCHANGED <<list_server, id, fault, heard>>

\* Slip: the next server taken from the last one, too.
LookupAdvanceToNull ==
    /\ LookupStep /\ server > 0 /\ list_server[server] # id
    /\ phase' = "lookup" /\ server' = IF server < Len(list_server) THEN server + 1 ELSE 0
    /\ UNCHANGED <<list_server, id, fault, heard>>

LookupAdvance ==
    /\ LookupStep /\ server > 0 /\ list_server[server] # id
    /\ server < Len(list_server)
    /\ phase' = "lookup" /\ server' = server + 1
    /\ UNCHANGED <<list_server, id, fault, heard>>

\* "Packet id not found".
LookupMiss ==
    /\ LookupStep /\ server > 0 /\ list_server[server] # id
    /\ server = Len(list_server)
    /\ phase' = "sweep" /\ server' = 0 /\ id' = 0
    /\ UNCHANGED <<list_server, fault, heard>>

Lookup == LookupNull \/ LookupHit \/ LookupAdvance \/ LookupMiss

\* timeout_check_server.
Timeouts == TimeoutStep /\ phase' = "loop" /\ UNCHANGED listvars

Program ==
    /\ fault = "none"
    /\ Turn \/ ReplyMalformed \/ ReplySecond \/ ReplyOther \/ Lookup \/ Timeouts
    /\ Resumed

-----------------------------------------------------------------------------
(* The environment.                                                        *)

Signalled(s) == fault = "none" /\ SignalStep(s) /\ UNCHANGED listvars

IsSecond(p) == PacketType(p) = PACKET_2

\* Servers stop answering when the list has MaxServers.
Packet ==
    /\ fault = "none"
    /\ \E d \in Datagram :
          /\ IsSecond(d) =>
                Len(list_server) + Len(SelectSeq(rxq, IsSecond)) < MaxServers
          /\ Arrive(d)
    /\ UNCHANGED <<pipevars, listvars>>

ClientNext == Program \/ (\E s \in Raised : Signalled(s)) \/ Packet

ClientSpec == ClientInit /\ [][ClientNext]_cvars

\* main and each handler get to run again and again between the signals that
\* interrupt them, and the kernel does not leave a signal pending for ever.
Fairness ==
    /\ SF_cvars(Program)
    /\ \A s \in Raised :
          /\ WF_cvars(fault = "none" /\ (Catch(s) \/ Wake(s)) /\ UNCHANGED listvars)
          /\ SF_cvars(fault = "none" /\ HandlerStep(s) /\ UNCHANGED listvars)

FairClientSpec == ClientSpec /\ Fairness

-----------------------------------------------------------------------------
(* Properties.                                                             *)

\* What the client does to its list leaves the loop and the signals as
\* SignalPipe has them, and hence as MainLoop has them.
UsesPipe == PipeSpec

\* svdhcp.c:162, "Looking for client id in list": the lookup of a packet does
\* not give up when a PACKET_2 with that id byte has been handled, in either
\* half of the range of a byte.
KnownServerFound ==
    [][phase = "lookup" /\ phase' = "sweep" /\ list_server[server] # id
           => \A b \in heard : AsChar(b) # id]_cvars

\* A PACKET_2 that comes twice, or servers that chose the same id, leave several
\* entries with one id: a lookup takes the one that came last, so that an older
\* entry is never used again.
NewestAnswerFound ==
    [][phase = "lookup" /\ phase' = "sweep" /\ list_server[server] = id
           => \A i \in 1..Len(list_server) : list_server[i] = id => server <= i]_cvars

\* svdhcp.c:165 reads server->xid before it tests for NULL.  Once a server has
\* answered that does no harm, whatever packets or interrupted selects follow.
AnsweredSafely == heard # {} => fault # "nolist"

\* The three ends a lookup may come to: without a match, on one, and through
\* NULL, the last not after an answer.
ServerLookupExact == KnownServerFound /\ NewestAnswerFound /\ [][AnsweredSafely']_cvars

Stopped == fault # "none" \/ phase = "exited"

\* A SIGTERM sent to a client that has its socket ends it, unless a full
\* socket pair made the handler drop it, or packet_get never gets through the
\* options of a PACKET_2 that came before.
TermEnds ==
    (udp_fd = "open" /\ "SIGTERM" \in pending)
        ~> (Stopped \/ term_lost \/ KeysEndless)

\* No stream of signals keeps the client from reading its socket; only
\* packet_get does.
PacketRead == rxq # <<>> ~> (rxq = <<>> \/ Stopped \/ KeysEndless)
=============================================================================
