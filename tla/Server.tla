------------------------------- MODULE Server -------------------------------
(***************************************************************************)
(* The server daemon (svdhcpd.c): the main loop around the list of login   *)
(* sessions.  A packet is handled by reply_to_client, and every pass ends  *)
(* with a sweep of overdue sessions.  The clock joins signals and          *)
(* datagrams in the environment.                                           *)
(*                                                                         *)
(* The loop is MainLoop and the list is ClientList: every step here is a   *)
(* step of each of them or leaves it alone.  fault is that of the list; a  *)
(* daemon that met one takes no further step.                              *)
(***************************************************************************)
EXTENDS ClientList, MainLoop

ASSUME WireAssumption ==
    /\ \A x \in 0..XID_MOD-1 : AsChar(x) \in WireId
    /\ -ERR_WRONG_PACKET \in WireId

svars == <<vars, loopvars>>

ServerInit == Init /\ LoopInit

-----------------------------------------------------------------------------
(* The daemon.                                                             *)

\* Start-up, the sockets, select and the signals: nothing of the list.
Turn == fault = "none" /\ Control /\ UNCHANGED vars

\* reply_to_client on a packet whose type reads as -1.
ReplyMalformed ==
    /\ fault = "none" /\ Receive
    /\ PacketType(Received) = -1
    /\ phase' = "sweep"
    /\ UNCHANGED vars

\* reply_to_client on a first packet.
ReplyFirst ==
    /\ fault = "none" /\ Receive
    /\ PacketType(Received) = PACKET_1
    /\ (\E c \in Cell : Register(c, Received.keys)) \/ OutOfMemory
    /\ phase' = IF pc' = "keys" THEN "keys" ELSE "sweep"

\* reply_to_client on anything else, a packet that was too short included.
ReplyOther ==
    /\ fault = "none" /\ Receive
    /\ PacketType(Received) \notin {-1, PACKET_1}
    /\ phase' = "lookup"
    /\ BeginLookup(PacketXid(Received))

Lookup ==
    /\ fault = "none" /\ LookupStep
    /\ LookupHit \/ LookupAdvance \/ LookupMiss \/ RejectMatched \/ BadCursor
    /\ phase' = IF pc' = "idle" THEN "sweep" ELSE "lookup"

Sweep ==
    /\ fault = "none" /\ TimeoutStep
    /\ \/ phase = "sweep" /\ BeginSweep
       \/ phase = "sweeping" /\ (SweepStep \/ BadCursor)
    /\ phase' = IF pc' = "idle" THEN "loop" ELSE "sweeping"

Daemon == Turn \/ ReplyMalformed \/ ReplyFirst \/ ReplyOther \/ Lookup \/ Sweep

-----------------------------------------------------------------------------
(* The environment.                                                        *)

Alive == fault = "none" /\ phase # "exited"

Signalled ==
    /\ Alive
    /\ \E s \in Signal : Deliver(s) \/ Interrupt(s)
    /\ UNCHANGED vars

IsFirst(p) == PacketType(p) = PACKET_1

\* First packets stop coming when they have used up MaxClients.
Packet ==
    /\ Alive
    /\ \E d \in Datagram :
          /\ IsFirst(d) => served + Len(SelectSeq(rxq, IsFirst)) < MaxClients
          /\ Arrive(d)
    /\ UNCHANGED vars

Clock == Alive /\ Tick /\ UNCHANGED loopvars

Environment == Signalled \/ Packet \/ Clock

ServerNext == Daemon \/ Environment

ServerSpec == ServerInit /\ [][ServerNext]_svars

\* The daemon is one thread that nothing but a blocking call holds up, and
\* select returns within a second.
FairServerSpec == ServerSpec /\ WF_svars(Daemon)

-----------------------------------------------------------------------------
(* Properties.                                                             *)

Stopped == fault # "none" \/ phase = "exited"

\* main uses the list as ClientList allows: one operation at a time, each
\* run to its end before the next.
UsesListSafely == Spec

\* The daemon is one instance of the loop the two programs share: whatever it
\* does to its list, main goes through select, signals, packets and sweeps as
\* MainLoop has it.
UsesLoop == LoopSpec

\* A SIGTERM that reached the socket pair ends the daemon, whatever packets
\* and signals keep arriving, once the UDP socket is open, unless a packet
\* comes first whose options packet_get never gets through.
TermHonoured ==
    (udp_fd = "open" /\ \E i \in 1..Len(sigq) : sigq[i] = "SIGTERM")
        ~> (Stopped \/ KeysEndless)

\* No stream of signals keeps the daemon from reading the UDP socket; only
\* packet_get does.
PacketServed == rxq # <<>> ~> (rxq = <<>> \/ Stopped \/ KeysEndless)

\* A session that is overdue and not the last of the list is freed, unless
\* packet_get does not come back from the packet of some other session.
OverdueRemoved ==
    \A c \in Cell :
        (udp_fd = "open" /\ c \in allocated /\ Overdue(c) /\ next_client[c] # NULL)
            ~> (c \notin allocated \/ Stopped \/ KeysEndless)

\* In a layout where the copy into macaddress reaches next_client, the first
\* client is the last: if its packet_get returns, the sweep that follows its
\* registration runs into the overwritten link; no second session is opened.
OverrunServesOne == Overrun => served <= 1

\* svdhcpd.c:116-121: a signal other than SIGTERM is logged, and that is all.
\* A daemon no packet ever reaches does not die of its signals.
SignalsHarmless == Datagram = {} => fault \in {"none", "nomem"}

\* svdhcpd.c:165, "Looking for client id in list": the lookup for a packet
\* whose xid byte is that of a live session does not give up.
PeerFoundById ==
    [][pc = "lookup" /\ pc' = "idle" /\ want # -ERR_WRONG_PACKET
           => \A d \in allocated : AsChar(xid[d]) # want]_svars

\* The same for the ids in the lower half of a byte, which a signed char keeps:
\* the packet of a live session with such an id is never turned away, whatever
\* other sessions were opened and freed since.
LowIdFound ==
    [][pc = "lookup" /\ pc' = "idle" =>
           \A d \in allocated : 2 * xid[d] < XID_MOD => AsChar(xid[d]) # want]_svars
=============================================================================
