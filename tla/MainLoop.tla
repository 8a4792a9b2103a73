------------------------------ MODULE MainLoop ------------------------------
(***************************************************************************)
(* The loop that the mains of the server (svdhcpd.c) and of the client     *)
(* (svdhcp.c) have in common: start-up, restoring a lost UDP socket,       *)
(* select with a one second timeout on the signal socket pair and the UDP  *)
(* socket, at most one signal and one packet per pass, and a timeout check *)
(* at the end of every pass.  Signals and datagrams are the environment.   *)
(*                                                                         *)
(* Server and Client conjoin these steps with what they do to their own    *)
(* lists.  Alone, with any answer to a packet and any number of steps in a *)
(* lookup or a timeout check (Main), the loop is the abstract specification *)
(* that both implement.  A signal handler is one step here; SignalPipe has *)
(* handlers that take time and interrupt each other, and implements this.  *)
(***************************************************************************)
EXTENDS WirePacket, Sequences

CONSTANTS
    Datagram,       \* packets a peer may send, [sz, type, xid, keys]
    SigRoom,        \* signals the socket pair holds before send fails
    RxRoom          \* bound: datagrams waiting in the UDP socket

Signal == {"SIGUSR1", "SIGUSR2", "SIGTERM"}

ASSUME LoopAssumption ==
    /\ XID_MOD \in Nat \ {0}
    /\ Datagram \subseteq [sz : Nat, type : Int, xid : 0..XID_MOD-1, keys : Keys]
    /\ SigRoom \in Nat \ {0}
    /\ RxRoom \in Nat

VARIABLES
    phase,          \* where main is in its loop
    sigq,           \* signals in the socket pair, oldest first
    rxq,            \* datagrams waiting in the UDP socket
    sig_ready,      \* FD_ISSET(sig_sockfd, &rfds)
    udp_ready,      \* FD_ISSET(udp_rx.sockfd, &rfds)
    udp_fd,         \* udp_rx.sockfd: open, or closed when negative
    udp_port        \* local port of that socket: none, or any (port 0)

loopvars == <<phase, sigq, rxq, sig_ready, udp_ready, udp_fd, udp_port>>

\* In "keys" main is in packet_get for good.
Phase == {"start", "loop", "select", "signal", "udp", "keys", "lookup", "sweep",
          "sweeping", "exited"}

LoopTypeOK ==
    /\ phase \in Phase
    /\ sigq \in Seq(Signal) /\ Len(sigq) <= SigRoom
    /\ rxq \in Seq(Datagram) /\ Len(rxq) <= RxRoom
    /\ sig_ready \in BOOLEAN /\ udp_ready \in BOOLEAN
    /\ udp_fd \in {"open", "closed"}
    /\ udp_port \in {"none", "any"}

LoopInit ==
    /\ phase = "start"
    /\ sigq = <<>> /\ rxq = <<>>
    /\ sig_ready = FALSE /\ udp_ready = FALSE
    /\ udp_fd = "closed" /\ udp_port = "none"

-----------------------------------------------------------------------------
(* main.                                                                   *)

\* Start-up, after sig_setup.  config_load_server, config_load_client and
\* init_udp_socket return no value and main tests one all the same, so either
\* test may end the program, and it may go on without a socket; a raw socket
\* that cannot be opened ends it.  Nothing here binds the socket.
Start ==
    /\ phase = "start"
    /\ \/ phase' = "exited" /\ UNCHANGED udp_fd
       \/ phase' = "loop" /\ udp_fd' \in {"open", "closed"}
    /\ UNCHANGED <<sigq, rxq, sig_ready, udp_ready, udp_port>>

\* One turn of the "udp socket lost" loop.  The undefined result of
\* init_udp_socket decides whether bind_udp_socket is called; it binds the
\* address whose port was zeroed, and its own result is ignored.
RestoreUdp ==
    /\ phase = "loop" /\ udp_fd = "closed"
    /\ udp_fd' \in {"open", "closed"}
    /\ udp_port' \in IF udp_fd' = "open" THEN {"none", "any"} ELSE {"none"}
    /\ UNCHANGED <<phase, sigq, rxq, sig_ready, udp_ready>>

\* Both descriptors go into rfds before the call.
EnterSelect ==
    /\ phase = "loop" /\ udp_fd = "open"
    /\ phase' = "select"
    /\ sig_ready' = TRUE /\ udp_ready' = TRUE
    /\ UNCHANGED <<sigq, rxq, udp_fd, udp_port>>

\* One second without a signal or a packet: retval is 0.
SelectTimeout ==
    /\ phase = "select"
    /\ sigq = <<>> /\ rxq = <<>>
    /\ sig_ready' = FALSE /\ udp_ready' = FALSE
    /\ phase' = "sweep"
    /\ UNCHANGED <<sigq, rxq, udp_fd, udp_port>>

\* Slip: a packet taken first, the signal with an else.
SelectReadyPacketFirst ==
    /\ phase = "select"
    /\ sigq # <<>> \/ rxq # <<>>
    /\ sig_ready' = (sigq # <<>>) /\ udp_ready' = (rxq # <<>>)
    /\ phase' = IF udp_ready' THEN "udp" ELSE "signal"
    /\ UNCHANGED <<sigq, rxq, udp_fd, udp_port>>

SelectReady ==
    /\ phase = "select"
    /\ sigq # <<>> \/ rxq # <<>>
    /\ sig_ready' = (sigq # <<>>) /\ udp_ready' = (rxq # <<>>)
    /\ phase' = IF sig_ready' THEN "signal" ELSE "udp"
    /\ UNCHANGED <<sigq, rxq, udp_fd, udp_port>>

\* Slip: the packet only if there is no signal.
ReadSignalElse ==
    /\ phase = "signal" /\ sigq # <<>>
    /\ sigq' = Tail(sigq)
    /\ phase' = IF Head(sigq) = "SIGTERM" THEN "exited" ELSE "sweep"
    /\ UNCHANGED <<rxq, sig_ready, udp_ready, udp_fd, udp_port>>

\* Slip: signals read until there are none.
ReadSignalDrain ==
    /\ phase = "signal" /\ sigq # <<>>
    /\ sigq' = Tail(sigq)
    /\ phase' = IF Head(sigq) = "SIGTERM" THEN "exited" ELSE "signal"
    /\ UNCHANGED <<rxq, sig_ready, udp_ready, udp_fd, udp_port>>

\* Slip: all that is there read at once, and the last of it returned.
ReadSignalLast ==
    /\ phase = "signal" /\ sigq # <<>>
    /\ sigq' = <<>>
    /\ phase' = IF sigq[Len(sigq)] = "SIGTERM" THEN "exited"
                ELSE IF udp_ready THEN "udp" ELSE "sweep"
    /\ UNCHANGED <<rxq, sig_ready, udp_ready, udp_fd, udp_port>>

\* sig_read: a blocking read of one signal.  SIGTERM ends the program.
ReadSignal ==
    /\ phase = "signal" /\ sigq # <<>>
    /\ sigq' = Tail(sigq)
    /\ phase' = IF Head(sigq) = "SIGTERM" THEN "exited"
                ELSE IF udp_ready THEN "udp" ELSE "sweep"
    /\ UNCHANGED <<rxq, sig_ready, udp_ready, udp_fd, udp_port>>

\* recv_udp_socket does not wait: with nothing to read sz is -1, and main
\* hands the packet on without looking at the result.
Received ==
    IF rxq = <<>> THEN [sz |-> -1, type |-> 0, xid |-> 0, keys |-> "sound"] ELSE Head(rxq)

Receive ==
    /\ phase = "udp"
    /\ rxq' = IF rxq = <<>> THEN rxq ELSE Tail(rxq)
    /\ UNCHANGED <<sigq, sig_ready, udp_ready, udp_fd, udp_port>>

Stay == UNCHANGED <<sigq, rxq, sig_ready, udp_ready, udp_fd, udp_port>>

\* The packet is done with, its id is to be looked up, or packet_get does not
\* come back from its keys.
HandlePacket == Receive /\ phase' \in {"lookup", "sweep", "keys"}
LookupStep   == phase = "lookup" /\ phase' \in {"lookup", "sweep"} /\ Stay
TimeoutStep  == phase \in {"sweep", "sweeping"} /\ phase' \in {"sweeping", "loop"} /\ Stay

Control ==
    Start \/ RestoreUdp \/ EnterSelect \/ SelectTimeout \/ SelectReady \/ ReadSignal

Main == Control \/ HandlePacket \/ LookupStep \/ TimeoutStep

-----------------------------------------------------------------------------
(* The environment.                                                        *)

\* sig_handler between two instructions of main.  The send does not wait:
\* with the socket pair full the signal is lost.
Deliver(s) ==
    /\ phase # "exited"
    /\ sigq' = IF Len(sigq) < SigRoom THEN Append(sigq, s) ELSE sigq
    /\ UNCHANGED <<phase, rxq, sig_ready, udp_ready, udp_fd, udp_port>>

\* sig_handler while select sleeps: select returns -1 and leaves rfds as main
\* filled it, with both descriptors set.  A packet may have come since.
Interrupt(s) ==
    /\ phase = "select" /\ sigq = <<>>
    /\ sigq' = <<s>>
    /\ phase' = "signal"
    /\ UNCHANGED <<rxq, sig_ready, udp_ready, udp_fd, udp_port>>

\* A datagram reaches a socket that has a port.
Arrive(d) ==
    /\ phase # "exited"
    /\ udp_fd = "open" /\ udp_port # "none"
    /\ Len(rxq) < RxRoom
    /\ rxq' = Append(rxq, d)
    /\ UNCHANGED <<phase, sigq, sig_ready, udp_ready, udp_fd, udp_port>>

LoopNext ==
    \/ Main
    \/ \E s \in Signal : Deliver(s) \/ Interrupt(s)
    \/ \E d \in Datagram : Arrive(d)

LoopSpec == LoopInit /\ [][LoopNext]_loopvars

-----------------------------------------------------------------------------
(* Properties.                                                             *)

\* main stays in packet_get: it takes no signal and no packet any more.
KeysEndless == phase = "keys"

\* sig_read blocks on an empty socket pair, but main calls it only with a
\* signal there to read, the interrupted select included.
SigReadNeverBlocks == phase = "signal" => sigq # <<>>
=============================================================================
