----------------------------- MODULE SignalPipe -----------------------------
(***************************************************************************)
(* The main loop with its signals as signalpipe.c handles them.  A signal  *)
(* sent to the process is pending until the kernel starts sig_handler on   *)
(* the stack of whatever runs, main or a handler of another signal; only   *)
(* the same signal is held back until its handler ends (signal() installs  *)
(* handlers with the BSD semantics).  The handler sends the signal into    *)
(* the socket pair without waiting, and ends.                              *)
(*                                                                         *)
(* When the send fails the handler does no more than that: the DEBUG it    *)
(* calls is empty in signalpipe.c, which takes it from common.h without    *)
(* SDHCP_DEBUG.  One send is one step: the socket pair takes an int as a   *)
(* whole or not.                                                           *)
(***************************************************************************)
EXTENDS MainLoop

CONSTANT Raised     \* signals that others send to the process

ASSUME RaisedAssumption == Raised \subseteq Signal

VARIABLES
    pending,        \* signals sent to the process and not yet handled
    handlers,       \* signals whose handlers are on the stack, the running first
    term_lost       \* history: a full socket pair made send drop a SIGTERM

pipevars == <<pending, handlers, term_lost>>
allvars == <<loopvars, pipevars>>

PipeTypeOK ==
    /\ LoopTypeOK
    /\ pending \subseteq Signal
    /\ handlers \in Seq(Signal)
    /\ term_lost \in BOOLEAN

PipeInit ==
    /\ LoopInit
    /\ pending = {} /\ handlers = <<>>
    /\ term_lost = FALSE

OnStack(s) == \E i \in 1..Len(handlers) : handlers[i] = s

-----------------------------------------------------------------------------
(* The kernel.                                                             *)

\* kill: a signal that is pending already is not counted twice.
Raise(s) ==
    /\ phase # "exited"
    /\ pending' = pending \cup {s}
    /\ UNCHANGED <<loopvars, handlers, term_lost>>

\* The handler of s starts between two instructions of main or of another
\* handler.
Catch(s) ==
    /\ phase # "exited"
    /\ s \in pending /\ ~OnStack(s)
    /\ pending' = pending \ {s}
    /\ handlers' = <<s>> \o handlers
    /\ UNCHANGED <<loopvars, term_lost>>

\* The same while main sleeps in select: with nothing to read select is to
\* return -1, and the handler runs before it does.
Wake(s) ==
    /\ phase = "select" /\ handlers = <<>>
    /\ sigq = <<>> /\ rxq = <<>>
    /\ s \in pending
    /\ pending' = pending \ {s}
    /\ handlers' = <<s>>
    /\ phase' = "signal"
    /\ UNCHANGED <<sigq, rxq, sig_ready, udp_ready, udp_fd, udp_port, term_lost>>

-----------------------------------------------------------------------------
(* sig_handler.                                                            *)

Running(s) == phase # "exited" /\ handlers # <<>> /\ Head(handlers) = s

\* The handler ends, and what it interrupted goes on.
Return == handlers' = Tail(handlers)

Send(s) ==
    /\ Running(s) /\ Len(sigq) < SigRoom
    /\ sigq' = Append(sigq, s)
    /\ Return
    /\ UNCHANGED <<phase, rxq, sig_ready, udp_ready, udp_fd, udp_port, pending, term_lost>>

\* Slip: room made by taking out the oldest signal.
SendFailsMakesRoom(s) ==
    /\ Running(s) /\ Len(sigq) = SigRoom
    /\ sigq' = Append(Tail(sigq), s)
    /\ term_lost' = (term_lost \/ Head(sigq) = "SIGTERM")
    /\ Return
    /\ UNCHANGED <<phase, rxq, sig_ready, udp_ready, udp_fd, udp_port, pending>>

\* Slip: a send that waits for room.
SendFailsWaits(s) ==
    /\ Running(s) /\ Len(sigq) = SigRoom
    /\ UNCHANGED allvars

\* The socket pair is full: the signal is lost, and the message about it with
\* it.
SendFails(s) ==
    /\ Running(s) /\ Len(sigq) = SigRoom
    /\ term_lost' = (term_lost \/ s = "SIGTERM")
    /\ Return
    /\ UNCHANGED <<loopvars, pending>>

HandlerStep(s) == Send(s) \/ SendFails(s)

-----------------------------------------------------------------------------

\* main runs when no handler does, and sleeps in select to the end of the
\* second only if no signal comes.
Resumed ==
    /\ handlers = <<>>
    /\ phase = "select" /\ phase' = "sweep" => pending = {}
    /\ UNCHANGED pipevars

SignalStep(s) == Raise(s) \/ Catch(s) \/ Wake(s) \/ HandlerStep(s)

PipeNext ==
    \/ Main /\ Resumed
    \/ \E s \in Raised : SignalStep(s)
    \/ (\E d \in Datagram : Arrive(d)) /\ UNCHANGED pipevars

PipeSpec == PipeInit /\ [][PipeNext]_allvars

-----------------------------------------------------------------------------
(* Properties.                                                             *)

\* When main comes to sig_read the socket pair holds a signal, although
\* select may have returned before any handler had sent one.
ReadFindsSignal == phase = "signal" /\ handlers = <<>> => sigq # <<>>

\* A SIGTERM on its way to main: pending, in a handler that has still to send
\* it, or in the socket pair.
TermUnderway ==
    \/ "SIGTERM" \in pending
    \/ \E i \in 1..Len(handlers) : handlers[i] = "SIGTERM"
    \/ \E i \in 1..Len(sigq) : sigq[i] = "SIGTERM"

\* A SIGTERM that was raised is never forgotten, however handlers overtake one
\* another and whatever else main reads first: it stays underway until main has
\* read it and exits, or a full socket pair makes send drop it.
TermKept ==
    [][TermUnderway => TermUnderway' \/ phase' = "exited" \/ term_lost']_allvars

\* For the loop select has returned when the first signal is in the socket
\* pair.
LoopPhase == IF phase = "signal" /\ sigq = <<>> THEN "select" ELSE phase

Loop == INSTANCE MainLoop WITH phase <- LoopPhase

\* Handlers that take time, interrupt each other and send out of order are to
\* main what signals delivered in one step are.
ImplementsLoop == Loop!LoopSpec
=============================================================================
