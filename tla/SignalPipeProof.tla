-------------------------- MODULE SignalPipeProof --------------------------
(***************************************************************************)
(* Proofs about signal handlers that take time: main finds a signal when   *)
(* it comes to sig_read, a SIGTERM stays underway until main exits or the  *)
(* full socket pair drops it, and for main the handlers are what the       *)
(* one-step signals of MainLoop are.                                       *)
(***************************************************************************)
EXTENDS SignalPipe, MainLoopProof

USE LoopAssumption, RaisedAssumption

-----------------------------------------------------------------------------
(* The inductive invariant.                                                *)

\* Main at sig_read with an empty socket pair has a handler above it that has
\* not sent its signal yet.
HandlerToSend == phase = "signal" => sigq # <<>> \/ handlers # <<>>

PipeInv == PipeTypeOK /\ HandlerToSend

LEMMA PipeInvInit == PipeInit => PipeInv
<1>1. <<>> \in Seq(Signal)
    OBVIOUS
<1>2. QED
    BY <1>1, LoopTypeInit
       DEF PipeInit, PipeInv, PipeTypeOK, HandlerToSend, LoopInit

LEMMA MainKeeps ==
    ASSUME PipeInv, Main, Resumed
    PROVE  PipeInv'
<1>1. LoopTypeOK'
    BY LoopTypeStep DEF LoopNext, PipeInv, PipeTypeOK
<1>2. PipeTypeOK'
    BY <1>1 DEF Resumed, pipevars, PipeInv, PipeTypeOK
<1>3. HandlerToSend'
    BY DEF PipeInv, HandlerToSend, Resumed, Main, Control, Start, RestoreUdp, EnterSelect,
        SelectTimeout, SelectReady, ReadSignal, HandlePacket, LookupStep, TimeoutStep
<1>4. QED
    BY <1>2, <1>3 DEF PipeInv

LEMMA PushFacts ==
    ASSUME NEW s \in Signal, NEW q \in Seq(Signal)
    PROVE  <<s>> \o q \in Seq(Signal) /\ <<s>> \o q # <<>>
OBVIOUS

LEMMA KernelKeeps ==
    ASSUME PipeInv, NEW s \in Raised, Raise(s) \/ Catch(s) \/ Wake(s)
    PROVE  PipeInv'
<1>1. s \in Signal /\ handlers \in Seq(Signal)
    BY DEF PipeInv, PipeTypeOK
<1>2. CASE Raise(s)
    BY <1>1, <1>2 DEF Raise, loopvars, PipeInv, PipeTypeOK, LoopTypeOK, HandlerToSend
<1>3. CASE Catch(s)
    <2>1. handlers' \in Seq(Signal) /\ handlers' # <<>>
        BY <1>1, <1>3, PushFacts DEF Catch
    <2>2. QED
        BY <1>3, <2>1 DEF Catch, loopvars, PipeInv, PipeTypeOK, LoopTypeOK, HandlerToSend
<1>4. CASE Wake(s)
    <2>1. handlers' \in Seq(Signal) /\ handlers' # <<>>
        BY <1>1, <1>4 DEF Wake
    <2>2. LoopTypeOK'
        BY <1>4 DEF Wake, PipeInv, PipeTypeOK, LoopTypeOK, Phase
    <2>3. QED
        BY <1>4, <2>1, <2>2 DEF Wake, PipeInv, PipeTypeOK, HandlerToSend
<1>5. QED
    BY <1>2, <1>3, <1>4

LEMMA HandlerKeeps ==
    ASSUME PipeInv, NEW s \in Raised, HandlerStep(s)
    PROVE  PipeInv'
<1>1. s \in Signal /\ handlers \in Seq(Signal) /\ sigq \in Seq(Signal)
    BY DEF PipeInv, PipeTypeOK, LoopTypeOK
<1>2. handlers # <<>> /\ handlers' = Tail(handlers)
    BY DEF HandlerStep, Send, SendFails, Running, Return
<1>3. handlers' \in Seq(Signal)
    BY <1>1, <1>2, QueueFacts
<1>4. CASE Send(s)
    <2>1. sigq' \in Seq(Signal) /\ sigq' # <<>> /\ Len(sigq') <= SigRoom
        BY <1>1, <1>4, QueueFacts DEF Send
    <2>2. QED
        BY <1>3, <1>4, <2>1 DEF Send, PipeInv, PipeTypeOK, LoopTypeOK, HandlerToSend
<1>5. CASE SendFails(s)
    <2>1. sigq # <<>>
        BY <1>1, <1>5 DEF SendFails
    <2>2. term_lost' \in BOOLEAN
        BY <1>5 DEF SendFails, PipeInv, PipeTypeOK
    <2>3. QED
        BY <1>3, <1>5, <2>1, <2>2 DEF SendFails, loopvars, PipeInv, PipeTypeOK, LoopTypeOK,
            HandlerToSend
<1>6. QED
    BY <1>4, <1>5 DEF HandlerStep

LEMMA PipeInvStep == PipeInv /\ [PipeNext]_allvars => PipeInv'
<1> SUFFICES ASSUME PipeInv, [PipeNext]_allvars PROVE PipeInv'
    OBVIOUS
<1>1. CASE Main /\ Resumed
    BY <1>1, MainKeeps
<1>2. ASSUME NEW s \in Raised, SignalStep(s) PROVE PipeInv'
    BY <1>2, KernelKeeps, HandlerKeeps DEF SignalStep
<1>3. ASSUME NEW d \in Datagram, Arrive(d), UNCHANGED pipevars PROVE PipeInv'
    <2>1. LoopTypeOK'
        BY <1>3, LoopTypeStep DEF LoopNext, PipeInv, PipeTypeOK
    <2>2. QED
        BY <1>3, <2>1 DEF Arrive, pipevars, PipeInv, PipeTypeOK, HandlerToSend
<1>4. CASE UNCHANGED allvars
    BY <1>4 DEF allvars, loopvars, pipevars, PipeInv, PipeTypeOK, LoopTypeOK,
        HandlerToSend
<1>5. QED
    BY <1>1, <1>2, <1>3, <1>4 DEF PipeNext

THEOREM PipeInvariant == PipeSpec => []PipeInv
BY PipeInvInit, PipeInvStep, PTL DEF PipeSpec

\* Main comes to sig_read with a signal to read, whatever handlers interrupted
\* it and each other on the way.
THEOREM ReadFindsSignalHolds == PipeSpec => []ReadFindsSignal
<1>1. PipeInv => ReadFindsSignal
    BY DEF PipeInv, HandlerToSend, ReadFindsSignal
<1>2. QED
    BY <1>1, PipeInvariant, PTL

-----------------------------------------------------------------------------
(* Nothing on its way is forgotten.                                        *)

Holds(q, e) == \E i \in 1..Len(q) : q[i] = e

LEMMA PushHolds ==
    ASSUME NEW S, NEW q \in Seq(S), NEW h \in S, NEW e
    PROVE  Holds(q, e) \/ h = e => Holds(<<h>> \o q, e)
<1>1. Len(<<h>> \o q) = Len(q) + 1 /\ Len(q) \in Nat /\ (<<h>> \o q)[1] = h
    OBVIOUS
<1>2. ASSUME NEW i \in 1..Len(q) PROVE i+1 \in 1..Len(<<h>> \o q) /\ (<<h>> \o q)[i+1] = q[i]
    BY <1>1
<1>3. 1 \in 1..Len(<<h>> \o q)
    BY <1>1
<1>4. QED
    BY <1>1, <1>2, <1>3 DEF Holds

LEMMA PopHolds ==
    ASSUME NEW S, NEW q \in Seq(S), NEW e, Holds(q, e)
    PROVE  q # <<>> /\ (Head(q) = e \/ Holds(Tail(q), e))
<1>1. PICK i \in 1..Len(q) : q[i] = e
    BY DEF Holds
<1>2. q # <<>> /\ Tail(q) \in Seq(S) /\ Len(Tail(q)) = Len(q) - 1 /\ Head(q) = q[1]
    BY <1>1
<1>3. CASE i = 1
    BY <1>1, <1>2, <1>3
<1>4. CASE i # 1
    <2>1. i-1 \in 1..Len(Tail(q)) /\ Tail(q)[i-1] = q[i]
        BY <1>2, <1>4
    <2>2. QED
        BY <1>1, <1>2, <2>1 DEF Holds
<1>5. QED
    BY <1>3, <1>4

LEMMA AppendHolds ==
    ASSUME NEW S, NEW q \in Seq(S), NEW x \in S, NEW e
    PROVE  Holds(q, e) \/ x = e => Holds(Append(q, x), e)
<1>1. Len(Append(q, x)) = Len(q) + 1 /\ Append(q, x)[Len(q)+1] = x /\ Len(q) \in Nat
    OBVIOUS
<1>2. \A i \in 1..Len(q) : i \in 1..Len(Append(q, x)) /\ Append(q, x)[i] = q[i]
    BY <1>1
<1>3. Len(q)+1 \in 1..Len(Append(q, x))
    BY <1>1
<1>4. QED
    BY <1>1, <1>2, <1>3 DEF Holds

LEMMA UnderwayHolds ==
    TermUnderway <=> \/ "SIGTERM" \in pending
                     \/ Holds(handlers, "SIGTERM")
                     \/ Holds(sigq, "SIGTERM")
BY DEF TermUnderway, Holds

\* main takes a SIGTERM out of the socket pair only to exit.
LEMMA MainKeepsTerm ==
    ASSUME LoopTypeOK, Main, Holds(sigq, "SIGTERM")
    PROVE  Holds(sigq', "SIGTERM") \/ phase' = "exited"
<1>1. CASE ReadSignal
    BY <1>1, PopHolds DEF ReadSignal, LoopTypeOK
<1>2. CASE UNCHANGED sigq
    BY <1>2
<1>3. QED
    BY <1>1, <1>2 DEF Main, Control, Start, RestoreUdp, EnterSelect, SelectTimeout,
        SelectReady, HandlePacket, Receive, LookupStep, TimeoutStep, Stay

\* A handler passes its SIGTERM on to the socket pair, or finds that full.
LEMMA HandlerKeepsTerm ==
    ASSUME PipeTypeOK, NEW s \in Raised, HandlerStep(s), TermUnderway
    PROVE  TermUnderway' \/ term_lost'
<1>1. handlers \in Seq(Signal) /\ sigq \in Seq(Signal) /\ s \in Signal
    BY DEF PipeTypeOK, LoopTypeOK
<1>2. /\ Head(handlers) = s /\ handlers' = Tail(handlers) /\ pending' = pending
      /\ \/ sigq' = Append(sigq, s)
         \/ sigq' = sigq /\ term_lost' = (term_lost \/ s = "SIGTERM")
    BY DEF HandlerStep, Send, SendFails, Running, Return, loopvars
<1>3. CASE "SIGTERM" \in pending
    BY <1>2, <1>3 DEF TermUnderway
<1>4. CASE Holds(handlers, "SIGTERM")
    <2>1. Holds(Tail(handlers), "SIGTERM") \/ s = "SIGTERM"
        BY <1>1, <1>2, <1>4, PopHolds
    <2>2. CASE Holds(Tail(handlers), "SIGTERM")
        BY <1>2, <2>2 DEF Holds, TermUnderway
    <2>3. CASE s = "SIGTERM" /\ sigq' = Append(sigq, s)
        <3>1. Holds(sigq', "SIGTERM")
            BY <1>1, <2>3, AppendHolds
        <3>2. QED
            BY <3>1 DEF Holds, TermUnderway
    <2>4. QED
        BY <1>2, <2>1, <2>2, <2>3
<1>5. CASE Holds(sigq, "SIGTERM")
    <2>1. Holds(Append(sigq, s), "SIGTERM")
        BY <1>1, <1>5, AppendHolds
    <2>2. Holds(sigq', "SIGTERM")
        BY <1>2, <1>5, <2>1
    <2>3. QED
        BY <2>2 DEF Holds, TermUnderway
<1>6. QED
    BY <1>3, <1>4, <1>5, UnderwayHolds

\* The kernel moves a SIGTERM from pending to the stack.
LEMMA KernelKeepsTerm ==
    ASSUME PipeTypeOK, NEW s \in Raised, Raise(s) \/ Catch(s) \/ Wake(s), TermUnderway
    PROVE  TermUnderway'
<1>1. handlers \in Seq(Signal) /\ s \in Signal
    BY DEF PipeTypeOK
<1>2. CASE Raise(s)
    BY <1>2 DEF Raise, loopvars, TermUnderway
<1>3. CASE Catch(s) \/ Wake(s)
    <2>1. handlers' = <<s>> \o handlers /\ pending' = pending \ {s} /\ sigq' = sigq
        <3>1. <<s>> \o <<>> = <<s>>
            BY <1>1
        <3>2. QED
            BY <1>3, <3>1 DEF Catch, Wake, loopvars
    <2>2. CASE Holds(sigq, "SIGTERM")
        BY <2>1, <2>2 DEF Holds, TermUnderway
    <2>3. CASE "SIGTERM" \in pending /\ s # "SIGTERM"
        BY <2>1, <2>3 DEF TermUnderway
    <2>4. CASE Holds(handlers, "SIGTERM") \/ s = "SIGTERM"
        <3>1. Holds(handlers', "SIGTERM")
            BY <1>1, <2>1, <2>4, PushHolds
        <3>2. QED
            BY <3>1 DEF Holds, TermUnderway
    <2>5. QED
        BY <2>2, <2>3, <2>4, UnderwayHolds
<1>4. QED
    BY <1>2, <1>3

\* A SIGTERM that was raised stays on its way until main exits or a full
\* socket pair drops it.
THEOREM TermKeptHolds == PipeSpec => TermKept
<1> DEFINE Kept == TermUnderway => TermUnderway' \/ phase' = "exited" \/ term_lost'
<1>1. ASSUME PipeInv, [PipeNext]_allvars PROVE [Kept]_allvars
    <2> SUFFICES ASSUME PipeNext, TermUnderway
                 PROVE  TermUnderway' \/ phase' = "exited" \/ term_lost'
        BY <1>1
    <2>1. CASE Main /\ Resumed
        <3>1. CASE Holds(sigq, "SIGTERM")
            BY <1>1, <2>1, <3>1, MainKeepsTerm DEF PipeInv, PipeTypeOK, Holds, TermUnderway
        <3>2. CASE "SIGTERM" \in pending \/ Holds(handlers, "SIGTERM")
            BY <2>1, <3>2 DEF Resumed, pipevars, Holds, TermUnderway
        <3>3. QED
            BY <3>1, <3>2, UnderwayHolds
    <2>2. ASSUME NEW s \in Raised, SignalStep(s) PROVE TermUnderway' \/ term_lost'
        BY <1>1, <2>2, KernelKeepsTerm, HandlerKeepsTerm DEF SignalStep, PipeInv
    <2>3. CASE (\E d \in Datagram : Arrive(d)) /\ UNCHANGED pipevars
        BY <2>3 DEF Arrive, pipevars, TermUnderway
    <2>4. QED
        BY <2>1, <2>2, <2>3 DEF PipeNext
<1>2. PipeInv /\ [PipeNext]_allvars => [Kept]_allvars
    BY <1>1
<1>3. QED
    BY <1>2, PipeInvariant, PTL DEF PipeSpec, TermKept

-----------------------------------------------------------------------------
(* Handlers as signals delivered in one step.                              *)

LEMMA MainMapped ==
    ASSUME PipeInv, Main, Resumed
    PROVE  Loop!LoopNext
<1>1. LoopPhase = phase /\ LoopPhase' = phase'
    BY DEF PipeInv, HandlerToSend, Resumed, LoopPhase, Main, Control, Start, RestoreUdp,
        EnterSelect, SelectTimeout, SelectReady, ReadSignal, HandlePacket, LookupStep,
        TimeoutStep
<1>2. Control => Loop!Control
    BY <1>1 DEF Control, Start, RestoreUdp, EnterSelect, SelectTimeout, SelectReady,
        ReadSignal, Loop!Control, Loop!Start, Loop!RestoreUdp, Loop!EnterSelect,
        Loop!SelectTimeout, Loop!SelectReady, Loop!ReadSignal
<1>3. HandlePacket \/ LookupStep \/ TimeoutStep
        => Loop!HandlePacket \/ Loop!LookupStep \/ Loop!TimeoutStep
    BY <1>1 DEF HandlePacket, Receive, LookupStep, TimeoutStep, Stay, Loop!HandlePacket,
        Loop!Receive, Loop!LookupStep, Loop!TimeoutStep, Loop!Stay
<1>4. QED
    BY <1>2, <1>3 DEF Main, Loop!LoopNext, Loop!Main

LEMMA SendMapped ==
    ASSUME PipeInv, NEW s \in Signal, Send(s)
    PROVE  Loop!Deliver(s) \/ Loop!Interrupt(s)
<1>1. /\ phase # "exited" /\ sigq' = Append(sigq, s) /\ Len(sigq) < SigRoom
      /\ UNCHANGED <<phase, rxq, sig_ready, udp_ready, udp_fd, udp_port>>
    BY DEF Send, Running
<1>2. sigq \in Seq(Signal) /\ sigq' # <<>>
    BY <1>1, QueueFacts DEF PipeInv, PipeTypeOK, LoopTypeOK
<1>3. CASE phase = "signal" /\ sigq = <<>>
    <2>1. sigq' = <<s>>
        BY <1>1, <1>3
    <2>2. QED
        BY <1>1, <1>2, <1>3, <2>1 DEF LoopPhase, Loop!Interrupt
<1>4. CASE ~(phase = "signal" /\ sigq = <<>>)
    <2>1. LoopPhase = phase /\ LoopPhase' = phase'
        BY <1>1, <1>2, <1>4 DEF LoopPhase
    <2>2. QED
        BY <1>1, <2>1 DEF Loop!Deliver
<1>5. QED
    BY <1>3, <1>4

LEMMA PipeStepMapped == PipeInv /\ [PipeNext]_allvars => [Loop!LoopNext]_(Loop!loopvars)
<1> SUFFICES ASSUME PipeInv, [PipeNext]_allvars
             PROVE  Loop!LoopNext \/ UNCHANGED Loop!loopvars
    OBVIOUS
<1>1. CASE Main /\ Resumed
    BY <1>1, MainMapped
<1>2. ASSUME NEW s \in Raised, SignalStep(s)
      PROVE  Loop!LoopNext \/ UNCHANGED Loop!loopvars
    <2>1. CASE Raise(s) \/ Catch(s) \/ SendFails(s)
        BY <2>1 DEF Raise, Catch, SendFails, loopvars, Loop!loopvars, LoopPhase
    <2>2. CASE Wake(s)
        BY <2>2 DEF Wake, Loop!loopvars, LoopPhase
    <2>3. CASE Send(s)
        BY <2>3, SendMapped DEF Loop!LoopNext, Signal, Loop!Signal
    <2>4. QED
        BY <1>2, <2>1, <2>2, <2>3 DEF SignalStep, HandlerStep
<1>3. ASSUME NEW d \in Datagram, Arrive(d), UNCHANGED pipevars PROVE Loop!LoopNext
    <2>1. Loop!Arrive(d)
        BY <1>3 DEF Arrive, Loop!Arrive, LoopPhase
    <2>2. QED
        BY <2>1 DEF Loop!LoopNext
<1>4. CASE UNCHANGED allvars
    BY <1>4 DEF allvars, loopvars, Loop!loopvars, LoopPhase
<1>5. QED
    BY <1>1, <1>2, <1>3, <1>4 DEF PipeNext

\* The loop with real handlers implements the loop with one-step signals.
THEOREM PipeImplementsLoop == PipeSpec => ImplementsLoop
<1>1. PipeInit => Loop!LoopInit
    BY DEF PipeInit, LoopInit, Loop!LoopInit, LoopPhase
<1>2. QED
    BY <1>1, PipeStepMapped, PipeInvariant, PTL DEF PipeSpec, ImplementsLoop, Loop!LoopSpec
=============================================================================
