--------------------------- MODULE MainLoopProof ---------------------------
(***************************************************************************)
(* Proofs about the loop that both programs share: its types, and that it  *)
(* never blocks in sig_read.                                               *)
(***************************************************************************)
EXTENDS MainLoop, TLAPS

LEMMA QueueFacts ==
    ASSUME NEW S, NEW q \in Seq(S)
    PROVE  /\ Len(q) \in Nat
           /\ \A x \in S : /\ Append(q, x) \in Seq(S) /\ Append(q, x) # <<>>
                          /\ Len(Append(q, x)) = Len(q) + 1
           /\ q # <<>> => Head(q) \in S /\ Tail(q) \in Seq(S) /\ Len(Tail(q)) = Len(q) - 1
OBVIOUS

LEMMA LoopTypeInit == LoopInit => LoopTypeOK
<1>1. ASSUME NEW S PROVE <<>> \in Seq(S) /\ Len(<<>>) = 0
    OBVIOUS
<1>2. SigRoom >= 0 /\ RxRoom >= 0
    BY LoopAssumption
<1>3. QED
    BY <1>1, <1>2 DEF LoopInit, LoopTypeOK, Phase

\* Receiving takes a datagram from the queue or leaves it empty.
LEMMA ReceiveType ==
    ASSUME LoopTypeOK, Receive, phase' \in Phase
    PROVE  LoopTypeOK'
<1>1. Len(rxq) \in Nat /\ (rxq # <<>> => Tail(rxq) \in Seq(Datagram)
                                         /\ Len(Tail(rxq)) = Len(rxq) - 1)
    BY QueueFacts DEF LoopTypeOK
<1>2. rxq' \in Seq(Datagram) /\ Len(rxq') <= RxRoom
    BY <1>1, LoopAssumption DEF Receive, LoopTypeOK
<1>3. QED
    BY <1>2 DEF Receive, LoopTypeOK

LEMMA ControlType ==
    ASSUME LoopTypeOK, Control
    PROVE  LoopTypeOK'
<1> USE DEF LoopTypeOK, Phase
<1>1. CASE Start \/ RestoreUdp \/ EnterSelect \/ SelectTimeout \/ SelectReady
    BY <1>1 DEF Start, RestoreUdp, EnterSelect, SelectTimeout, SelectReady
<1>2. CASE ReadSignal
    <2>1. sigq' \in Seq(Signal) /\ Len(sigq') <= SigRoom
        BY <1>2, QueueFacts, LoopAssumption DEF ReadSignal
    <2>2. QED
        BY <1>2, <2>1 DEF ReadSignal
<1>3. QED
    BY <1>1, <1>2 DEF Control

\* Every step of main and of its environment keeps the variables of the loop
\* within their types.
LEMMA LoopTypeStep == LoopTypeOK /\ [LoopNext]_loopvars => LoopTypeOK'
<1> SUFFICES ASSUME LoopTypeOK, [LoopNext]_loopvars PROVE LoopTypeOK'
    OBVIOUS
<1>1. CASE Control
    BY <1>1, ControlType
<1>2. CASE HandlePacket
    BY <1>2, ReceiveType DEF HandlePacket, Phase
<1>3. CASE LookupStep \/ TimeoutStep
    BY <1>3 DEF LookupStep, TimeoutStep, Stay, LoopTypeOK, Phase
<1>4. ASSUME NEW s \in Signal, Deliver(s) PROVE LoopTypeOK'
    BY <1>4, QueueFacts, LoopAssumption DEF Deliver, LoopTypeOK
<1>5. ASSUME NEW s \in Signal, Interrupt(s) PROVE LoopTypeOK'
    BY <1>5, LoopAssumption DEF Interrupt, LoopTypeOK, Phase
<1>6. ASSUME NEW d \in Datagram, Arrive(d) PROVE LoopTypeOK'
    BY <1>6, QueueFacts, LoopAssumption DEF Arrive, LoopTypeOK
<1>7. CASE UNCHANGED loopvars
    BY <1>7 DEF loopvars, LoopTypeOK
<1>8. QED
    BY <1>1, <1>2, <1>3, <1>4, <1>5, <1>6, <1>7 DEF LoopNext, Main

\* Type correctness of the loop.
THEOREM LoopTypeCorrect == LoopSpec => []LoopTypeOK
BY LoopTypeInit, LoopTypeStep, PTL DEF LoopSpec

-----------------------------------------------------------------------------

\* main reads a signal only when the socket pair holds one: sig_read never
\* blocks, whenever the handler ran and whatever select returned.
THEOREM LoopSigRead == LoopSpec => []SigReadNeverBlocks
<1>1. LoopInit => SigReadNeverBlocks
    BY DEF LoopInit, SigReadNeverBlocks
<1>2. SigReadNeverBlocks /\ LoopTypeOK /\ [LoopNext]_loopvars => SigReadNeverBlocks'
    <2> SUFFICES ASSUME SigReadNeverBlocks, LoopTypeOK, [LoopNext]_loopvars
                 PROVE  SigReadNeverBlocks'
        OBVIOUS
    <2> USE DEF SigReadNeverBlocks
    <2>1. CASE Main
        BY <2>1 DEF Main, Control, Start, RestoreUdp, EnterSelect, SelectTimeout,
            SelectReady, ReadSignal, HandlePacket, LookupStep, TimeoutStep
    <2>2. ASSUME NEW s \in Signal, Deliver(s) PROVE SigReadNeverBlocks'
        <3>1. Append(sigq, s) # <<>>
            BY QueueFacts DEF LoopTypeOK
        <3>2. QED
            BY <2>2, <3>1 DEF Deliver
    <2>3. ASSUME NEW s \in Signal, Interrupt(s) PROVE SigReadNeverBlocks'
        BY <2>3 DEF Interrupt
    <2>4. CASE (\E d \in Datagram : Arrive(d)) \/ UNCHANGED loopvars
        BY <2>4 DEF Arrive, loopvars
    <2>5. QED
        BY <2>1, <2>2, <2>3, <2>4 DEF LoopNext
<1>3. QED
    BY <1>1, <1>2, LoopTypeCorrect, PTL DEF LoopSpec
=============================================================================
