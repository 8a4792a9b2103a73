---------------------------- MODULE ServerProof ----------------------------
(***************************************************************************)
(* Proofs about the server: it uses the list only as ClientList allows and *)
(* goes through its passes as MainLoop has them, so that what is proved of *)
(* either holds in the daemon; and where the copy into macaddress reaches  *)
(* next_client it serves a single client.                                  *)
(***************************************************************************)
EXTENDS Server, ClientListProof, MainLoopProof

USE PointerAssumption, ValueAssumption, LoopAssumption, WireAssumption

(* The loop inside the daemon.                                             *)

\* Whatever the daemon does to the list, a step of it is a step of the loop.
LEMMA DaemonLoopStep == [ServerNext]_svars => [LoopNext]_loopvars
<1> SUFFICES ASSUME [ServerNext]_svars PROVE LoopNext \/ UNCHANGED loopvars
    OBVIOUS
<1>1. CASE Turn
    BY <1>1 DEF Turn, LoopNext, Main
<1>2. CASE ReplyMalformed \/ ReplyFirst \/ ReplyOther
    BY <1>2 DEF ReplyMalformed, ReplyFirst, ReplyOther, HandlePacket, LoopNext, Main
<1>3. CASE Lookup \/ Sweep
    BY <1>3 DEF Lookup, Sweep, LoopNext, Main
<1>4. CASE Signalled \/ Packet
    BY <1>4 DEF Signalled, Packet, LoopNext
<1>5. CASE Clock \/ UNCHANGED svars
    BY <1>5 DEF Clock, svars
<1>6. QED
    BY <1>1, <1>2, <1>3, <1>4, <1>5 DEF ServerNext, Daemon, Environment

\* The daemon implements the loop that both programs share.
THEOREM DaemonUsesLoop == ServerSpec => UsesLoop
<1>1. ServerInit => LoopInit
    BY DEF ServerInit
<1>2. QED
    BY <1>1, DaemonLoopStep, PTL DEF ServerSpec, UsesLoop, LoopSpec

\* Type correctness of the loop.
THEOREM ServerTypeCorrect == ServerSpec => []LoopTypeOK
BY DaemonUsesLoop, LoopTypeCorrect, PTL DEF UsesLoop

\* main reads a signal only when the socket pair holds one: sig_read never
\* blocks the daemon.
THEOREM SigReadNeverBlocksHolds == ServerSpec => []SigReadNeverBlocks
BY DaemonUsesLoop, LoopSigRead, PTL DEF UsesLoop

-----------------------------------------------------------------------------
(* The list inside the daemon.                                             *)

LEMMA LookedUpId ==
    LoopTypeOK => PacketXid(Received) \in WireId /\ Received.keys \in Keys
BY QueueFacts DEF LoopTypeOK, PacketXid, Received, PACKET_POS_OPT_START, Keys

\* A step of the daemon or of its environment is a step of the list or leaves
\* it alone.
LEMMA ListStep == LoopTypeOK /\ [ServerNext]_svars => [Next]_vars
<1> SUFFICES ASSUME LoopTypeOK, [ServerNext]_svars PROVE Next \/ UNCHANGED vars
    OBVIOUS
<1>1. CASE Turn \/ ReplyMalformed
    BY <1>1 DEF Turn, ReplyMalformed
<1>2. CASE ReplyFirst
    BY <1>2, LookedUpId DEF ReplyFirst, Next
<1>3. CASE ReplyOther
    BY <1>3, LookedUpId DEF ReplyOther, Next
<1>4. CASE Lookup \/ Sweep
    BY <1>4 DEF Lookup, Sweep, Next
<1>5. CASE Clock
    BY <1>5 DEF Clock, Next
<1>6. CASE Signalled \/ Packet
    BY <1>6 DEF Signalled, Packet
<1>7. CASE UNCHANGED svars
    BY <1>7 DEF svars
<1>8. QED
    BY <1>1, <1>2, <1>3, <1>4, <1>5, <1>6, <1>7 DEF ServerNext, Daemon, Environment

\* main calls one operation of the list at a time and runs it to its end, so
\* the daemon's list behaves as ClientList.
THEOREM DaemonUsesList == ServerSpec => UsesListSafely
<1>1. ServerInit => Init
    BY DEF ServerInit
<1>2. QED
    BY <1>1, ListStep, ServerTypeCorrect, PTL DEF ServerSpec, UsesListSafely, Spec

\* Hence no loop of the daemon goes through a freed session.
THEOREM DaemonNoStaleUse == ServerSpec => []NoStaleUse
BY DaemonUsesList, NoStaleUseHolds, PTL DEF UsesListSafely

\* The daemon's table of sessions is the abstract one: it opens sessions only
\* as the table may and drops none before its deadline, whatever packets,
\* signals and timeouts come between.
THEOREM DaemonImplementsTable == ServerSpec => ImplementsTable
BY DaemonUsesList, ListImplementsTable, PTL DEF UsesListSafely

\* Once it has a session, the daemon looks up any id in any packet without
\* going through NULL.
THEOREM DaemonServedSafely == ServerSpec => []ServedSafely
BY DaemonUsesList, ServedSafelyHolds, PTL DEF UsesListSafely

\* No pass of the daemon stays in a loop over its list.
THEOREM DaemonCursorDescends == ServerSpec => CursorDescends
BY DaemonUsesList, CursorDescendsHolds, PTL DEF UsesListSafely

\* A char holds the lower half of the ids of a byte as they are.
LEMMA LowIdKept ==
    ASSUME NEW x \in 0..XID_MOD-1, 2 * x < XID_MOD
    PROVE  AsChar(x) = x
BY DEF AsChar

\* A session whose id is below half a byte's range is found by every packet
\* that carries it.
THEOREM LowIdFoundHolds == ServerSpec => LowIdFound
<1> DEFINE Found ==
        pc = "lookup" /\ pc' = "idle" => \A d \in allocated : xid[d] # want
<1> DEFINE LowFound ==
        pc = "lookup" /\ pc' = "idle" =>
            \A d \in allocated : 2 * xid[d] < XID_MOD => AsChar(xid[d]) # want
<1>1. ServerSpec => [][Found]_vars
    <2>1. LookupExact => [][Found]_vars
        BY PTL DEF LookupExact
    <2>2. QED
        BY <2>1, DaemonUsesList, LookupExactHolds, PTL DEF UsesListSafely
<1>2. TypeOK /\ [Found]_vars => [LowFound]_svars
    BY LowIdKept DEF TypeOK, vars
<1>3. QED
    BY <1>1, <1>2, DaemonUsesList, TypeCorrect, PTL DEF UsesListSafely, LowIdFound

-----------------------------------------------------------------------------
(* The layout in which strcpy reaches next_client.                         *)

NoClientYet ==
    /\ served = 0 /\ allocated = {} /\ list_client = NULL
    /\ pc = "idle" \/ (pc = "lookup" /\ phase = "lookup" /\ client = NULL)

FirstSweepAhead ==
    /\ served = 1 /\ phase = "sweep" /\ pc = "idle"
    /\ list_client \in allocated /\ next_client[list_client] = WILD

FirstSweepRuns ==
    /\ served = 1 /\ phase = "sweeping" /\ pc = "sweep"
    /\ client = WILD \/ (client \in allocated /\ next_client[client] = WILD)

\* From the first registration the daemon is on its way to the wild link: the
\* pass that registered the client goes on to the sweep that follows it.
OverrunInv ==
    Overrun => \/ NoClientYet
               \/ FirstSweepAhead
               \/ FirstSweepRuns
               \/ served = 1 /\ pc = "keys" /\ phase = "keys"
               \/ served = 1 /\ fault # "none"

LEMMA OverrunEnv ==
    ASSUME OverrunInv,
           UNCHANGED <<heap, list_client, pc, client, served, fault, phase>>
    PROVE  OverrunInv'
BY DEF OverrunInv, NoClientYet, FirstSweepAhead, FirstSweepRuns, heap

LEMMA OverrunNoClient ==
    ASSUME TypeOK, Overrun, NoClientYet, Daemon
    PROVE  OverrunInv'
<1> USE DEF NoClientYet, In
<1>1. CASE Turn
    BY <1>1 DEF Turn, Control, Start, RestoreUdp, EnterSelect, SelectTimeout, SelectReady,
        ReadSignal, OverrunInv, vars, heap, locals, history
<1>2. CASE ReplyMalformed
    BY <1>2 DEF ReplyMalformed, Receive, OverrunInv, vars, heap, locals, history
<1>3. CASE ReplyFirst
    <2>1. ASSUME NEW c \in Cell, Register(c, Received.keys)
          PROVE  \/ FirstSweepAhead'
                 \/ served' = 1 /\ ((pc' = "keys" /\ phase' = "keys") \/ fault' # "none")
        BY <1>3, <2>1 DEF ReplyFirst, Register, KeysRead, FrontLink, FirstSweepAhead, TypeOK
    <2>2. CASE OutOfMemory
        BY <1>3, <2>2 DEF OutOfMemory, OverrunInv, heap, locals, history
    <2>3. QED
        BY <1>3, <2>1, <2>2 DEF ReplyFirst, OverrunInv
<1>4. CASE ReplyOther
    BY <1>4 DEF ReplyOther, BeginLookup, OverrunInv, heap, history
<1>5. CASE Lookup
    BY <1>5 DEF Lookup, LookupStep, LookupHit, LookupAdvance, LookupMiss, RejectMatched, BadCursor,
        OverrunInv, heap, locals, history
<1>6. CASE Sweep
    BY <1>6 DEF Sweep, TimeoutStep, BeginSweep, SweepStep, SweepKeep, SweepDropHead, SweepDropInner,
        SweepEnd, InBody, BadCursor, OverrunInv, heap, history
<1>7. QED
    BY <1>1, <1>2, <1>3, <1>4, <1>5, <1>6 DEF Daemon

LEMMA OverrunAhead ==
    ASSUME TypeOK, Overrun, FirstSweepAhead, Daemon
    PROVE  OverrunInv'
<1>1. BeginSweep /\ phase' = IF pc' = "idle" THEN "loop" ELSE "sweeping"
    BY DEF FirstSweepAhead, Daemon, Turn, Control, Start, RestoreUdp, EnterSelect,
        SelectTimeout, SelectReady, ReadSignal, ReplyMalformed, ReplyFirst, ReplyOther,
        Receive, Lookup, LookupStep, Sweep
<1>2. FirstSweepRuns'
    BY <1>1 DEF FirstSweepAhead, FirstSweepRuns, BeginSweep, heap, TypeOK
<1>3. QED
    BY <1>2 DEF OverrunInv

LEMMA OverrunRuns ==
    ASSUME TypeOK, Overrun, FirstSweepRuns, Daemon
    PROVE  OverrunInv'
<1>1. /\ SweepStep \/ BadCursor
      /\ phase' = IF pc' = "idle" THEN "loop" ELSE "sweeping"
    BY DEF FirstSweepRuns, Daemon, Turn, Control, Start, RestoreUdp, EnterSelect,
        SelectTimeout, SelectReady, ReadSignal, ReplyMalformed, ReplyFirst, ReplyOther,
        Receive, Lookup, LookupStep, Sweep
<1>2. CASE SweepKeep \/ SweepDropHead
    BY <1>1, <1>2 DEF SweepKeep, SweepDropHead, InBody, FirstSweepRuns, OverrunInv, history,
        TypeOK
<1>3. CASE SweepDropInner
    BY <1>1, <1>3 DEF SweepDropInner, InBody, FirstSweepRuns, OverrunInv, history, TypeOK
<1>4. CASE SweepEnd
    BY <1>4 DEF SweepEnd, FirstSweepRuns, TypeOK
<1>5. CASE BadCursor
    <2>1. FaultAt(UsedPointer) # "none"
        BY <1>5 DEF BadCursor, FaultAt
    <2>2. QED
        BY <1>5, <2>1 DEF BadCursor, FirstSweepRuns, OverrunInv, history
<1>6. QED
    BY <1>1, <1>2, <1>3, <1>4, <1>5 DEF SweepStep

LEMMA OverrunStep == TypeOK /\ OverrunInv /\ [ServerNext]_svars => OverrunInv'
<1> SUFFICES ASSUME TypeOK, OverrunInv, [ServerNext]_svars, Overrun PROVE OverrunInv'
    BY DEF OverrunInv, Overrun
<1>1. CASE Packet \/ Clock \/ UNCHANGED svars
    BY <1>1, OverrunEnv DEF Packet, Arrive, Clock, Tick, svars, loopvars, vars, locals,
        history
<1>2. CASE Daemon
    <2>1. fault # "none" => UNCHANGED OverrunInv
        BY <1>2 DEF Daemon, Turn, ReplyMalformed, ReplyFirst, ReplyOther, Lookup, Sweep
    <2>2. phase # "keys"
        BY <1>2 DEF Daemon, Turn, Control, Start, RestoreUdp, EnterSelect, SelectTimeout,
            SelectReady, ReadSignal, ReplyMalformed, ReplyFirst, ReplyOther, Receive,
            Lookup, LookupStep, Sweep, TimeoutStep
    <2>3. QED
        BY <1>2, <2>1, <2>2, OverrunNoClient, OverrunAhead, OverrunRuns DEF OverrunInv
<1>3. CASE Signalled
    BY <1>3 DEF Signalled, Deliver, Interrupt, OverrunInv, NoClientYet, FirstSweepAhead,
        FirstSweepRuns, vars, heap, locals, history
<1>4. QED
    BY <1>1, <1>2, <1>3 DEF ServerNext, Environment

\* In that layout the daemon registers one client and no second one, for any
\* heap, packets, signals and clock.
THEOREM OverrunServesOneHolds == ServerSpec => []OverrunServesOne
<1>1. ServerInit => OverrunInv
    BY DEF ServerInit, Init, OverrunInv, NoClientYet
<1>2. OverrunInv => OverrunServesOne
    BY DEF OverrunInv, OverrunServesOne, NoClientYet, FirstSweepAhead, FirstSweepRuns
<1>3. QED
    BY <1>1, <1>2, OverrunStep, DaemonUsesList, TypeCorrect, PTL
       DEF ServerSpec, UsesListSafely
=============================================================================
