---------------------------- MODULE ClientProof ----------------------------
(***************************************************************************)
(* Proofs about the client: its list leaves the loop and the signals as    *)
(* SignalPipe has them, so that what is proved of those holds in the       *)
(* client; and a server whose PACKET_2 was handled is found by its id byte *)
(* for every list, in either half of the range of a byte.                  *)
(***************************************************************************)
EXTENDS Client, SignalPipeProof

USE LoopAssumption, ServersAssumption

-----------------------------------------------------------------------------
(* The loop and the signals inside the client.                             *)

LEMMA ClientPipeStep == [ClientNext]_cvars => [PipeNext]_allvars
<1> SUFFICES ASSUME [ClientNext]_cvars PROVE PipeNext \/ UNCHANGED allvars
    OBVIOUS
<1>1. CASE Program
    <2>1. Main
        BY <1>1 DEF Program, Turn, ReplyMalformed, ReplySecond, NewServer, KeysRead,
            OutOfMemory, ReplyOther, Lookup, LookupNull, LookupHit,
            LookupAdvance, LookupMiss, Timeouts, HandlePacket, Main
    <2>2. QED
        BY <1>1, <2>1 DEF Program, PipeNext
<1>2. CASE (\E s \in Raised : Signalled(s)) \/ Packet
    BY <1>2 DEF Signalled, Packet, PipeNext
<1>3. CASE UNCHANGED cvars
    BY <1>3 DEF cvars
<1>4. QED
    BY <1>1, <1>2, <1>3 DEF ClientNext

\* The client is the loop of SignalPipe, whatever it does to its list.
THEOREM ClientUsesPipe == ClientSpec => UsesPipe
<1>1. ClientInit => PipeInit
    BY DEF ClientInit
<1>2. QED
    BY <1>1, ClientPipeStep, PTL DEF ClientSpec, UsesPipe, PipeSpec

LEMMA ClientPipeInv == ClientSpec => []PipeInv
BY ClientUsesPipe, PipeInvariant, PTL DEF UsesPipe

\* The client never blocks in sig_read, however its handlers interrupt each
\* other.
THEOREM ClientReadFindsSignal == ClientSpec => []ReadFindsSignal
BY ClientUsesPipe, ReadFindsSignalHolds, PTL DEF UsesPipe

\* The client implements the loop both programs share, with signals delivered
\* in one step.
THEOREM ClientImplementsLoop == ClientSpec => ImplementsLoop
BY ClientUsesPipe, PipeImplementsLoop, PTL DEF UsesPipe

\* A SIGTERM raised at the client stays on its way until the client exits or
\* the full socket pair drops it.
THEOREM ClientTermKept == ClientSpec => TermKept
BY ClientUsesPipe, TermKeptHolds, PTL DEF UsesPipe

-----------------------------------------------------------------------------
(* The list of servers.                                                    *)

ListTypeOK ==
    /\ list_server \in Seq(Int)
    /\ server \in 0..Len(list_server)
    /\ id \in Int
    /\ fault \in {"none", "nomem", "nolist", "keys"}
    /\ heard \subseteq 0..XID_MOD-1

\* The servers the lookup has passed do not have the id.
PassedDiffer == phase = "lookup" => \A i \in 1..server-1 : list_server[i] # id

\* Every PACKET_2 that was handled left its id in the list as lookups read it.
HeardListed == \A b \in heard : \E i \in 1..Len(list_server) : list_server[i] = AsChar(b)

ListInv == ListTypeOK /\ PassedDiffer /\ HeardListed

LEMMA ListInvInit == ClientInit => ListInv
<1>1. <<>> \in Seq(Int) /\ Len(<<>>) = 0
    OBVIOUS
<1>2. QED
    BY <1>1 DEF ClientInit, PipeInit, LoopInit, ListInv, ListTypeOK, PassedDiffer, HeardListed

LEMMA ReadId ==
    ASSUME LoopTypeOK
    PROVE  /\ PacketXid(Received) \in Int
           /\ PacketType(Received) = PACKET_2
                => Received.xid \in 0..XID_MOD-1 /\ PacketXid(Received) = AsChar(Received.xid)
<1>1. CASE rxq = <<>>
    BY <1>1 DEF Received, PacketXid, PacketType, PACKET_POS_OPT_START, ERR_WRONG_PACKET, PACKET_2
<1>2. CASE rxq # <<>>
    <2>1. Received \in [sz : Nat, type : Int, xid : 0..XID_MOD-1, keys : Keys]
        BY <1>2, QueueFacts DEF Received, LoopTypeOK
    <2>2. Received.xid \in 0..XID_MOD-1 /\ AsChar(Received.xid) \in Int
        BY <2>1 DEF AsChar
    <2>3. PacketType(Received) = PACKET_2 => Received.sz >= PACKET_POS_OPT_START
        BY <2>1 DEF PacketType, PACKET_2, ERR_WRONG_PACKET
    <2>4. QED
        BY <2>2, <2>3 DEF PacketXid, ERR_WRONG_PACKET
<1>3. QED
    BY <1>1, <1>2

LEMMA FrontFacts ==
    ASSUME NEW x \in Int, NEW q \in Seq(Int)
    PROVE  /\ <<x>> \o q \in Seq(Int) /\ Len(<<x>> \o q) = Len(q) + 1 /\ Len(q) \in Nat
           /\ (<<x>> \o q)[1] = x
           /\ \A i \in 1..Len(q) : (<<x>> \o q)[i+1] = q[i]
OBVIOUS

LEMMA NewServerKeeps ==
    ASSUME ListInv, LoopTypeOK, ReplySecond
    PROVE  ListInv'
<1>1. CASE NewServer
    <2> DEFINE x == PacketXid(Received)
               b0 == Received.xid
    <2>1. x \in Int /\ b0 \in 0..XID_MOD-1 /\ x = AsChar(b0)
        BY ReadId DEF ReplySecond
    <2>2. list_server' = <<x>> \o list_server /\ heard' = heard \cup {b0}
        BY <1>1 DEF NewServer
    <2>3. list_server \in Seq(Int)
        BY DEF ListInv, ListTypeOK
    <2> HIDE DEF x, b0
    <2>4. /\ list_server' \in Seq(Int) /\ Len(list_server) \in Nat
          /\ Len(list_server') = Len(list_server) + 1
          /\ list_server'[1] = x
          /\ \A i \in 1..Len(list_server) : list_server'[i+1] = list_server[i]
        BY <2>1, <2>2, <2>3, FrontFacts
    <2>5. ListTypeOK'
        <3>1. server' \in 0..Len(list_server')
            <4>1. server \in 0..Len(list_server) /\ server' = server
                BY DEF ReplySecond, ListInv, ListTypeOK
            <4>2. QED
                BY <2>4, <4>1
        <3>2. heard' \subseteq 0..XID_MOD-1
            BY <2>1, <2>2 DEF ListInv, ListTypeOK
        <3>3. id' \in Int /\ fault' \in {"none", "nomem", "nolist", "keys"}
            BY <1>1 DEF ReplySecond, NewServer, KeysRead, ListInv, ListTypeOK
        <3>4. QED
            BY <2>4, <3>1, <3>2, <3>3 DEF ListTypeOK
    <2>6. HeardListed'
        <3> SUFFICES ASSUME NEW b \in heard'
                     PROVE  \E i \in 1..Len(list_server') : list_server'[i] = AsChar(b)
            BY DEF HeardListed
        <3>1. CASE b = b0
            <4>1. 1 \in 1..Len(list_server') /\ list_server'[1] = AsChar(b)
                BY <2>1, <2>4, <3>1
            <4>2. QED
                BY <4>1
        <3>2. CASE b \in heard
            <4>1. PICK i \in 1..Len(list_server) : list_server[i] = AsChar(b)
                BY <3>2 DEF ListInv, HeardListed
            <4>2. i+1 \in 1..Len(list_server') /\ list_server'[i+1] = AsChar(b)
                BY <2>4, <4>1
            <4>3. QED
                BY <4>2
        <3>3. QED
            BY <2>2, <3>1, <3>2
    <2>7. PassedDiffer'
        BY <1>1 DEF NewServer, KeysRead, PassedDiffer
    <2>8. QED
        BY <2>5, <2>6, <2>7 DEF ListInv
<1>2. CASE OutOfMemory
    BY <1>2 DEF ReplySecond, OutOfMemory, ListInv, ListTypeOK, PassedDiffer, HeardListed
<1>3. QED
    BY <1>1, <1>2 DEF ReplySecond

LEMMA LookupKeeps ==
    ASSUME ListInv, LoopTypeOK, ReplyOther \/ Lookup
    PROVE  ListInv'
<1> USE DEF ListInv, ListTypeOK, PassedDiffer, HeardListed
<1>1. CASE ReplyOther
    <2>1. id' \in Int
        BY <1>1, ReadId DEF ReplyOther
    <2>2. list_server # <<>> => 1 \in 0..Len(list_server)
        OBVIOUS
    <2>3. server' \in 0..Len(list_server') /\ \A i \in 1..server'-1 : list_server'[i] # id'
        BY <1>1, <2>2 DEF ReplyOther
    <2>4. QED
        BY <1>1, <2>1, <2>3 DEF ReplyOther
<1>2. CASE LookupNull
    BY <1>2 DEF LookupNull, LookupStep
<1>3. CASE LookupHit \/ LookupMiss
    <2>1. Len(list_server) \in Nat
        OBVIOUS
    <2>2. 0 \in 0..Len(list_server')
        BY <1>3, <2>1 DEF LookupHit, LookupMiss
    <2>3. /\ phase' = "sweep" /\ server' = 0 /\ id' = 0
          /\ UNCHANGED <<list_server, fault, heard>>
        BY <1>3 DEF LookupHit, LookupMiss
    <2>4. ListTypeOK' /\ PassedDiffer'
        BY <2>2, <2>3
    <2>5. HeardListed'
        BY <2>3
    <2>6. QED
        BY <2>4, <2>5
<1>4. CASE LookupAdvance
    BY <1>4 DEF LookupAdvance, LookupStep
<1>5. QED
    BY <1>1, <1>2, <1>3, <1>4 DEF Lookup

LEMMA ListInvStep == ListInv /\ PipeInv /\ [ClientNext]_cvars => ListInv'
<1> SUFFICES ASSUME ListInv, PipeInv, [ClientNext]_cvars PROVE ListInv'
    OBVIOUS
<1>1. LoopTypeOK
    BY DEF PipeInv, PipeTypeOK
<1>2. ASSUME UNCHANGED listvars, phase' = "lookup" => phase = "lookup" PROVE ListInv'
    BY <1>2 DEF listvars, ListInv, ListTypeOK, PassedDiffer, HeardListed
<1>3. CASE Program
    <2>1. CASE Turn \/ ReplyMalformed \/ Timeouts
        BY <1>2, <2>1 DEF Turn, Control, Start, RestoreUdp, EnterSelect, SelectTimeout,
            SelectReady, ReadSignal, ReplyMalformed, Timeouts
    <2>2. QED
        BY <1>1, <1>3, <2>1, NewServerKeeps, LookupKeeps DEF Program
<1>4. ASSUME NEW s \in Raised, Signalled(s) PROVE ListInv'
    BY <1>2, <1>4 DEF Signalled, SignalStep, Raise, Catch, Wake, HandlerStep, Send,
        SendFails, loopvars
<1>5. CASE Packet \/ UNCHANGED cvars
    BY <1>2, <1>5 DEF Packet, Arrive, cvars, allvars, loopvars
<1>6. QED
    BY <1>3, <1>4, <1>5 DEF ClientNext

LEMMA ListInvariant == ClientSpec => []ListInv
BY ListInvInit, ListInvStep, ClientPipeInv, PTL DEF ClientSpec

\* Type correctness of the client.
THEOREM ClientTypeCorrect == ClientSpec => []ClientTypeOK
<1>1. ListInv /\ PipeInv => ClientTypeOK
    BY DEF ListInv, ListTypeOK, PipeInv, ClientTypeOK
<1>2. QED
    BY <1>1, ListInvariant, ClientPipeInv, PTL

\* A lookup that gives up has passed every server without the id, so the id
\* byte is not that of a PACKET_2 the client has handled.
THEOREM KnownServerFoundHolds == ClientSpec => KnownServerFound
<1> DEFINE GivesUp ==
        phase = "lookup" /\ phase' = "sweep" /\ list_server[server] # id
            => \A b \in heard : AsChar(b) # id
<1>1. ListInv /\ [ClientNext]_cvars => [GivesUp]_cvars
    <2> SUFFICES ASSUME ListInv, ClientNext, phase = "lookup", phase' = "sweep",
                        list_server[server] # id, NEW b \in heard
                 PROVE  AsChar(b) # id
        OBVIOUS
    <2>1. LookupMiss
        BY DEF ClientNext, Program, Turn, Control, Start, RestoreUdp, EnterSelect,
            SelectTimeout, SelectReady, ReadSignal, ReplyMalformed, ReplySecond,
            NewServer, KeysRead, OutOfMemory, ReplyOther, Receive, Lookup, LookupNull, LookupHit, LookupAdvance, Timeouts,
            TimeoutStep, Signalled, SignalStep, Raise, Catch, Wake, HandlerStep, Send,
            SendFails, loopvars, Packet, Arrive
    <2>2. PICK i \in 1..Len(list_server) : list_server[i] = AsChar(b)
        BY DEF ListInv, HeardListed
    <2>3. server = Len(list_server) /\ Len(list_server) \in Nat
        BY <2>1 DEF LookupMiss, ListInv, ListTypeOK
    <2>4. i = server \/ i \in 1..server-1
        BY <2>3
    <2>5. QED
        BY <2>2, <2>4 DEF ListInv, PassedDiffer
<1>2. QED
    BY <1>1, ListInvariant, PTL DEF ClientSpec, KnownServerFound

\* A lookup that finds its id has passed every newer server without it.
THEOREM NewestAnswerFoundHolds == ClientSpec => NewestAnswerFound
<1> DEFINE Newest ==
        phase = "lookup" /\ phase' = "sweep" /\ list_server[server] = id
            => \A i \in 1..Len(list_server) : list_server[i] = id => server <= i
<1>1. ListInv /\ [ClientNext]_cvars => [Newest]_cvars
    <2> SUFFICES ASSUME ListInv, phase = "lookup",
                        NEW i \in 1..Len(list_server), list_server[i] = id
                 PROVE  server <= i
        OBVIOUS
    <2>1. server \in Nat /\ i \in Nat \ {0}
        BY DEF ListInv, ListTypeOK
    <2>2. i \notin 1..server-1
        BY DEF ListInv, PassedDiffer
    <2>3. QED
        BY <2>1, <2>2
<1>2. QED
    BY <1>1, ListInvariant, PTL DEF ClientSpec, NewestAnswerFound

-----------------------------------------------------------------------------
(* The read of server->xid before the test for NULL.                       *)

\* A lookup in a list that is not empty has a server under its cursor.
OnServer == phase = "lookup" /\ list_server # <<>> => server > 0

\* The kernel, the signals and the peers leave the list and the lookup alone.
LEMMA EnvironmentKeepsLookup ==
    ASSUME OnServer, AnsweredSafely,
           UNCHANGED listvars, phase' = "lookup" => phase = "lookup"
    PROVE  OnServer' /\ AnsweredSafely'
BY DEF OnServer, AnsweredSafely, listvars

LEMMA AnsweredStep ==
    ListInv /\ OnServer /\ AnsweredSafely /\ [ClientNext]_cvars
        => OnServer' /\ AnsweredSafely'
<1> SUFFICES ASSUME ListInv, OnServer, AnsweredSafely, [ClientNext]_cvars
             PROVE  OnServer' /\ AnsweredSafely'
    OBVIOUS
<1>1. CASE Program
    <2> USE DEF OnServer, AnsweredSafely
    <2>1. CASE Turn \/ ReplyMalformed \/ Timeouts
        BY <2>1, EnvironmentKeepsLookup DEF Turn, Control, Start, RestoreUdp, EnterSelect,
            SelectTimeout, SelectReady, ReadSignal, ReplyMalformed, Timeouts
    <2>2. CASE ReplySecond
        BY <1>1, <2>2 DEF Program, ReplySecond, NewServer, KeysRead, OutOfMemory
    <2>3. CASE ReplyOther
        BY <2>3 DEF ReplyOther
    <2>4. CASE LookupNull
        <3>1. list_server = <<>>
            BY <2>4 DEF LookupNull, LookupStep
        <3>2. heard = {}
            BY <3>1 DEF ListInv, HeardListed
        <3>3. QED
            BY <2>4, <3>1, <3>2 DEF LookupNull
    <2>5. CASE LookupHit \/ LookupMiss
        BY <2>5 DEF LookupHit, LookupMiss
    <2>6. CASE LookupAdvance
        BY <2>6 DEF LookupAdvance, ListInv, ListTypeOK
    <2>7. QED
        BY <1>1, <2>1, <2>2, <2>3, <2>4, <2>5, <2>6 DEF Program, Lookup
<1>2. ASSUME NEW s \in Raised, Signalled(s) PROVE OnServer' /\ AnsweredSafely'
    BY <1>2, EnvironmentKeepsLookup DEF Signalled, SignalStep, Raise, Catch, Wake, HandlerStep,
        Send, SendFails, loopvars
<1>3. CASE Packet \/ UNCHANGED cvars
    BY <1>3, EnvironmentKeepsLookup DEF Packet, Arrive, cvars, allvars, loopvars
<1>4. QED
    BY <1>1, <1>2, <1>3 DEF ClientNext

\* From the first answer of a server on the missing test for NULL is never
\* felt.
THEOREM AnsweredSafelyHolds == ClientSpec => []AnsweredSafely
<1>1. ClientInit => OnServer /\ AnsweredSafely
    BY DEF ClientInit, OnServer, AnsweredSafely
<1>2. QED
    BY <1>1, AnsweredStep, ListInvariant, PTL DEF ClientSpec

\* A lookup of the client gives up on unknown ids only, takes the newest of
\* those that match, and finds no list only before the first answer.
THEOREM ServerLookupExactHolds == ClientSpec => ServerLookupExact
BY KnownServerFoundHolds, NewestAnswerFoundHolds, AnsweredSafelyHolds, PTL
   DEF ServerLookupExact
=============================================================================
