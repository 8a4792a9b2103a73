---------------------------- MODULE PacketProof ----------------------------
(***************************************************************************)
(* Proofs about the codec, for every size of a byte, packet and value.     *)
(***************************************************************************)
EXTENDS Packet, TLAPS

USE PacketAssumption

-----------------------------------------------------------------------------
(* Chars.                                                                  *)

LEMMA ModRange ==
    ASSUME NEW n \in Int
    PROVE  n % BYTE \in 0..BYTE-1
OBVIOUS

LEMMA ModFixed ==
    ASSUME NEW b \in 0..BYTE-1
    PROVE  b % BYTE = b
OBVIOUS

\* Whatever is stored into a char is a char.
LEMMA ToCharIsChar ==
    ASSUME NEW n \in Int
    PROVE  ToChar(n) \in Char
<1> DEFINE b == n % BYTE
<1>1. b \in 0..BYTE-1
    BY ModRange
<1>2. ToChar(b) = ToChar(n)
    BY <1>1, ModFixed DEF ToChar
<1>3. QED
    BY <1>1, <1>2 DEF Char

LEMMA CharRange ==
    ASSUME NEW c \in Char
    PROVE  c \in Int /\ (~CharSigned => c \in 0..BYTE-1)
<1>1. PICK n \in 0..BYTE-1 : c = ToChar(n)
    BY DEF Char
<1>2. QED
    BY <1>1, ModFixed DEF ToChar

LEMMA PartIsSeq ==
    ASSUME NEW v \in Seq(Char), NEW padding \in Padding
    PROVE  Part(v, padding) \in Seq(Char)
<1>1. CASE padding = "ODD"
    <2>1. \A k \in 1..(Len(v)+1) \div 2 : v[2*k-1] \in Char
        OBVIOUS
    <2>2. QED
        BY <1>1, <2>1 DEF Part
<1>2. CASE padding = "EVEN"
    <2>1. \A k \in 1..Len(v) \div 2 : v[2*k] \in Char
        OBVIOUS
    <2>2. QED
        BY <1>2, <2>1 DEF Part
<1>3. CASE padding = "NORMAL"
    BY <1>3 DEF Part
<1>4. QED
    BY <1>1, <1>2, <1>3 DEF Padding

LEMMA OptionIsSeq ==
    ASSUME NEW id \in Char, NEW part \in Seq(Char)
    PROVE  /\ OptionChars(id, part) \in Seq(Char)
           /\ Len(OptionChars(id, part)) = 3 + Len(part)
<1> DEFINE mask == (BYTE-1) * BYTE
<1>0. ASSUME NEW m \in Int, m > 0, NEW n \in Nat PROVE n % m \in Int
    BY <1>0
<1>m. mask \in Int /\ mask > 0
    OBVIOUS
<1>1. Len(part) \in Nat /\ Len(part) % BYTE \in Int /\ Len(part) % mask \in Int
    BY <1>0, <1>m
<1>2. /\ LengthChars(Len(part)) \in Seq(Char)
      /\ Len(LengthChars(Len(part))) = 2
    BY <1>1, ToCharIsChar DEF LengthChars
<1>3. ASSUME NEW q \in Seq(Char), NEW r \in Seq(Char)
      PROVE  q \o r \in Seq(Char) /\ Len(q \o r) = Len(q) + Len(r)
    OBVIOUS
<1>4. <<id>> \in Seq(Char) /\ Len(<<id>>) = 1
    OBVIOUS
<1> DEFINE front == <<id>> \o LengthChars(Len(part))
<1>5. front \in Seq(Char) /\ Len(front) = 3
    <2> HIDE DEF mask
    <2>1. front \in Seq(Char) /\ Len(front) = Len(<<id>>) + Len(LengthChars(Len(part)))
        BY ONLY <1>2, <1>3, <1>4
    <2>2. QED
        BY <2>1, <1>2, <1>4
<1> HIDE DEF front
<1>6. front \o part \in Seq(Char) /\ Len(front \o part) = 3 + Len(part)
    BY <1>3, <1>5
<1>7. QED
    BY <1>6 DEF OptionChars, front

LEMMA StoredIsData ==
    ASSUME data \in [0..MaxData-1 -> Char], NEW n \in Int, NEW chars \in Seq(Char)
    PROVE  Stored(n, chars) \in [0..MaxData-1 -> Char]
BY DEF Stored

LEMMA PlaceInNat ==
    ASSUME NEW padding \in Padding, NEW j \in Nat
    PROVE  Place(padding, j) \in Nat
BY DEF Place, Padding

LEMMA ZeroIsChar == 0 \in Char
<1>1. 0 % BYTE = 0 /\ 0 \in 0..BYTE-1
    BY ModFixed
<1>2. ToChar(0) = 0
    BY <1>1 DEF ToChar
<1>3. QED
    BY <1>1, <1>2 DEF Char

-----------------------------------------------------------------------------
(* Type correctness.                                                       *)

\* The over memory test bounds the cursor from above, with signed chars too:
\* what the loop reads of an option is inside the packet unless the cursor went
\* in front of it.
CursorBound == stage = "seek" => cursor <= MaxData - 3

IInv == TypeOK /\ CursorBound

LEMMA InvInit == Init => IInv
<1> SUFFICES ASSUME Init PROVE IInv
    OBVIOUS
<1>1. data \in [0..MaxData-1 -> Char]
    BY ZeroIsChar DEF Init
<1>2. <<>> \in Seq([id : OptId, value : Value, padding : Padding, at : Nat])
    OBVIOUS
<1>3. PacketTypeOK
    BY <1>1, <1>2 DEF Init, PacketTypeOK
<1>4. SeekTypeOK
    BY DEF Init, SeekTypeOK, NoCall, Padding
<1>5. QED
    BY <1>3, <1>4 DEF Init, IInv, TypeOK, CursorBound

LEMMA InitHeader ==
    ASSUME NEW h \in Header
    PROVE  /\ ToChar(h.protocol) \in Char /\ ToChar(h.type) \in Char
           /\ ToChar(Masked(h.xid, 1)) \in Char
           /\ ToChar(Masked(h.xid, BYTE)) \in Char
           /\ ToChar(Masked(h.xid, BYTE * BYTE)) \in Char
           /\ ToChar(Masked(h.xid, BYTE * BYTE * BYTE)) \in Char
<1>1. h.protocol \in Nat /\ h.type \in Nat /\ h.xid \in Nat
    OBVIOUS
<1>2. ASSUME NEW w \in Int, w > 0 PROVE Masked(h.xid, w) \in Int
    BY <1>1, <1>2 DEF Masked
<1>3. /\ 1 \in Int /\ 1 > 0
      /\ BYTE \in Int /\ BYTE > 0
      /\ BYTE * BYTE \in Int /\ BYTE * BYTE > 0
    OBVIOUS
<1>4. BYTE * BYTE * BYTE \in Int /\ BYTE * BYTE * BYTE > 0
    BY <1>3
<1>5. QED
    BY <1>1, <1>2, <1>3, <1>4, ToCharIsChar

LEMMA ByteProduct ==
    ASSUME NEW c \in Int
    PROVE  c * BYTE \in Int
OBVIOUS

\* What the loop reads behind the cursor is a number.
LEMMA CursorReads ==
    ASSUME PacketTypeOK, CursorBound, stage = "seek", cursor \in Int, cursor >= 0
    PROVE  data[cursor+1] \in Int /\ data[cursor+2] \in Int
<1>1. cursor <= MaxData - 3
    BY DEF CursorBound
<1>2. cursor + 1 \in 0..MaxData-1 /\ cursor + 2 \in 0..MaxData-1
    BY <1>1
<1>3. data[cursor+1] \in Char /\ data[cursor+2] \in Char
    BY <1>2 DEF PacketTypeOK
<1>4. QED
    BY <1>3, CharRange

\* What is kept of the bytes and of the cursor, without the flags.
DataOK == PacketTypeOK /\ SeekTypeOK /\ CursorBound

\* Every call keeps the packet a packet of chars, and the cursor below the end.
LEMMA DataStep == DataOK /\ [Next]_vars => DataOK'
<1> SUFFICES ASSUME PacketTypeOK, SeekTypeOK, CursorBound, [Next]_vars PROVE DataOK'
    BY DEF DataOK
<1> USE DEF DataOK
<1>1. ASSUME NEW h \in Header, packet_init(h) PROVE DataOK'
    <2> DEFINE head == <<ToChar(h.protocol), ToChar(h.type),
                         ToChar(Masked(h.xid, 1)), ToChar(Masked(h.xid, BYTE)),
                         ToChar(Masked(h.xid, BYTE * BYTE)),
                         ToChar(Masked(h.xid, BYTE * BYTE * BYTE))>>
    <2>1. head \in Seq(Char)
        BY InitHeader
    <2>0. data' = Stored(0, head)
        BY <1>1 DEF packet_init
    <2> HIDE DEF head
    <2>2. data' \in [0..MaxData-1 -> Char]
        BY <2>0, <2>1, StoredIsData DEF PacketTypeOK
    <2>3. PacketTypeOK'
        BY <1>1, <2>2 DEF packet_init, PacketTypeOK, PACKET_POS_OPT_START
    <2>4. SeekTypeOK'
        BY <1>1 DEF packet_init, SeekTypeOK, seek
    <2>5. QED
        BY <1>1, <2>3, <2>4 DEF packet_init, CursorBound
<1>2. ASSUME NEW id \in OptId, NEW v \in Value, NEW padding \in Padding,
             packet_add(id, v, padding)
      PROVE  DataOK'
    <2> DEFINE option == OptionChars(id, Part(v, padding))
    <2>1. option \in Seq(Char) /\ Len(option) \in Nat
        BY PartIsSeq, OptionIsSeq
    <2> HIDE DEF option
    <2>2. data' = Stored(sz, option) /\ sz' = sz + Len(option)
        BY <1>2 DEF packet_add, option
    <2>3. data' \in [0..MaxData-1 -> Char] /\ sz' \in Nat
        BY <2>1, <2>2, StoredIsData DEF PacketTypeOK
    <2>4. added' \in Seq([id : OptId, value : Value, padding : Padding, at : Nat])
        BY <1>2 DEF packet_add, PacketTypeOK
    <2>5. PacketTypeOK'
        BY <1>2, <2>3, <2>4 DEF packet_add, PacketTypeOK
    <2>6. SeekTypeOK'
        BY <1>2 DEF packet_add, SeekTypeOK, seek
    <2>7. CursorBound'
        BY <1>2 DEF packet_add, CursorBound
    <2>8. QED
        BY <2>5, <2>6, <2>7
<1>3. CASE packet_close
    <2>1. <<ToChar(END)>> \in Seq(Char)
        BY ToCharIsChar DEF END
    <2>0. sz \in Int /\ data' = Stored(sz, <<ToChar(END)>>)
        BY <1>3 DEF packet_close, PacketTypeOK
    <2>2. data' \in [0..MaxData-1 -> Char]
        BY <2>0, <2>1, StoredIsData DEF PacketTypeOK
    <2>3. PacketTypeOK'
        BY <1>3, <2>2 DEF packet_close, PacketTypeOK
    <2>4. SeekTypeOK'
        BY <1>3 DEF packet_close, SeekTypeOK, seek
    <2>5. stage' = "closed"
        BY <1>3 DEF packet_close
    <2>6. QED
        BY <2>3, <2>4, <2>5 DEF CursorBound
<1>4. ASSUME NEW id \in OptId, NEW size \in Size, NEW padding \in Padding,
             BeginGet(id, size, padding)
      PROVE  DataOK'
    <2>1. size \in Nat
        BY DEF Size
    <2>2. SeekTypeOK'
        <3>1. /\ cursor' = PACKET_POS_OPT_START /\ gets' = gets + 1
              /\ call' = [id |-> id, size |-> size, padding |-> padding]
              /\ out' = out /\ result' = result
            BY <1>4 DEF BeginGet
        <3>2. call' \in [id : OptId \cup {0}, size : Nat, padding : Padding]
            BY <2>1, <3>1
        <3>3. cursor' \in Int /\ gets' \in Nat
            <4>1. gets \in Nat
                BY DEF SeekTypeOK
            <4>2. gets' \in Nat
                BY ONLY <3>1, <4>1
            <4>3. cursor' \in Int
                BY ONLY <3>1 DEF PACKET_POS_OPT_START
            <4>4. QED
                BY <4>2, <4>3
        <3>4. QED
            BY <3>1, <3>2, <3>3 DEF SeekTypeOK
    <2>3. PacketTypeOK'
        BY <1>4 DEF BeginGet, PacketTypeOK, packet
    <2>4. QED
        BY <1>4, <2>2, <2>3 DEF BeginGet, CursorBound, PACKET_POS_OPT_START
<1>5. CASE GetSkip
    <2>0. cursor \in Int /\ cursor >= 0 /\ stage = "seek"
        BY <1>5 DEF GetSkip, Passing, Seeking, SeekTypeOK
    <2>1. data[cursor+1] \in Int /\ data[cursor+2] \in Int
        BY <2>0, CursorReads
    <2>2. NextOption \in Int
        BY <2>0, <2>1, ByteProduct DEF NextOption
    <2>3. /\ cursor' = NextOption /\ ~(NextOption + 2 >= MaxData)
          /\ call' = call /\ out' = out /\ result' = result /\ gets' = gets
        BY <1>5 DEF GetSkip, Beyond
    <2>4. SeekTypeOK'
        BY <2>2, <2>3 DEF SeekTypeOK
    <2>5. CursorBound'
        BY <2>2, <2>3 DEF CursorBound
    <2>6. PacketTypeOK' /\ stage' = stage
        BY <1>5 DEF GetSkip, PacketTypeOK, packet
    <2>7. QED
        BY <2>4, <2>5, <2>6
<1>6. CASE GetBeyond \/ GetNotFound \/ GetWrongSize
    <2>1. PacketTypeOK' /\ SeekTypeOK'
        BY <1>6 DEF GetBeyond, GetNotFound, GetWrongSize, Finish, PacketTypeOK, SeekTypeOK,
            packet
    <2>2. QED
        BY <1>6, <2>1 DEF GetBeyond, GetNotFound, GetWrongSize, Finish, CursorBound
<1>7. CASE GetFound
    <2> DEFINE len == FoundLength
               from == cursor + 3
               placed == {Place(call.padding, j) : j \in 0..len-1}
    <2>0. cursor \in Int /\ cursor >= 0 /\ stage = "seek"
        BY <1>7 DEF GetFound, Seeking, SeekTypeOK
    <2>1. cursor \in Nat /\ cursor <= MaxData - 3
        BY <2>0 DEF CursorBound
    <2>2. data[cursor+1] \in Int /\ data[cursor+2] \in Int
        BY <2>0, CursorReads
    <2>3. len \in Int
        BY <2>2, ByteProduct DEF FoundLength
    <2> HIDE DEF len, from
    <2>4. DOMAIN out' \subseteq Nat /\ \A p \in DOMAIN out' : out'[p] \in Char
        <3>1. CASE fault'
            BY <1>7, <3>1 DEF GetFound, SeekTypeOK
        <3>2. CASE ~fault'
            <4>1. from + len <= MaxData
                <5>1. fault' = \/ from + len > MaxData
                               \/ call.padding = "NORMAL" /\ len < 0
                    BY <1>7 DEF GetFound, from, len
                <5>2. ~(from + len > MaxData)
                    BY <3>2, <5>1
                <5>3. from \in Int
                    BY <2>0 DEF from
                <5>4. QED
                    BY <2>3, <5>2, <5>3
            <4>2. \A j \in 0..len-1 : data[from + j] \in Char
                <5>1. from \in Nat
                    BY <2>1 DEF from
                <5>2. \A j \in 0..len-1 : from + j \in 0..MaxData-1
                    BY <2>3, <4>1, <5>1
                <5>3. QED
                    BY <5>2 DEF PacketTypeOK
            <4>3. placed \subseteq Nat
                <5>1. call.padding \in Padding
                    BY DEF SeekTypeOK
                <5>2. 0..len-1 \subseteq Nat
                    BY <2>3
                <5>3. QED
                    BY <5>1, <5>2, PlaceInNat
            <4>4. out' = Copied(from, len, call.padding)
                BY <1>7, <3>2 DEF GetFound, from, len
            <4>5. ASSUME NEW p \in placed
                  PROVE  (CHOOSE j \in 0..len-1 : Place(call.padding, j) = p) \in 0..len-1
                OBVIOUS
            <4>6. QED
                BY <4>2, <4>3, <4>4, <4>5 DEF Copied, SeekTypeOK
        <3>3. QED
            BY <3>1, <3>2
    <2>5. SeekTypeOK'
        BY <1>7, <2>4 DEF GetFound, Finish, SeekTypeOK
    <2>6. PacketTypeOK'
        BY <1>7 DEF GetFound, Finish, PacketTypeOK, packet
    <2>7. stage' = "closed"
        BY <1>7 DEF GetFound, Finish
    <2>8. QED
        BY <2>5, <2>6, <2>7 DEF CursorBound
<1>8. CASE GetOutside
    BY <1>8 DEF GetOutside, PacketTypeOK, SeekTypeOK, CursorBound, packet, seek
<1>9. CASE UNCHANGED vars
    BY <1>9 DEF vars, PacketTypeOK, SeekTypeOK, CursorBound, packet, seek
<1>10. QED
    BY <1>1, <1>2, <1>3, <1>4, <1>5, <1>6, <1>7, <1>8, <1>9 DEF Next, packet_get

LEMMA FlagsStep ==
    ASSUME stage \in {"blank", "open", "closed", "seek"}, fault \in BOOLEAN, [Next]_vars
    PROVE  stage' \in {"blank", "open", "closed", "seek"} /\ fault' \in BOOLEAN
<1>1. ASSUME NEW h \in Header, packet_init(h)
      PROVE  stage' = "open" /\ fault' = fault
    BY <1>1 DEF packet_init
<1>2. ASSUME NEW id \in OptId, NEW v \in Value, NEW padding \in Padding,
             packet_add(id, v, padding)
      PROVE  stage' = stage /\ fault' \in BOOLEAN
    BY <1>2 DEF packet_add
<1>3. packet_close => stage' = "closed" /\ fault' \in BOOLEAN
    BY DEF packet_close
<1>4. ASSUME NEW id \in OptId, NEW size \in Size, NEW padding \in Padding,
             BeginGet(id, size, padding)
      PROVE  stage' = "seek" /\ fault' = fault
    BY <1>4 DEF BeginGet
<1>5. GetSkip => stage' = stage /\ fault' = fault
    BY DEF GetSkip
<1>6. GetBeyond \/ GetNotFound \/ GetWrongSize => stage' = "closed" /\ fault' = fault
    BY DEF GetBeyond, GetNotFound, GetWrongSize, Finish
<1>7. GetFound => stage' = "closed" /\ fault' \in BOOLEAN
    BY DEF GetFound, Finish
<1>8. GetOutside => stage' = stage /\ fault' = TRUE
    BY DEF GetOutside
<1>9. UNCHANGED vars => stage' = stage /\ fault' = fault
    BY DEF vars
<1>10. QED
    BY <1>1, <1>2, <1>3, <1>4, <1>5, <1>6, <1>7, <1>8, <1>9 DEF Next, packet_get

LEMMA InvStep == IInv /\ [Next]_vars => IInv'
BY DataStep, FlagsStep DEF IInv, TypeOK, DataOK

\* Type correctness of the codec.
THEOREM TypeCorrect == Spec => []TypeOK
<1>1. IInv => TypeOK
    BY DEF IInv
<1>2. QED
    BY <1>1, InvInit, InvStep, PTL DEF Spec

-----------------------------------------------------------------------------
(* The seek.                                                               *)

\* Where chars are unsigned, the next option begins behind this one.
LEMMA SeekForward ==
    ASSUME ~CharSigned, PacketTypeOK, CursorBound, stage = "seek", cursor \in Nat
    PROVE  NextOption \in Nat /\ NextOption >= cursor + 3
<1>1. cursor <= MaxData - 3
    BY DEF CursorBound
<1>2. cursor + 1 \in 0..MaxData-1 /\ cursor + 2 \in 0..MaxData-1
    BY <1>1
<1>3. data[cursor+1] \in Char /\ data[cursor+2] \in Char
    BY <1>2 DEF PacketTypeOK
<1>4. data[cursor+1] \in 0..BYTE-1 /\ data[cursor+2] \in 0..BYTE-1
    BY <1>3, CharRange
<1>5. \A c \in 0..BYTE-1 : c * BYTE \in Nat
    OBVIOUS
<1>6. data[cursor+2] * BYTE \in Nat
    BY <1>4, <1>5
<1>7. ASSUME NEW a \in Nat, NEW b \in Nat
      PROVE  cursor + 3 + a + b \in Nat /\ cursor + 3 + a + b >= cursor + 3
    OBVIOUS
<1>8. data[cursor+1] \in Nat
    BY <1>4
<1>9. cursor + 3 + data[cursor+1] + data[cursor+2] * BYTE \in Nat
      /\ cursor + 3 + data[cursor+1] + data[cursor+2] * BYTE >= cursor + 3
    <2> DEFINE hi == data[cursor+2] * BYTE
    <2>1. hi \in Nat
        BY <1>6
    <2> HIDE DEF hi
    <2>2. cursor + 3 + data[cursor+1] + hi \in Nat
          /\ cursor + 3 + data[cursor+1] + hi >= cursor + 3
        BY <1>7, <1>8, <2>1
    <2>3. QED
        BY <2>2 DEF hi
<1>10. QED
    BY <1>9 DEF NextOption

\* Where chars are unsigned, packet_get reads ids and lengths inside the packet,
\* whatever bytes the packet holds.
THEOREM SeekInsideHolds == ~CharSigned => (Spec => []SeekInside)
<1> SUFFICES ASSUME ~CharSigned PROVE Spec => []SeekInside
    OBVIOUS
<1>1. Init => SeekInside
    BY DEF Init, SeekInside
<1>2. IInv /\ SeekInside /\ [Next]_vars => SeekInside'
    <2> SUFFICES ASSUME PacketTypeOK, CursorBound, SeekInside, [Next]_vars PROVE SeekInside'
        BY DEF IInv, TypeOK
    <2>1. ASSUME NEW h \in Header, packet_init(h) PROVE SeekInside'
        BY <2>1 DEF packet_init, SeekInside
    <2>2. ASSUME NEW id \in OptId, NEW v \in Value, NEW padding \in Padding,
                 packet_add(id, v, padding)
          PROVE  SeekInside'
        BY <2>2 DEF packet_add, SeekInside
    <2>3. ASSUME NEW id \in OptId, NEW size \in Size, NEW padding \in Padding,
                 BeginGet(id, size, padding)
          PROVE  SeekInside'
        <3>1. cursor' = PACKET_POS_OPT_START
            BY <2>3 DEF BeginGet
        <3>2. QED
            BY <3>1 DEF SeekInside, PACKET_POS_OPT_START
    <2>4. CASE GetSkip
        <3>1. stage = "seek" /\ cursor' = NextOption /\ ~(NextOption + 2 >= MaxData)
            BY <2>4 DEF GetSkip, Passing, Seeking, Beyond
        <3>2. cursor \in Nat
            BY <3>1 DEF SeekInside
        <3>3. NextOption \in Nat
            BY <3>1, <3>2, SeekForward
        <3>4. QED
            BY <3>1, <3>3 DEF SeekInside
    <2>5. CASE packet_close \/ GetBeyond \/ GetNotFound \/ GetWrongSize \/ GetFound
        <3>1. stage' = "closed"
            BY <2>5 DEF packet_close, GetBeyond, GetNotFound, GetWrongSize, GetFound, Finish
        <3>2. QED
            BY <3>1 DEF SeekInside
    <2>6. CASE GetOutside \/ UNCHANGED vars
        <3>1. stage' = stage /\ cursor' = cursor
            BY <2>6 DEF GetOutside, vars, seek
        <3>2. QED
            BY <3>1 DEF SeekInside
    <2>7. QED
        BY <2>1, <2>2, <2>3, <2>4, <2>5, <2>6 DEF Next, packet_get
<1>3. QED
    BY <1>1, <1>2, InvInit, InvStep, PTL DEF Spec

\* While a packet_get goes on it only goes forward.
LEMMA SeekTurn ==
    ASSUME ~CharSigned, IInv, SeekInside, Next, stage = "seek", stage' = "seek"
    PROVE  cursor' >= cursor + 3
<1>1. cursor \in Nat /\ PacketTypeOK /\ CursorBound
    BY DEF SeekInside, IInv, TypeOK
<1>2. GetSkip
    BY <1>1 DEF Next, packet_init, packet_add, packet_close, BeginGet, packet_get, GetBeyond,
        GetNotFound, GetWrongSize, GetFound, GetOutside, Finish
<1>3. QED
    BY <1>1, <1>2, SeekForward DEF GetSkip

\* Where chars are unsigned a packet_get takes no more turns than the packet has
\* room for options: the measure that goes down until it returns.
THEOREM SeekAdvancesHolds == ~CharSigned => (Spec => SeekAdvances)
<1> SUFFICES ASSUME ~CharSigned PROVE Spec => SeekAdvances
    OBVIOUS
<1> DEFINE Advances == stage = "seek" /\ stage' = "seek" => cursor' >= cursor + 3
<1>1. IInv /\ SeekInside /\ [Next]_vars => [Advances]_vars
    BY SeekTurn
<1>2. Spec => []SeekInside
    BY SeekInsideHolds
<1>3. QED
    BY <1>1, <1>2, InvInit, InvStep, PTL DEF Spec, SeekAdvances

LEMMA ElementOf ==
    ASSUME NEW S, NEW q \in Seq(S), NEW j \in 1..Len(q)
    PROVE  q[j] \in S
OBVIOUS

-----------------------------------------------------------------------------
(* The header.                                                             *)

\* The header bytes packet_xid and its like read, as packet_init wrote them.
HeadBytes ==
    stage # "blank" =>
        /\ sz >= PACKET_POS_OPT_START
        /\ data[0] = ToChar(header.protocol) /\ data[1] = ToChar(header.type)
        /\ data[2] = ToChar(Masked(header.xid, 1))
        /\ data[3] = ToChar(Masked(header.xid, BYTE))

LEMMA StoredBehind ==
    ASSUME NEW n \in Nat, n >= PACKET_POS_OPT_START, NEW chars \in Seq(Char),
           NEW k \in 0..3
    PROVE  Stored(n, chars)[k] = data[k]
BY DEF Stored, PACKET_POS_OPT_START

\* Of an xid that was taken apart only the low byte is left.
LEMMA XidLeft ==
    ASSUME NEW x \in Nat
    PROVE  ToChar(Masked(x, 1)) + ToChar(Masked(x, BYTE)) * BYTE = ToChar(x)
<1> DEFINE high == (x \div BYTE) % BYTE
<1>1. x \in Int /\ x % BYTE \in 0..BYTE-1 /\ high \in Int
    <2>1. x \div BYTE \in Int
        OBVIOUS
    <2>2. QED
        BY <2>1, ModRange
<1>2. Masked(x, 1) = x % BYTE
    <2>1. x \div 1 = x /\ (x % BYTE) * 1 = x % BYTE
        BY <1>1
    <2>2. QED
        BY <2>1 DEF Masked
<1>3. ToChar(x % BYTE) = ToChar(x)
    BY <1>1, ModFixed DEF ToChar
<1> HIDE DEF high
<1>4. ToChar(high * BYTE) = 0
    <2>1. (high * BYTE) % BYTE = 0
        BY <1>1
    <2>2. QED
        BY <2>1 DEF ToChar
<1>5. Masked(x, BYTE) = high * BYTE
    BY DEF Masked, high
<1>6. ToChar(x) \in Int
    BY <1>1, ToCharIsChar, CharRange
<1>7. QED
    BY <1>2, <1>3, <1>4, <1>5, <1>6

LEMMA HeadStep == IInv /\ HeadBytes /\ [Next]_vars => HeadBytes'
<1> SUFFICES ASSUME PacketTypeOK, HeadBytes, [Next]_vars PROVE HeadBytes'
    BY DEF IInv, TypeOK
<1>1. ASSUME NEW h \in Header, packet_init(h) PROVE HeadBytes'
    <2> DEFINE head == <<ToChar(h.protocol), ToChar(h.type),
                         ToChar(Masked(h.xid, 1)), ToChar(Masked(h.xid, BYTE)),
                         ToChar(Masked(h.xid, BYTE * BYTE)),
                         ToChar(Masked(h.xid, BYTE * BYTE * BYTE))>>
    <2>1. data' = Stored(0, head) /\ sz' = PACKET_POS_OPT_START /\ header' = h
        BY <1>1 DEF packet_init
    <2>2. /\ Len(head) = 6
          /\ head[1] = ToChar(h.protocol) /\ head[2] = ToChar(h.type)
          /\ head[3] = ToChar(Masked(h.xid, 1)) /\ head[4] = ToChar(Masked(h.xid, BYTE))
        OBVIOUS
    <2> HIDE DEF head
    <2>3. \A k \in 0..3 : Stored(0, head)[k] = head[k+1]
        BY <2>2 DEF Stored, PACKET_POS_OPT_START
    <2>4. /\ data'[0] = head[1] /\ data'[1] = head[2]
          /\ data'[2] = head[3] /\ data'[3] = head[4]
        BY <2>1, <2>3
    <2>5. QED
        BY <2>1, <2>2, <2>4 DEF HeadBytes, PACKET_POS_OPT_START
<1>2. ASSUME stage # "blank", stage' # "blank", header' = header,
             NEW chars \in Seq(Char), data' = Stored(sz, chars), sz' = sz + Len(chars)
      PROVE  HeadBytes'
    <2>1. sz \in Nat /\ sz >= PACKET_POS_OPT_START
        BY <1>2 DEF HeadBytes, PacketTypeOK
    <2>2. /\ data'[0] = data[0] /\ data'[1] = data[1]
          /\ data'[2] = data[2] /\ data'[3] = data[3]
        BY <1>2, <2>1, StoredBehind
    <2>3. Len(chars) \in Nat
        OBVIOUS
    <2>4. sz' >= PACKET_POS_OPT_START
        BY <1>2, <2>1, <2>3 DEF PACKET_POS_OPT_START
    <2>5. QED
        BY <1>2, <2>2, <2>4 DEF HeadBytes
<1>3. ASSUME NEW id \in OptId, NEW v \in Value, NEW padding \in Padding,
             packet_add(id, v, padding)
      PROVE  HeadBytes'
    <2> DEFINE option == OptionChars(id, Part(v, padding))
    <2>1. option \in Seq(Char)
        BY PartIsSeq, OptionIsSeq
    <2> HIDE DEF option
    <2>2. /\ data' = Stored(sz, option) /\ sz' = sz + Len(option)
          /\ stage = "open" /\ stage' = stage /\ header' = header
        BY <1>3 DEF packet_add, option
    <2>3. QED
        BY <1>2, <2>1, <2>2
<1>4. CASE packet_close
    <2>1. <<ToChar(END)>> \in Seq(Char) /\ Len(<<ToChar(END)>>) = 1
        BY ToCharIsChar DEF END
    <2>2. /\ data' = Stored(sz, <<ToChar(END)>>) /\ sz' = sz + 1
          /\ stage = "open" /\ stage' = "closed" /\ header' = header
        BY <1>4 DEF packet_close
    <2>3. QED
        BY <1>2, <2>1, <2>2
<1>5. ASSUME NEW id \in OptId, NEW size \in Size, NEW padding \in Padding,
             BeginGet(id, size, padding)
      PROVE  HeadBytes'
    BY <1>5 DEF BeginGet, HeadBytes, packet
<1>6. CASE GetSkip \/ GetOutside \/ UNCHANGED vars
    BY <1>6 DEF GetSkip, GetOutside, HeadBytes, vars, packet
<1>7. CASE GetBeyond \/ GetNotFound \/ GetWrongSize \/ GetFound
    <2>1. stage # "blank" /\ UNCHANGED packet
        BY <1>7 DEF GetBeyond, GetNotFound, GetWrongSize, GetFound, Passing, Seeking, Finish
    <2>2. QED
        BY <2>1 DEF HeadBytes, packet
<1>8. QED
    BY <1>1, <1>3, <1>4, <1>5, <1>6, <1>7 DEF Next, packet_get

\* No option and no end tag is ever written over the header: protocol, type and
\* the low byte of the xid read as packet_init was given them, for every xid and
\* every size of a byte.
THEOREM HeaderKeptHolds == Spec => []HeaderKept
<1>1. Init => HeadBytes
    BY DEF Init, HeadBytes
<1>2. IInv /\ HeadBytes => HeaderKept
    <2> SUFFICES ASSUME PacketTypeOK, HeadBytes PROVE HeaderKept
        BY DEF IInv, TypeOK
    <2>1. header.xid \in Nat
        BY DEF PacketTypeOK
    <2>2. QED
        BY <2>1, XidLeft
           DEF HeadBytes, HeaderKept, packet_protocol, packet_type, packet_xid
<1>3. QED
    BY <1>1, <1>2, HeadStep, InvInit, InvStep, PTL DEF Spec

-----------------------------------------------------------------------------
(* The layout of the options.                                              *)

\* What packet_add stores as the second byte of a length.
SecondByte(n) == ToChar(n % ((BYTE-1) * BYTE))

\* The j-th option of a packet, byte by byte, and where it lies.
OptionLaid(j) ==
    LET part == PartOf(added[j])
        at   == added[j].at
    IN  /\ at >= PACKET_POS_OPT_START /\ OptionEnd(added[j]) <= OptionsEnd(added)
        /\ at = IF j = 1 THEN PACKET_POS_OPT_START ELSE OptionEnd(added[j-1])
        /\ data[at] = added[j].id
        /\ data[at+1] = ToChar(Len(part))
        /\ data[at+2] = SecondByte(Len(part))
        /\ \A k \in 1..Len(part) : data[at+2+k] = part[k]

LayInv ==
    ~fault =>
        /\ stage = "blank" => added = <<>>
        /\ stage = "open" => sz = OptionsEnd(added)
        /\ stage \in {"closed", "seek"} =>
              sz = OptionsEnd(added) + 1 /\ data[sz-1] = ToChar(END)
        /\ stage # "blank" => sz >= PACKET_POS_OPT_START /\ sz <= MaxData
        /\ \A j \in 1..Len(added) : OptionLaid(j)

\* The two bytes of a length.
LEMMA LengthBytes ==
    ASSUME NEW n \in Nat
    PROVE  /\ ToChar(n % BYTE) \in Char /\ SecondByte(n) \in Char
           /\ ToChar(n % BYTE) = ToChar(n)
           /\ n < (BYTE-1) * BYTE => SecondByte(n) = ToChar(n)
<1> DEFINE mask == (BYTE-1) * BYTE
<1>0. n \in Int
    OBVIOUS
<1>1. n % BYTE \in 0..BYTE-1
    BY <1>0, ModRange
<1>2. ToChar(n % BYTE) = ToChar(n)
    BY <1>1, ModFixed DEF ToChar
<1>3. mask > 0 /\ mask \in Int
    OBVIOUS
<1>4. ASSUME NEW m \in Int, m > 0 PROVE n % m \in Int /\ (n < m => n % m = n)
    BY <1>4
<1>5. SecondByte(n) = ToChar(n % mask)
    BY DEF SecondByte
<1> HIDE DEF mask
<1>6. n % mask \in Int /\ (n < mask => n % mask = n)
    BY <1>3, <1>4
<1>7. n < mask => SecondByte(n) = ToChar(n)
    BY <1>5, <1>6
<1>8. ToChar(n % BYTE) \in Char /\ SecondByte(n) \in Char
    BY <1>1, <1>5, <1>6, ToCharIsChar
<1>9. QED
    BY <1>2, <1>7, <1>8 DEF mask

LEMMA Joined ==
    ASSUME NEW q \in Seq(Char), NEW r \in Seq(Char)
    PROVE  /\ q \o r \in Seq(Char) /\ Len(q \o r) = Len(q) + Len(r)
           /\ \A k \in 1..Len(q) : (q \o r)[k] = q[k]
           /\ \A k \in 1..Len(r) : (q \o r)[Len(q) + k] = r[k]
OBVIOUS

\* Byte by byte, what packet_add stores.
LEMMA OptionContents ==
    ASSUME NEW id \in Char, NEW part \in Seq(Char)
    PROVE  LET option == OptionChars(id, part)
           IN  /\ option[1] = id
               /\ option[2] = ToChar(Len(part))
               /\ option[3] = SecondByte(Len(part))
               /\ \A k \in 1..Len(part) : option[3+k] = part[k]
<1> DEFINE one == ToChar(Len(part) % BYTE)
           two == SecondByte(Len(part))
<1>1. Len(part) \in Nat
    OBVIOUS
<1>2. /\ one \in Char /\ two \in Char
      /\ one = ToChar(Len(part))
    BY <1>1, LengthBytes
<1> HIDE DEF one, two
<1>4. OptionChars(id, part) = (<<id>> \o <<one, two>>) \o part
    BY DEF OptionChars, LengthChars, SecondByte, one, two
<1>5. /\ <<id>> \in Seq(Char) /\ Len(<<id>>) = 1 /\ <<id>>[1] = id
      /\ <<one, two>> \in Seq(Char) /\ Len(<<one, two>>) = 2
      /\ <<one, two>>[1] = one /\ <<one, two>>[2] = two
    BY <1>2
<1> DEFINE front == <<id>> \o <<one, two>>
<1>6. /\ front \in Seq(Char) /\ Len(front) = 3
      /\ front[1] = id /\ front[1+1] = one /\ front[1+2] = two
    BY <1>5, Joined
<1> HIDE DEF front
<1>7. /\ (front \o part)[1] = id /\ (front \o part)[2] = one /\ (front \o part)[3] = two
      /\ \A k \in 1..Len(part) : (front \o part)[3+k] = part[k]
    <2>1. /\ \A k \in 1..Len(front) : (front \o part)[k] = front[k]
          /\ \A k \in 1..Len(part) : (front \o part)[Len(front)+k] = part[k]
        <3>1. front \in Seq(Char) /\ part \in Seq(Char)
            BY <1>6
        <3>2. QED
            BY ONLY <3>1, Joined
    <2>2. front[2] = one /\ front[3] = two /\ front[1] = id /\ Len(front) = 3
        BY <1>6
    <2>3. 1 \in 1..Len(front) /\ 2 \in 1..Len(front) /\ 3 \in 1..Len(front)
        BY <2>2
    <2>4. QED
        BY <2>1, <2>2, <2>3
<1>8. QED
    BY <1>2, <1>4, <1>7 DEF front, two

LEMMA StoredAt ==
    ASSUME NEW n \in Nat, NEW chars \in Seq(Char), n + Len(chars) <= MaxData
    PROVE  /\ \A k \in 0..n-1 : Stored(n, chars)[k] = data[k]
           /\ \A k \in 0..Len(chars)-1 : Stored(n, chars)[n+k] = chars[k+1]
BY DEF Stored

\* An option lies behind the header and in front of what is stored next.
LEMMA LaidBelow ==
    ASSUME NEW j \in 1..Len(added), OptionLaid(j), PacketTypeOK
    PROVE  LET o == added[j]
               part == PartOf(o)
           IN  /\ o \in [id : OptId, value : Value, padding : Padding, at : Nat]
               /\ part \in Seq(Char)
               /\ o.at + 3 + Len(part) <= OptionsEnd(added)
<1>1. added[j] \in [id : OptId, value : Value, padding : Padding, at : Nat]
    BY ElementOf DEF PacketTypeOK
<1>2. PartOf(added[j]) \in Seq(Char)
    BY <1>1, PartIsSeq DEF PartOf
<1>3. QED
    BY <1>1, <1>2 DEF OptionLaid, OptionEnd

LEMMA SameStretch ==
    ASSUME NEW n \in Nat, \A k \in 0..n-1 : data'[k] = data[k],
           NEW a \in Nat, NEW m \in Nat, a + 3 + m <= n
    PROVE  /\ data'[a] = data[a] /\ data'[a+1] = data[a+1] /\ data'[a+2] = data[a+2]
           /\ \A k \in 1..m : data'[a+2+k] = data[a+2+k]
OBVIOUS

\* What is stored behind an option leaves it as it is.
LEMMA LaidStays ==
    ASSUME PacketTypeOK, NEW j \in 1..Len(added), OptionLaid(j),
           j \in 1..Len(added'), added'[j] = added[j],
           j > 1 => added'[j-1] = added[j-1],
           OptionsEnd(added) <= OptionsEnd(added'),
           OptionsEnd(added) \in Nat, OptionsEnd(added') \in Nat,
           \A k \in 0..OptionsEnd(added)-1 : data'[k] = data[k]
    PROVE  OptionLaid(j)'
<1> DEFINE o == added[j]
           part == PartOf(o)
<1>1. /\ o \in [id : OptId, value : Value, padding : Padding, at : Nat]
      /\ part \in Seq(Char)
      /\ o.at + 3 + Len(part) <= OptionsEnd(added)
    BY LaidBelow
<1>2. o.at \in Nat /\ Len(part) \in Nat
    BY <1>1
<1>3. added'[j] = o /\ PartOf(added'[j]) = part
    OBVIOUS
<1>4. OptionEnd(added'[j]) = OptionEnd(added[j]) /\ OptionEnd(added[j]) \in Nat
    BY <1>1, <1>2 DEF OptionEnd
<1>5. /\ data'[o.at] = data[o.at] /\ data'[o.at+1] = data[o.at+1]
      /\ data'[o.at+2] = data[o.at+2]
      /\ \A k \in 1..Len(part) : data'[o.at+2+k] = data[o.at+2+k]
    <2> DEFINE n == OptionsEnd(added)
               a == o.at
               m == Len(part)
    <2>1. /\ n \in Nat /\ a \in Nat /\ m \in Nat /\ a + 3 + m <= n
          /\ \A k \in 0..n-1 : data'[k] = data[k]
        BY <1>1, <1>2
    <2> HIDE DEF n, a, m
    <2>2. /\ data'[a] = data[a] /\ data'[a+1] = data[a+1] /\ data'[a+2] = data[a+2]
          /\ \A k \in 1..m : data'[a+2+k] = data[a+2+k]
        BY <2>1, SameStretch
    <2>3. QED
        BY <2>2 DEF a, m
<1>6. /\ o.at >= PACKET_POS_OPT_START
      /\ o.at = IF j = 1 THEN PACKET_POS_OPT_START ELSE OptionEnd(added[j-1])
      /\ OptionEnd(o) <= OptionsEnd(added)
      /\ data[o.at] = o.id /\ data[o.at+1] = ToChar(Len(part))
      /\ data[o.at+2] = SecondByte(Len(part))
      /\ \A k \in 1..Len(part) : data[o.at+2+k] = part[k]
    BY DEF OptionLaid
<1>7. OptionEnd(added'[j]) <= OptionsEnd(added')
    BY <1>4, <1>6
<1>8. o.at = IF j = 1 THEN PACKET_POS_OPT_START ELSE OptionEnd(added'[j-1])
    BY <1>6
<1>9. /\ data'[o.at] = o.id /\ data'[o.at+1] = ToChar(Len(part))
      /\ data'[o.at+2] = SecondByte(Len(part))
      /\ \A k \in 1..Len(part) : data'[o.at+2+k] = part[k]
    BY <1>5, <1>6
<1> HIDE DEF part
<1>10. QED
    BY <1>3, <1>6, <1>7, <1>8, <1>9 DEF OptionLaid
LEMMA Appended ==
    ASSUME NEW S, NEW q \in Seq(S), NEW e \in S
    PROVE  LET r == Append(q, e)
           IN  /\ Len(r) = Len(q) + 1 /\ r # <<>> /\ r[Len(q)+1] = e
               /\ \A j \in 1..Len(q) : r[j] = q[j]
OBVIOUS

\* packet_add puts its option behind the others, as LayoutExact has it.
LEMMA LaidByAdd ==
    ASSUME IInv, LayInv, NEW id \in OptId, NEW v \in Value, NEW padding \in Padding,
           packet_add(id, v, padding)
    PROVE  LayInv'
<1> DEFINE part == Part(v, padding)
           option == OptionChars(id, part)
           o == [id |-> id, value |-> v, padding |-> padding, at |-> sz]
           n == Len(added)
<1> SUFFICES ASSUME ~fault' PROVE LayInv'
    BY DEF LayInv
<1>0. PacketTypeOK /\ id \in Char
    BY DEF IInv, TypeOK
<1>1. /\ part \in Seq(Char) /\ Len(part) \in Nat
      /\ option \in Seq(Char) /\ Len(option) = 3 + Len(part)
    BY PartIsSeq, OptionIsSeq
<1>2. /\ option[1] = id /\ option[2] = ToChar(Len(part))
      /\ option[3] = SecondByte(Len(part))
      /\ \A k \in 1..Len(part) : option[3+k] = part[k]
    BY <1>0, <1>1, OptionContents
<1>3. /\ added' = Append(added, o) /\ data' = Stored(sz, option)
      /\ sz' = sz + Len(option) /\ sz + Len(option) <= MaxData
      /\ stage = "open" /\ stage' = "open" /\ ~fault
    BY DEF packet_add
<1>4. /\ sz \in Nat /\ sz = OptionsEnd(added) /\ sz >= PACKET_POS_OPT_START
      /\ \A j \in 1..n : OptionLaid(j)
      /\ n \in Nat
    BY <1>0, <1>3 DEF LayInv, PacketTypeOK
<1>5. /\ Len(added') = n + 1 /\ added' # <<>> /\ added'[n+1] = o
      /\ \A j \in 1..n : added'[j] = added[j]
    <2> DEFINE S == [id : OptId, value : Value, padding : Padding, at : Nat]
    <2>1. added \in Seq(S) /\ o \in S
        BY <1>0, <1>4 DEF PacketTypeOK
    <2> HIDE DEF S, o
    <2>2. QED
        BY <1>3, <2>1, Appended
<1>6. /\ o.at = sz /\ o.id = id /\ PartOf(o) = part
      /\ OptionEnd(o) = sz + 3 + Len(part)
    BY DEF OptionEnd, PartOf
<1> HIDE DEF part, option, o, n
<1>7. OptionsEnd(added') = sz' /\ sz' = sz + 3 + Len(part)
    <2>1. added'[Len(added')] = o
        BY <1>5
    <2>2. OptionsEnd(added') = OptionEnd(o)
        BY <1>5, <2>1 DEF OptionsEnd
    <2>3. QED
        BY <1>1, <1>3, <1>4, <1>6, <2>2
<1>8. /\ \A k \in 0..sz-1 : data'[k] = data[k]
      /\ \A k \in 0..Len(option)-1 : data'[sz+k] = option[k+1]
    BY <1>1, <1>3, <1>4, StoredAt
<1>9. ASSUME NEW j \in 1..n PROVE OptionLaid(j)'
    <2>1. /\ j \in 1..Len(added) /\ j \in 1..Len(added')
          /\ added'[j] = added[j] /\ (j > 1 => added'[j-1] = added[j-1])
        BY <1>4, <1>5 DEF n
    <2>2. /\ OptionsEnd(added) \in Nat /\ OptionsEnd(added') \in Nat
          /\ OptionsEnd(added) <= OptionsEnd(added')
        BY <1>1, <1>4, <1>7
    <2>3. \A k \in 0..OptionsEnd(added)-1 : data'[k] = data[k]
        BY <1>4, <1>8
    <2>4. QED
        BY <1>0, <1>4, <2>1, <2>2, <2>3, LaidStays
<1>10. ASSUME NEW j \in {n+1} PROVE OptionLaid(j)'
    <2>1. /\ data'[sz] = option[1] /\ data'[sz+1] = option[2] /\ data'[sz+2] = option[3]
          /\ \A k \in 1..Len(part) : data'[sz+2+k] = option[3+k]
        <3>0. 0 \in 0..Len(option)-1 /\ 1 \in 0..Len(option)-1 /\ 2 \in 0..Len(option)-1
            BY <1>1
        <3>1. /\ data'[sz+0] = option[0+1] /\ data'[sz+1] = option[1+1]
              /\ data'[sz+2] = option[2+1]
            BY <1>8, <3>0
        <3>2. ASSUME NEW k \in 1..Len(part) PROVE data'[sz+2+k] = option[3+k]
            <4>1. 2+k \in 0..Len(option)-1 /\ sz+(2+k) = sz+2+k /\ (2+k)+1 = 3+k
                BY <1>1, <1>4
            <4>2. data'[sz+(2+k)] = option[(2+k)+1]
                BY <1>8, <4>1
            <4>3. QED
                BY <4>1, <4>2
        <3>3. sz + 0 = sz
            BY <1>4
        <3>4. QED
            BY <3>1, <3>2, <3>3
    <2>2. sz = IF n+1 = 1 THEN PACKET_POS_OPT_START ELSE OptionEnd(added'[n])
        <3>1. CASE n = 0
            BY <1>0, <1>4, <3>1 DEF OptionsEnd, n, PacketTypeOK
        <3>2. CASE n # 0
            <4>1. n \in 1..n /\ n+1 # 1 /\ added # <<>>
                BY <1>4, <3>2 DEF n
            <4>2. QED
                BY <1>4, <1>5, <4>1 DEF OptionsEnd, n
        <3>3. QED
            BY <3>1, <3>2
    <2>3. (n+1)-1 = n /\ OptionEnd(o) <= OptionsEnd(added')
        BY <1>1, <1>4, <1>6, <1>7
    <2>4. /\ o.at >= PACKET_POS_OPT_START /\ OptionEnd(o) <= OptionsEnd(added')
          /\ o.at = IF j = 1 THEN PACKET_POS_OPT_START ELSE OptionEnd(added'[j-1])
        BY <1>4, <1>6, <2>2, <2>3
    <2>5. /\ data'[o.at] = o.id /\ data'[o.at+1] = ToChar(Len(part))
          /\ data'[o.at+2] = SecondByte(Len(part))
          /\ \A k \in 1..Len(part) : data'[o.at+2+k] = part[k]
        BY <1>2, <1>6, <2>1
    <2>6. added'[j] = o /\ PartOf(added'[j]) = part
        BY <1>5, <1>6
    <2>7. QED
        BY <2>4, <2>5, <2>6 DEF OptionLaid
<1>11. \A j \in 1..n+1 : OptionLaid(j)'
    <2> SUFFICES ASSUME NEW j \in 1..n+1 PROVE OptionLaid(j)'
        OBVIOUS
    <2>1. j \in 1..n \/ j \in {n+1}
        BY <1>4
    <2>2. QED
        BY <1>9, <1>10, <2>1
<1>12. sz' >= PACKET_POS_OPT_START /\ sz' <= MaxData
    BY <1>1, <1>3, <1>4 DEF PACKET_POS_OPT_START
<1>13. QED
    BY <1>3, <1>5, <1>7, <1>11, <1>12 DEF LayInv

\* The end tag comes behind the last option.
LEMMA LaidByClose ==
    ASSUME IInv, LayInv, packet_close
    PROVE  LayInv'
<1> SUFFICES ASSUME ~fault' PROVE LayInv'
    BY DEF LayInv
<1> DEFINE tag == <<ToChar(END)>>
<1>1. tag \in Seq(Char) /\ Len(tag) = 1 /\ tag[1] = ToChar(END)
    BY ToCharIsChar DEF END
<1>t. PacketTypeOK /\ sz \in Nat
    BY DEF IInv, TypeOK, PacketTypeOK
<1>2. /\ data' = Stored(sz, tag) /\ sz' = sz + 1 /\ sz + 1 <= MaxData
      /\ added' = added /\ stage = "open" /\ stage' = "closed" /\ ~fault
    <2>1. ~(sz + 1 > MaxData)
        BY DEF packet_close
    <2>2. sz + 1 <= MaxData
        BY <1>t, <2>1
    <2>3. QED
        BY <2>2 DEF packet_close
<1>3. /\ PacketTypeOK /\ sz \in Nat /\ sz = OptionsEnd(added)
      /\ sz >= PACKET_POS_OPT_START
      /\ \A j \in 1..Len(added) : OptionLaid(j)
    BY <1>2 DEF IInv, TypeOK, LayInv, PacketTypeOK
<1> HIDE DEF tag
<1>4. /\ \A k \in 0..sz-1 : data'[k] = data[k]
      /\ data'[sz+0] = tag[0+1]
    <2>1. sz + Len(tag) <= MaxData
        BY <1>1, <1>2
    <2>2. /\ \A k \in 0..sz-1 : data'[k] = data[k]
          /\ \A k \in 0..Len(tag)-1 : data'[sz+k] = tag[k+1]
        BY <1>1, <1>2, <1>3, <2>1, StoredAt
    <2>3. 0 \in 0..Len(tag)-1
        BY <1>1
    <2>4. QED
        BY <2>2, <2>3
<1>5. data'[sz'-1] = ToChar(END)
    <2>1. sz'-1 = sz /\ sz+0 = sz
        BY <1>2, <1>3
    <2>2. QED
        BY <1>1, <1>4, <2>1
<1>6. OptionsEnd(added') = OptionsEnd(added)
    BY <1>2
<1>7. \A j \in 1..Len(added') : OptionLaid(j)'
    BY <1>2, <1>3, <1>4, <1>6, LaidStays
<1>8. sz' >= PACKET_POS_OPT_START /\ sz' <= MaxData /\ sz' = OptionsEnd(added') + 1
    BY <1>2, <1>3, <1>6 DEF PACKET_POS_OPT_START
<1>9. QED
    BY <1>2, <1>5, <1>7, <1>8 DEF LayInv
LEMMA LayStep == IInv /\ LayInv /\ [Next]_vars => LayInv'
<1> SUFFICES ASSUME IInv, LayInv, [Next]_vars PROVE LayInv'
    OBVIOUS
<1>1. ASSUME NEW h \in Header, packet_init(h) PROVE LayInv'
    <2>1. /\ stage = "blank" /\ stage' = "open" /\ ~fault /\ added' = added
          /\ sz' = PACKET_POS_OPT_START
        BY <1>1 DEF packet_init
    <2>2. added' = <<>>
        BY <2>1 DEF LayInv
    <2>3. Len(added') = 0 /\ 1..0 = {}
        BY <2>2
    <2>4. PACKET_POS_OPT_START <= MaxData /\ PACKET_POS_OPT_START >= PACKET_POS_OPT_START
        BY DEF PACKET_POS_OPT_START
    <2>5. QED
        BY <2>1, <2>2, <2>3, <2>4 DEF LayInv, OptionsEnd
<1>2. ASSUME NEW id \in OptId, NEW v \in Value, NEW padding \in Padding,
             packet_add(id, v, padding)
      PROVE  LayInv'
    BY <1>2, LaidByAdd
<1>3. CASE packet_close
    BY <1>3, LaidByClose
<1>4. ASSUME UNCHANGED packet, ~fault, stage' = stage \/ {stage, stage'} \subseteq {"closed", "seek"}
      PROVE  LayInv'
    <2>1. \A j \in 1..Len(added') : OptionLaid(j)'
        BY <1>4 DEF LayInv, OptionLaid, packet
    <2>2. OptionsEnd(added') = OptionsEnd(added)
        BY <1>4 DEF packet
    <2>3. QED
        BY <1>4, <2>1, <2>2 DEF LayInv, packet
<1>5. ASSUME NEW id \in OptId, NEW size \in Size, NEW padding \in Padding,
             BeginGet(id, size, padding)
      PROVE  LayInv'
    BY <1>4, <1>5 DEF BeginGet
<1>6. CASE GetSkip \/ GetBeyond \/ GetNotFound \/ GetWrongSize \/ GetFound
    BY <1>4, <1>6
       DEF GetSkip, GetBeyond, GetNotFound, GetWrongSize, GetFound, Passing, Seeking, Finish
<1>7. CASE GetOutside
    BY <1>7 DEF GetOutside, LayInv
<1>8. CASE UNCHANGED vars
    <2>1. UNCHANGED packet /\ fault' = fault /\ stage' = stage
        BY <1>8 DEF vars
    <2>2. CASE fault
        BY <2>1, <2>2 DEF LayInv
    <2>3. QED
        BY <1>4, <2>1, <2>2
<1>9. QED
    BY <1>1, <1>2, <1>3, <1>5, <1>6, <1>7, <1>8 DEF Next, packet_get

LEMMA LayFirst == Init => LayInv
BY DEF Init, LayInv

\* Options and end tag lie where they belong and the two bytes of a length are
\* the same, in packets of every size and of any number of options, as long as
\* they fit.
THEOREM LayoutExactHolds == Spec => []LayoutExact
<1>1. IInv /\ LayInv => LayoutExact
    <2> SUFFICES ASSUME IInv, LayInv, ~fault, NEW j \in 1..Len(added)
                 PROVE  LET n == Len(PartOf(added[j]))
                        IN  n < (BYTE-1) * BYTE => SecondByte(n) = ToChar(n)
        BY DEF LayInv, LayoutExact, OptionLaid
    <2>1. OptionLaid(j) /\ PacketTypeOK
        BY DEF LayInv, IInv, TypeOK
    <2>2. PartOf(added[j]) \in Seq(Char)
        BY <2>1, LaidBelow
    <2>3. Len(PartOf(added[j])) \in Nat
        BY <2>2
    <2>4. QED
        BY <2>3, LengthBytes
<1>2. QED
    BY <1>1, LayFirst, LayStep, InvInit, InvStep, PTL DEF Spec
-----------------------------------------------------------------------------
(* The walk from option to option.                                         *)

\* Where the i-th option begins, and behind the last one the end tag.
StartOf(i) == IF i = 1 THEN PACKET_POS_OPT_START ELSE OptionEnd(added[i-1])

\* The loop can go past the first k options, and not past what follows them.
Passable(k) ==
    \A i \in 1..k : added[i].id # call.id /\ ReadAsWritten(Len(PartOf(added[i])))
Stops(k) == data[StartOf(k+1)] \in {call.id, END}

\* The cursor of the first packet_get goes from option to option up to one it
\* does not go past, and until it returns the caller's buffer is empty.
WalkInv ==
    /\ stage \in {"blank", "open"} => gets = 0
    /\ gets = 0 => DOMAIN out = {} /\ stage # "seek"
    /\ gets = 1 /\ stage = "seek" =>
        /\ DOMAIN out = {}
        /\ \A k \in 0..Len(added) :
              Passable(k) /\ Stops(k) => \E i \in 1..k+1 : cursor = StartOf(i)

\* The packet a packet_get walks through.
LEMMA LaidSeek ==
    ASSUME IInv, LayInv, ~fault, stage = "seek"
    PROVE  /\ PacketTypeOK /\ sz \in Nat /\ sz <= MaxData /\ Len(added) \in Nat
           /\ OptionsEnd(added) = sz - 1 /\ data[sz-1] = ToChar(END)
           /\ StartOf(Len(added)+1) = sz - 1
           /\ \A j \in 1..Len(added) : OptionLaid(j)
<1>1. /\ PacketTypeOK /\ sz \in Nat /\ sz <= MaxData /\ Len(added) \in Nat
      /\ sz = OptionsEnd(added) + 1 /\ data[sz-1] = ToChar(END)
      /\ \A j \in 1..Len(added) : OptionLaid(j)
    BY DEF IInv, TypeOK, PacketTypeOK, LayInv
<1>2. CASE added = <<>>
    <2>1. OptionsEnd(added) = PACKET_POS_OPT_START /\ Len(added) = 0
        BY <1>2 DEF OptionsEnd
    <2>2. StartOf(Len(added)+1) = OptionsEnd(added) /\ OptionsEnd(added) \in Nat
        BY <2>1 DEF StartOf, PACKET_POS_OPT_START
    <2>3. QED
        BY <1>1, <2>2
<1>3. CASE added # <<>>
    <2> DEFINE n == Len(added)
    <2>1. n \in 1..n /\ n+1 # 1 /\ (n+1)-1 = n
        BY <1>1, <1>3 DEF PacketTypeOK
    <2>2. OptionsEnd(added) = OptionEnd(added[n]) /\ StartOf(n+1) = OptionEnd(added[n])
        BY <1>3, <2>1 DEF OptionsEnd, StartOf
    <2>3. added[n].at \in Nat /\ PartOf(added[n]) \in Seq(Char)
        BY <1>1, <2>1, LaidBelow
    <2>4. Len(PartOf(added[n])) \in Nat
        BY <2>3
    <2>5. OptionEnd(added[n]) \in Int
        BY <2>3, <2>4 DEF OptionEnd
    <2>6. QED
        BY <1>1, <2>2, <2>5
<1>4. QED
    BY <1>2, <1>3

\* What packet_get reads of an option it has come to, and where it goes from it.
LEMMA OnOption ==
    ASSUME IInv, LayInv, ~fault, stage = "seek",
           NEW i \in 1..Len(added), cursor = StartOf(i)
    PROVE  LET part == PartOf(added[i])
           IN  /\ cursor \in Nat /\ part \in Seq(Char) /\ added[i] \in
                    [id : OptId, value : Value, padding : Padding, at : Nat]
               /\ data[cursor] = added[i].id
               /\ \A k \in 1..Len(part) : data[cursor+2+k] = part[k]
               /\ StartOf(i+1) = cursor + 3 + Len(part) /\ StartOf(i+1) <= sz - 1
               /\ ReadAsWritten(Len(part)) =>
                     NextOption = StartOf(i+1) /\ FoundLength = Len(part)
<1> DEFINE part == PartOf(added[i])
           n == Len(part)
           lo == ToChar(n)
           hi == SecondByte(n)
<1>1. /\ PacketTypeOK /\ OptionsEnd(added) = sz - 1 /\ OptionLaid(i)
    BY LaidSeek
<1>2. /\ part \in Seq(Char)
      /\ added[i] \in [id : OptId, value : Value, padding : Padding, at : Nat]
    BY <1>1, LaidBelow
<1>3. n \in Nat /\ added[i].at \in Nat
    BY <1>2
<1>4. cursor = added[i].at
    BY <1>1 DEF OptionLaid, StartOf
<1>5. /\ data[cursor] = added[i].id /\ data[cursor+1] = lo /\ data[cursor+2] = hi
      /\ \A k \in 1..n : data[cursor+2+k] = part[k]
      /\ OptionEnd(added[i]) <= sz - 1
    BY <1>1, <1>4 DEF OptionLaid
<1>6. StartOf(i+1) = cursor + 3 + n
    <2>1. i+1 # 1 /\ (i+1)-1 = i
        OBVIOUS
    <2>2. StartOf(i+1) = OptionEnd(added[i])
        BY <2>1 DEF StartOf
    <2>3. QED
        BY <1>4, <2>2 DEF OptionEnd
<1>7. StartOf(i+1) <= sz - 1
    <2>1. StartOf(i+1) = OptionEnd(added[i])
        BY <1>4, <1>6 DEF OptionEnd
    <2>2. QED
        BY <1>5, <2>1
<1>8. ASSUME ReadAsWritten(n) PROVE NextOption = cursor + 3 + n /\ FoundLength = n
    <2>1. lo \in Int /\ hi \in Int /\ LengthChars(n) = <<lo, hi>>
        BY <1>3, LengthBytes, CharRange DEF LengthChars, SecondByte
    <2>2. lo + hi * BYTE = n /\ lo * BYTE + hi = n
        BY <1>8, <2>1 DEF ReadAsWritten
    <2>3. FoundLength = n
        BY <1>5, <2>2 DEF FoundLength
    <2> DEFINE high == hi * BYTE
    <2>4. high \in Int /\ lo + high = n
        BY <2>1, <2>2, ByteProduct
    <2>5. NextOption = cursor + 3 + lo + high
        BY <1>5 DEF NextOption
    <2> HIDE DEF lo, hi, high
    <2>6. cursor + 3 + lo + high = cursor + 3 + n
        <3>1. ASSUME NEW a \in Int, NEW b \in Int, NEW c \in Int
              PROVE  a + 3 + b + c = a + 3 + (b + c)
            OBVIOUS
        <3>2. cursor \in Int
            BY <1>3, <1>4
        <3>3. QED
            BY ONLY <2>1, <2>4, <3>1, <3>2
    <2>7. QED
        BY <2>3, <2>5, <2>6
<1> HIDE DEF lo, hi
<1>9. QED
    BY <1>2, <1>3, <1>4, <1>5, <1>6, <1>7, <1>8

\* A turn of the loop goes from an option in front of the stop to the next.
LEMMA WalkSkip ==
    ASSUME IInv, LayInv, WalkInv, GetSkip, gets = 1,
           NEW k \in 0..Len(added), Passable(k), Stops(k)
    PROVE  \E i \in 1..k+1 : NextOption = StartOf(i)
<1>1. stage = "seek" /\ ~fault /\ data[cursor] \notin {call.id, END}
    BY DEF GetSkip, Passing, Seeking
<1>2. PICK i \in 1..k+1 : cursor = StartOf(i)
    BY <1>1 DEF WalkInv
<1>3. i # k+1
    BY <1>1, <1>2 DEF Stops
<1>4. Len(added) \in Nat
    BY <1>1, LaidSeek
<1>5. i \in 1..k /\ i \in 1..Len(added) /\ i+1 \in 1..k+1
    BY <1>3, <1>4
<1>6. ReadAsWritten(Len(PartOf(added[i])))
    BY <1>5 DEF Passable
<1>7. NextOption = StartOf(i+1)
    BY <1>1, <1>2, <1>5, <1>6, OnOption
<1>8. QED
    BY <1>5, <1>7

LEMMA WalkStep == IInv /\ LayInv /\ WalkInv /\ [Next]_vars => WalkInv'
<1> SUFFICES ASSUME IInv, LayInv, WalkInv, [Next]_vars PROVE WalkInv'
    OBVIOUS
<1>1. ASSUME NEW h \in Header, packet_init(h) PROVE WalkInv'
    BY <1>1 DEF packet_init, WalkInv, seek
<1>2. ASSUME NEW id \in OptId, NEW v \in Value, NEW padding \in Padding,
             packet_add(id, v, padding)
      PROVE  WalkInv'
    BY <1>2 DEF packet_add, WalkInv, seek
<1>3. CASE packet_close
    BY <1>3 DEF packet_close, WalkInv, seek
<1>4. ASSUME NEW id \in OptId, NEW size \in Size, NEW padding \in Padding,
             BeginGet(id, size, padding)
      PROVE  WalkInv'
    <2>1. /\ stage = "closed" /\ stage' = "seek" /\ out' = out
          /\ cursor' = PACKET_POS_OPT_START /\ gets' = gets + 1 /\ gets \in Nat
        BY <1>4 DEF BeginGet, IInv, TypeOK, SeekTypeOK
    <2>2. gets' # 0 /\ (gets' = 1 => gets = 0)
        BY <2>1
    <2>3. cursor' = StartOf(1)'
        BY <2>1 DEF StartOf
    <2>4. \A k \in 0..Len(added') : 1 \in 1..k+1
        OBVIOUS
    <2>5. QED
        BY <2>1, <2>2, <2>3, <2>4 DEF WalkInv
<1>5. CASE GetSkip
    <2>1. /\ stage = "seek" /\ stage' = "seek" /\ cursor' = NextOption
          /\ UNCHANGED <<packet, call, out, gets>>
        BY <1>5 DEF GetSkip, Passing, Seeking
    <2>2. /\ \A i : StartOf(i)' = StartOf(i)
          /\ \A k : Passable(k)' = Passable(k) /\ Stops(k)' = Stops(k)
          /\ added' = added
        BY <2>1 DEF packet, StartOf, Passable, Stops
    <2>3. ASSUME gets = 1, NEW k \in 0..Len(added), Passable(k), Stops(k)
          PROVE  \E i \in 1..k+1 : cursor' = StartOf(i)
        BY <1>5, <2>1, <2>3, WalkSkip
    <2>4. gets # 0
        BY <2>1 DEF WalkInv
    <2>5. QED
        BY <2>1, <2>2, <2>3, <2>4 DEF WalkInv
<1>6. CASE GetBeyond \/ GetNotFound \/ GetWrongSize \/ GetFound
    <2>1. stage = "seek" /\ stage' = "closed" /\ gets' = gets
        BY <1>6 DEF GetBeyond, GetNotFound, GetWrongSize, GetFound, Passing, Seeking, Finish
    <2>2. QED
        BY <2>1 DEF WalkInv
<1>7. CASE GetOutside \/ UNCHANGED vars
    BY <1>7 DEF GetOutside, vars, packet, seek, WalkInv, StartOf, Passable, Stops
<1>8. QED
    BY <1>1, <1>2, <1>3, <1>4, <1>5, <1>6, <1>7 DEF Next, packet_get

LEMMA WalkFirst == Init => WalkInv
BY DEF Init, WalkInv

\* Where the packet_get that returns has come to: a stop, or it is still on an
\* option in front of it, which only the over memory test can end.
LEMMA WalkEnd ==
    ASSUME IInv, LayInv, WalkInv, gets = 1,
           GetBeyond \/ GetNotFound \/ GetWrongSize \/ GetFound,
           NEW k \in 0..Len(added), Passable(k), Stops(k)
    PROVE  \/ cursor = StartOf(k+1)
           \/ \E i \in 1..k : /\ cursor = StartOf(i) /\ data[cursor] = added[i].id
                             /\ added[i].id # call.id /\ NextOption = StartOf(i+1)
<1>1. stage = "seek" /\ ~fault
    BY DEF GetBeyond, GetNotFound, GetWrongSize, GetFound, Passing, Seeking
<1>2. PICK i \in 1..k+1 : cursor = StartOf(i)
    BY <1>1 DEF WalkInv
<1>3. Len(added) \in Nat
    BY <1>1, LaidSeek
<1>4. CASE i = k+1
    BY <1>2, <1>4
<1>5. CASE i # k+1
    <2>1. i \in 1..k /\ i \in 1..Len(added)
        BY <1>3, <1>5
    <2>2. added[i].id # call.id /\ ReadAsWritten(Len(PartOf(added[i])))
        BY <2>1 DEF Passable
    <2>3. data[cursor] = added[i].id /\ NextOption = StartOf(i+1)
        BY <1>1, <1>2, <2>1, <2>2, OnOption
    <2>4. QED
        BY <1>2, <2>1, <2>2, <2>3
<1>6. QED
    BY <1>4, <1>5

-----------------------------------------------------------------------------
(* The end tag, and the option that is asked for.                          *)

LEMMA TagReads == ~CharSigned => ToChar(END) = END
<1>1. END \in 0..BYTE-1
    BY DEF END
<1>2. END % BYTE = END
    BY <1>1, ModFixed
<1>3. QED
    BY <1>2 DEF ToChar

\* The first packet_get, for an option that is not there, in a packet whose end
\* tag is not in the last two bytes.
NothingToFind ==
    /\ gets = 1 /\ call.id # END /\ sz <= MaxData - 2
    /\ Passable(Len(added))

\* It comes to the end tag and returns there.
LEMMA EndReturn ==
    ASSUME ~CharSigned, IInv, LayInv, WalkInv, NothingToFind,
           GetBeyond \/ GetNotFound \/ GetWrongSize \/ GetFound
    PROVE  GetNotFound
<1> DEFINE n == Len(added)
<1>1. stage = "seek" /\ ~fault /\ gets = 1 /\ call.id # END /\ Passable(n)
    BY DEF GetBeyond, GetNotFound, GetWrongSize, GetFound, Passing, Seeking, NothingToFind
<1>2. /\ n \in Nat /\ StartOf(n+1) = sz - 1 /\ data[sz-1] = END
      /\ sz \in Nat /\ sz <= MaxData - 2
    BY <1>1, LaidSeek, TagReads DEF NothingToFind
<1>3. n \in 0..n /\ Stops(n)
    BY <1>2 DEF Stops
<1>4. CASE cursor = StartOf(n+1)
    BY <1>1, <1>2, <1>4 DEF GetBeyond, GetWrongSize, GetFound, Passing
<1>5. ASSUME NEW i \in 1..n, cursor = StartOf(i), data[cursor] = added[i].id,
             added[i].id # call.id, NextOption = StartOf(i+1)
      PROVE  GetNotFound
    <2>1. StartOf(i+1) <= sz - 1 /\ StartOf(i+1) \in Int
        <3>1. /\ cursor \in Nat /\ PartOf(added[i]) \in Seq(Char)
              /\ StartOf(i+1) = cursor + 3 + Len(PartOf(added[i]))
              /\ StartOf(i+1) <= sz - 1
            BY <1>1, <1>5, OnOption
        <3>2. Len(PartOf(added[i])) \in Nat
            BY <3>1
        <3>3. QED
            BY <3>1, <3>2
    <2>2. ~Beyond(NextOption)
        BY <1>2, <1>5, <2>1 DEF Beyond
    <2>3. QED
        BY <1>5, <2>2 DEF GetBeyond, GetWrongSize, GetFound
<1>6. QED
    BY <1>1, <1>3, <1>4, <1>5, WalkEnd

LEMMA EndStep ==
    ASSUME ~CharSigned, IInv, LayInv, WalkInv, EndTagNoticed, [Next]_vars
    PROVE  EndTagNoticed'
<1>1. ASSUME NEW h \in Header, packet_init(h) PROVE EndTagNoticed'
    BY <1>1 DEF packet_init, EndTagNoticed
<1>2. ASSUME NEW id \in OptId, NEW v \in Value, NEW padding \in Padding,
             packet_add(id, v, padding)
      PROVE  EndTagNoticed'
    BY <1>2 DEF packet_add, EndTagNoticed
<1>3. CASE packet_close
    <2>1. stage = "open" /\ gets' = gets
        BY <1>3 DEF packet_close, seek
    <2>2. gets' # 1
        BY <2>1 DEF WalkInv
    <2>3. QED
        BY <2>2 DEF EndTagNoticed
<1>4. ASSUME NEW id \in OptId, NEW size \in Size, NEW padding \in Padding,
             BeginGet(id, size, padding)
      PROVE  EndTagNoticed'
    BY <1>4 DEF BeginGet, EndTagNoticed
<1>5. CASE GetSkip
    BY <1>5 DEF GetSkip, Passing, Seeking, EndTagNoticed
<1>6. CASE GetBeyond \/ GetNotFound \/ GetWrongSize \/ GetFound
    <2>1. UNCHANGED <<packet, call, gets>>
        BY <1>6 DEF GetBeyond, GetNotFound, GetWrongSize, GetFound, Finish
    <2>2. SUFFICES ASSUME NothingToFind' PROVE result' = "not found"
        BY DEF EndTagNoticed, NothingToFind, Passable
    <2>3. NothingToFind
        BY <2>1, <2>2 DEF NothingToFind, Passable, packet
    <2>4. GetNotFound
        BY <1>6, <2>3, EndReturn
    <2>5. QED
        BY <2>4 DEF GetNotFound, Finish
<1>7. CASE GetOutside \/ UNCHANGED vars
    BY <1>7 DEF GetOutside, vars, packet, seek, EndTagNoticed
<1>8. QED
    BY <1>1, <1>2, <1>3, <1>4, <1>5, <1>6, <1>7 DEF Next, packet_get

\* With unsigned chars an option that is not in the packet is not found, in
\* packets of every size and behind any number of options whose lengths are read
\* as they were written.
THEOREM EndTagNoticedHolds == ~CharSigned => (Spec => []EndTagNoticed)
<1> SUFFICES ASSUME ~CharSigned PROVE Spec => []EndTagNoticed
    OBVIOUS
<1>1. Init => EndTagNoticed
    BY DEF Init, EndTagNoticed
<1>2. IInv /\ LayInv /\ WalkInv /\ EndTagNoticed /\ [Next]_vars => EndTagNoticed'
    BY EndStep
<1>3. QED
    BY <1>1, <1>2, WalkFirst, WalkStep, LayFirst, LayStep, InvInit, InvStep, PTL DEF Spec

\* Option j is the first with the id that is asked for, behind others the loop
\* can go past.
Asked(j) ==
    /\ added[j].id = call.id
    /\ \A i \in 1..j-1 : added[i].id \notin {call.id, END}
    /\ \A i \in 1..j : ReadAsWritten(Len(PartOf(added[i])))

\* What packet_get owes to the caller for option j.
Answered(j) ==
    IF call.size \in {0, Len(PartOf(added[j]))}
    THEN /\ result = "ok" /\ ~fault
         /\ call.padding = added[j].padding /\ call.padding # "EVEN" =>
               out = InBuffer(added[j].value, call.padding)
    ELSE result = "wrong size" /\ DOMAIN out = {}

\* The chars of an option go where the caller wants them, if he asks for them the
\* way they were added.
LEMMA CopiedInPlace ==
    ASSUME NEW v \in Seq(Char), NEW padding \in {"NORMAL", "ODD"}, NEW from \in Nat,
           DOMAIN out = {},
           \A k \in 1..Len(Part(v, padding)) : data[from-1+k] = Part(v, padding)[k]
    PROVE  Copied(from, Len(Part(v, padding)), padding) = InBuffer(v, padding)
<1> DEFINE part == Part(v, padding)
           len == Len(part)
           step == IF padding = "ODD" THEN 2 ELSE 1
           wanted == {q \in 0..Len(v)-1 : padding = "ODD" => q % 2 = 0}
           placed == {Place(padding, j) : j \in 0..len-1}
<1>1. Len(v) \in Nat /\ \A j \in Nat : Place(padding, j) = step * j
    BY DEF Place
<1>2. /\ padding = "NORMAL" => len = Len(v) /\ \A k \in 1..len : part[k] = v[k]
      /\ padding = "ODD" => /\ len = (Len(v) + 1) \div 2
                            /\ \A k \in 1..len : part[k] = v[2*k-1]
    BY DEF Part
<1>3. len \in Nat
    BY <1>1, <1>2
<1> HIDE DEF part, len
<1>4. ASSUME NEW p \in wanted
      PROVE  \E j \in 0..len-1 : /\ p = step * j
                                 /\ part[j+1] = v[p+1]
    <2>1. CASE padding = "NORMAL"
        BY <1>1, <1>2, <2>1
    <2>2. CASE padding = "ODD"
        <3>1. p % 2 = 0 /\ p \in 0..Len(v)-1
            BY <2>2
        <3>2. p \div 2 \in 0..len-1 /\ p = 2 * (p \div 2) /\ 2 * (p \div 2 + 1) - 1 = p + 1
            <4>1. ASSUME NEW n \in Nat, NEW q \in 0..n-1, q % 2 = 0
                  PROVE  /\ q \div 2 \in 0..(n+1) \div 2 - 1
                         /\ q = 2 * (q \div 2) /\ 2 * (q \div 2 + 1) - 1 = q + 1
                BY <4>1
            <4>2. len = (Len(v) + 1) \div 2
                BY <1>2, <2>2
            <4>3. QED
                BY <1>1, <3>1, <4>1, <4>2
        <3>3. p \div 2 + 1 \in 1..len
            BY <1>3, <3>2
        <3>4. part[p \div 2 + 1] = v[p + 1]
            BY <1>2, <2>2, <3>2, <3>3
        <3>5. QED
            BY <2>2, <3>2, <3>4
    <2>3. QED
        BY <2>1, <2>2
<1>5. ASSUME NEW j \in 0..len-1 PROVE step * j \in wanted
    <2>1. CASE padding = "NORMAL"
        BY <1>1, <1>2, <2>1
    <2>2. CASE padding = "ODD"
        BY <1>1, <1>2, <2>2
    <2>3. QED
        BY <2>1, <2>2
<1>6. placed = wanted
    <2>1. \A j \in 0..len-1 : Place(padding, j) = step * j
        BY <1>1, <1>3
    <2>2. ASSUME NEW p \in placed PROVE p \in wanted
        BY <1>5, <2>1
    <2>3. ASSUME NEW p \in wanted PROVE p \in placed
        <3>1. PICK j \in 0..len-1 : p = step * j
            BY <1>4
        <3>2. QED
            BY <2>1, <3>1
    <2> HIDE DEF placed, wanted
    <2>4. QED
        BY <2>2, <2>3
<1>7. ASSUME NEW p \in placed
      PROVE  data[from + CHOOSE j \in 0..len-1 : Place(padding, j) = p] = v[p+1]
    <2> DEFINE c == CHOOSE j \in 0..len-1 : Place(padding, j) = p
    <2>1. PICK j \in 0..len-1 : p = step * j /\ part[j+1] = v[p+1]
        BY <1>4, <1>6, <1>7
    <2>2. j \in Nat /\ Place(padding, j) = p
        BY <1>1, <1>3, <2>1
    <2>3. c \in 0..len-1 /\ Place(padding, c) = p
        BY <2>1, <2>2
    <2> HIDE DEF c
    <2>4. c = j
        <3>1. c \in Nat /\ step * c = step * j
            BY <1>1, <1>3, <2>1, <2>3
        <3>2. QED
            BY <2>2, <3>1
    <2>5. j+1 \in 1..len /\ from-1+(j+1) = from+j
        BY <1>3, <2>1
    <2>6. data[from+j] = part[j+1]
        BY <2>5 DEF part, len
    <2>7. QED
        BY <2>1, <2>4, <2>6 DEF c
<1>8. Copied(from, len, padding) =
          [p \in placed |-> data[from + CHOOSE j \in 0..len-1 : Place(padding, j) = p]]
    BY DEF Copied
<1>9. InBuffer(v, padding) = [p \in wanted |-> v[p+1]]
    BY DEF InBuffer
<1> HIDE DEF placed, wanted
<1>10. QED
    BY <1>6, <1>7, <1>8, <1>9 DEF part, len

\* The packet_get that returns has come to the option that is asked for.
LEMMA AskedReached ==
    ASSUME IInv, LayInv, WalkInv, gets = 1, NEW j \in 1..Len(added), Asked(j),
           GetBeyond \/ GetNotFound \/ GetWrongSize \/ GetFound
    PROVE  cursor = StartOf(j)
<1> DEFINE k == j - 1
<1>1. stage = "seek" /\ ~fault
    BY DEF GetBeyond, GetNotFound, GetWrongSize, GetFound, Passing, Seeking
<1>2. /\ PacketTypeOK /\ Len(added) \in Nat /\ OptionsEnd(added) = sz - 1
      /\ sz \in Nat /\ sz <= MaxData /\ \A i \in 1..Len(added) : OptionLaid(i)
    BY <1>1, LaidSeek
<1>3. k \in 0..Len(added) /\ k+1 = j
    BY <1>2
<1>4. Passable(k)
    <2>1. \A i \in 1..k : i \in 1..j-1 /\ i \in 1..j
        BY <1>3
    <2>2. QED
        BY <2>1 DEF Asked, Passable
<1>5. Stops(k)
    <2>1. added[j].at = StartOf(j) /\ data[added[j].at] = added[j].id
        BY <1>2 DEF OptionLaid, StartOf
    <2>2. QED
        BY <1>3, <2>1 DEF Stops, Asked
<1>6. ASSUME NEW i \in 1..k, cursor = StartOf(i), data[cursor] = added[i].id,
             added[i].id # call.id, NextOption = StartOf(i+1)
      PROVE  FALSE
    <2>1. i \in 1..j-1 /\ i+1 \in 1..Len(added)
        BY <1>2, <1>3
    <2>2. added[i].id # END
        BY <2>1 DEF Asked
    <2>3. GetBeyond
        BY <1>6, <2>2 DEF GetNotFound, GetWrongSize, GetFound
    <2>4. /\ added[i+1].at = StartOf(i+1) /\ added[i+1].at \in Nat
          /\ Len(PartOf(added[i+1])) \in Nat
          /\ added[i+1].at + 3 + Len(PartOf(added[i+1])) <= sz - 1
        <3>1. OptionLaid(i+1)
            BY <1>2, <2>1
        <3>2. added[i+1].at = StartOf(i+1)
            BY <3>1 DEF OptionLaid, StartOf
        <3>3. /\ added[i+1].at \in Nat /\ PartOf(added[i+1]) \in Seq(Char)
              /\ added[i+1].at + 3 + Len(PartOf(added[i+1])) <= OptionsEnd(added)
            BY <1>2, <2>1, <3>1, LaidBelow
        <3>4. Len(PartOf(added[i+1])) \in Nat
            BY <3>3
        <3>5. QED
            BY <1>2, <3>2, <3>3, <3>4
    <2>5. ~Beyond(NextOption)
        BY <1>2, <1>6, <2>4 DEF Beyond
    <2>6. QED
        BY <2>3, <2>5 DEF GetBeyond
<1>7. QED
    BY <1>3, <1>4, <1>5, <1>6, WalkEnd

\* What it does there.
LEMMA AskedAnswered ==
    ASSUME IInv, LayInv, WalkInv, gets = 1, NEW j \in 1..Len(added), Asked(j),
           GetBeyond \/ GetNotFound \/ GetWrongSize \/ GetFound
    PROVE  Answered(j)'
<1> DEFINE part == PartOf(added[j])
           len == Len(part)
<1>1. /\ stage = "seek" /\ ~fault /\ UNCHANGED <<packet, call, gets>>
    BY DEF GetBeyond, GetNotFound, GetWrongSize, GetFound, Passing, Seeking, Finish
<1>2. cursor = StartOf(j) /\ DOMAIN out = {} /\ sz \in Nat /\ sz <= MaxData
    BY <1>1, AskedReached, LaidSeek DEF WalkInv
<1>3. ReadAsWritten(len) /\ added[j].id = call.id
    BY DEF Asked
<1>4. /\ cursor \in Nat /\ part \in Seq(Char) /\ added[j] \in
            [id : OptId, value : Value, padding : Padding, at : Nat]
      /\ data[cursor] = call.id
      /\ \A k \in 1..len : data[cursor+2+k] = part[k]
      /\ StartOf(j+1) = cursor + 3 + len /\ StartOf(j+1) <= sz - 1
      /\ FoundLength = len
    BY <1>1, <1>2, <1>3, OnOption
<1>5. len \in Nat /\ added[j].value \in Seq(Char)
    BY <1>4
<1>6. /\ added' = added /\ call' = call /\ PartOf(added[j])' = part
    BY <1>1 DEF packet, PartOf
<1>7. CASE GetWrongSize
    BY <1>2, <1>4, <1>6, <1>7 DEF GetWrongSize, Finish, Answered
<1>8. CASE GetFound
    <2>1. call.size \in {0, len} /\ result' = "ok"
        BY <1>4, <1>8 DEF GetFound, Finish
    <2>2. ~fault'
        <3>1. ~(cursor + 3 + len > MaxData) /\ ~(len < 0)
            BY <1>2, <1>4, <1>5
        <3>2. QED
            BY <1>4, <1>8, <3>1 DEF GetFound
    <2>3. out' = Copied(cursor + 3, len, call.padding)
        BY <1>4, <1>8, <2>2 DEF GetFound
    <2>4. ASSUME call.padding = added[j].padding, call.padding # "EVEN"
          PROVE  out' = InBuffer(added[j].value, call.padding)
        <3>1. call.padding \in {"NORMAL", "ODD"}
            BY <1>4, <2>4 DEF Padding
        <3>2. part = Part(added[j].value, call.padding)
            BY <2>4 DEF PartOf
        <3>3. cursor + 3 \in Nat /\ \A k \in 1..len : data[(cursor+3)-1+k] = part[k]
            <4>1. \A k \in 1..len : (cursor+3)-1+k = cursor+2+k
                BY <1>4, <1>5
            <4>2. QED
                BY <1>4, <4>1
        <3> HIDE DEF part
        <3>4. Copied(cursor + 3, Len(Part(added[j].value, call.padding)), call.padding)
                  = InBuffer(added[j].value, call.padding)
            BY <1>2, <1>5, <3>1, <3>2, <3>3, CopiedInPlace
        <3>5. QED
            BY <2>3, <3>2, <3>4
    <2>5. QED
        BY <1>6, <2>1, <2>2, <2>4 DEF Answered
<1>9. QED
    BY <1>4, <1>7, <1>8 DEF GetBeyond, GetNotFound, Passing

LEMMA BackStep ==
    ASSUME IInv, LayInv, WalkInv, OptionReadBack, [Next]_vars
    PROVE  OptionReadBack'
<1>1. ASSUME NEW h \in Header, packet_init(h) PROVE OptionReadBack'
    BY <1>1 DEF packet_init, OptionReadBack
<1>2. ASSUME NEW id \in OptId, NEW v \in Value, NEW padding \in Padding,
             packet_add(id, v, padding)
      PROVE  OptionReadBack'
    BY <1>2 DEF packet_add, OptionReadBack
<1>3. CASE packet_close
    <2>1. stage = "open" /\ gets' = gets
        BY <1>3 DEF packet_close, seek
    <2>2. gets' # 1
        BY <2>1 DEF WalkInv
    <2>3. QED
        BY <2>2 DEF OptionReadBack
<1>4. ASSUME NEW id \in OptId, NEW size \in Size, NEW padding \in Padding,
             BeginGet(id, size, padding)
      PROVE  OptionReadBack'
    BY <1>4 DEF BeginGet, OptionReadBack
<1>5. CASE GetSkip
    BY <1>5 DEF GetSkip, Passing, Seeking, OptionReadBack
<1>6. CASE GetBeyond \/ GetNotFound \/ GetWrongSize \/ GetFound
    <2>1. UNCHANGED <<packet, call, gets>>
        BY <1>6 DEF GetBeyond, GetNotFound, GetWrongSize, GetFound, Finish
    <2>2. SUFFICES ASSUME gets' = 1, NEW j \in 1..Len(added'), Asked(j)'
                   PROVE  Answered(j)'
        BY DEF OptionReadBack, Asked, Answered
    <2>3. gets = 1 /\ j \in 1..Len(added) /\ Asked(j)
        BY <2>1, <2>2 DEF Asked, packet
    <2>4. QED
        BY <1>6, <2>3, AskedAnswered
<1>7. CASE GetOutside
    BY <1>7 DEF GetOutside, seek, packet, OptionReadBack
<1>8. CASE UNCHANGED vars
    BY <1>8 DEF vars, packet, seek, OptionReadBack
<1>9. QED
    BY <1>1, <1>2, <1>3, <1>4, <1>5, <1>6, <1>7, <1>8 DEF Next, packet_get

\* What was added is read back: the first option with an id, behind any number
\* of others, in packets of every size and with chars of either kind, wherever
\* the lengths up to it are read as they were written.
THEOREM OptionReadBackHolds == Spec => []OptionReadBack
<1>1. Init => OptionReadBack
    BY DEF Init, OptionReadBack
<1>2. IInv /\ LayInv /\ WalkInv /\ OptionReadBack /\ [Next]_vars => OptionReadBack'
    BY BackStep
<1>3. QED
    BY <1>1, <1>2, WalkFirst, WalkStep, LayFirst, LayStep, InvInit, InvStep, PTL DEF Spec
=============================================================================
