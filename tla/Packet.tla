------------------------------- MODULE Packet -------------------------------
(***************************************************************************)
(* The packet codec (packet.c).  A peer fills a packet with packet_init,   *)
(* packet_add and packet_close; the other reads the header and seeks       *)
(* options in it with packet_get.  The bytes between them are the same.    *)
(*                                                                         *)
(* A byte has BYTE values and is kept as the char the code handles, signed *)
(* or not as the compiler chooses.  Filling is one action per call; the    *)
(* seek of packet_get is one action per turn of its loop, because whether  *)
(* it ends depends on the bytes.                                           *)
(***************************************************************************)
EXTENDS Integers, Sequences

CONSTANTS
    BYTE,           \* values of a byte (256)
    CharSigned,     \* plain char is signed, as on x86
    MaxData,        \* PACKET_MAX_DATA_SIZE: bytes in packet->data
    MaxOpt,         \* PACKET_MAX_OPT_LENGTH
    OptId,          \* ids of options
    Value,          \* contents of options, sequences of chars
    Header,         \* arguments of packet_init, [protocol, type, xid]
    MaxAdds,        \* bound: calls of packet_add on one packet
    MaxGets         \* bound: calls of packet_get on one packet

PACKET_1 == 1
PACKET_POS_OPT_START == 6
END == BYTE - 1                     \* the literal 255
Padding == {"NORMAL", "ODD", "EVEN"}

\* An int stored into a char.
ToChar(n) ==
    LET b == n % BYTE IN IF CharSigned /\ 2 * b >= BYTE THEN b - BYTE ELSE b

Char == {ToChar(n) : n \in 0..BYTE-1}

ASSUME PacketAssumption ==
    /\ BYTE \in Nat /\ BYTE > 1
    /\ CharSigned \in BOOLEAN
    /\ MaxData \in Nat /\ MaxData > PACKET_POS_OPT_START + 2
    /\ MaxOpt \in Nat
    /\ OptId \subseteq Char
    /\ Value \subseteq Seq(Char)
    /\ Header \subseteq [protocol : Nat, type : Nat, xid : Nat]
    /\ MaxAdds \in Nat /\ MaxGets \in Nat

VARIABLES
    data,           \* packet->data
    sz,             \* packet->sz
    stage,          \* blank, open, closed, seek
    fault,          \* a read or write outside packet->data
    cursor,         \* i of packet_get
    call,           \* arguments of packet_get, [id, size, padding]
    out,            \* the caller's buffer: position -> char
    result,         \* what the last packet_get returned
    header,         \* history: arguments of packet_init
    added,          \* history: options added, [id, value, padding, at]
    gets            \* history: calls of packet_get

packet == <<data, sz, header, added>>
seek   == <<cursor, call, out, result, gets>>
vars   == <<packet, stage, fault, seek>>

NoCall == [id |-> 0, size |-> 0, padding |-> "NORMAL"]

Init ==
    /\ data = [n \in 0..MaxData-1 |-> 0]
    /\ sz = 0
    /\ stage = "blank" /\ fault = FALSE
    /\ cursor = 0 /\ call = NoCall /\ out = <<>> /\ result = "none" /\ gets = 0
    /\ header = [protocol |-> 0, type |-> 0, xid |-> 0]
    /\ added = <<>>

\* Slip: one position early.
StoredEarly(n, chars) ==
    [k \in 0..MaxData-1 |->
        IF k - n + 1 \in 0..Len(chars)-1 THEN chars[k-n+2] ELSE data[k]]

\* data with a sequence of chars stored from position n on.
Stored(n, chars) ==
    [k \in 0..MaxData-1 |-> IF k - n \in 0..Len(chars)-1 THEN chars[k-n+1] ELSE data[k]]

-----------------------------------------------------------------------------
(* Filling.                                                                *)

\* xid & 0x000000FF, xid & 0x0000FF00, ...: the byte stays where it is.
Masked(x, weight) == ((x \div weight) % BYTE) * weight

packet_init(h) ==
    /\ stage = "blank" /\ ~fault
    /\ data' = Stored(0, <<ToChar(h.protocol), ToChar(h.type),
                           ToChar(Masked(h.xid, 1)),
                           ToChar(Masked(h.xid, BYTE)),
                           ToChar(Masked(h.xid, BYTE * BYTE)),
                           ToChar(Masked(h.xid, BYTE * BYTE * BYTE))>>)
    /\ sz' = PACKET_POS_OPT_START
    /\ stage' = "open"
    /\ header' = h
    /\ UNCHANGED <<added, fault, seek>>

\* What broadcast_sDHCP hands to packet_init: PACKET_1 as the protocol.
BroadcastHeader == [protocol |-> PACKET_1, type |-> 0, xid |-> 0]

\* The part of a value an option carries: every other char, or all of it.
Part(v, padding) ==
    CASE padding = "ODD"    -> [k \in 1..(Len(v)+1) \div 2 |-> v[2*k-1]]
      [] padding = "EVEN"   -> [k \in 1..Len(v) \div 2 |-> v[2*k]]
      [] padding = "NORMAL" -> v

\* Slip: the low byte left out.
LengthCharsShort(n) == <<ToChar(n % ((BYTE-1) * BYTE))>>

\* Slip: the length not narrowed to chars.
LengthCharsWide(n) == <<n, n>>

\* opt_sz&0x00FF and opt_sz%0xFF00, as chars.
LengthChars(n) == <<ToChar(n % BYTE), ToChar(n % ((BYTE-1) * BYTE))>>

OptionChars(id, part) == <<id>> \o LengthChars(Len(part)) \o part

\* A value that is too long is refused; nothing else is checked, neither the
\* room in the packet nor that in buffer[PACKET_MAX_OPT_LENGTH/2].
packet_add(id, v, padding) ==
    /\ stage = "open" /\ ~fault
    /\ Len(added) < MaxAdds
    /\ Len(v) <= MaxOpt
    /\ LET part == Part(v, padding)
           option == OptionChars(id, part)
       IN  /\ fault' = \/ sz + Len(option) > MaxData
                       \/ padding # "NORMAL" /\ Len(part) > MaxOpt \div 2
           /\ data' = Stored(sz, option)
           /\ sz' = sz + Len(option)
    /\ added' = Append(added, [id |-> id, value |-> v, padding |-> padding, at |-> sz])
    /\ UNCHANGED <<stage, header, seek>>

\* Slip: the end tag not written.
packet_closeBare ==
    /\ stage = "open" /\ ~fault
    /\ fault' = (sz + 1 > MaxData)
    /\ sz' = sz + 1
    /\ stage' = "closed"
    /\ UNCHANGED <<data, header, added, seek>>

packet_close ==
    /\ stage = "open" /\ ~fault
    /\ fault' = (sz + 1 > MaxData)
    /\ data' = Stored(sz, <<ToChar(END)>>)
    /\ sz' = sz + 1
    /\ stage' = "closed"
    /\ UNCHANGED <<header, added, seek>>

-----------------------------------------------------------------------------
(* Reading.                                                                *)

packet_protocol == data[0]
packet_type     == data[1]
packet_xid      == data[2] + data[3] * BYTE

BeginGet(id, size, padding) ==
    /\ stage = "closed" /\ ~fault
    /\ gets < MaxGets
    /\ stage' = "seek"
    /\ cursor' = PACKET_POS_OPT_START
    /\ call' = [id |-> id, size |-> size, padding |-> padding]
    /\ gets' = gets + 1
    /\ UNCHANGED <<packet, fault, out, result>>

Seeking == stage = "seek" /\ ~fault /\ cursor >= 0
Passing == Seeking /\ data[cursor] # call.id /\ data[cursor] # END

\* Slip: the three bytes in front of an option not counted.
NextOptionShort == cursor + data[cursor+1] + data[cursor+2] * BYTE

\* Slip: only the id counted.
NextOptionNear == cursor + 1 + data[cursor+1] + data[cursor+2] * BYTE

\* Where the next option is taken to begin.
NextOption == cursor + 3 + data[cursor+1] + data[cursor+2] * BYTE

\* Slip: the length bytes not counted.
BeyondLate(n) == n >= MaxData

\* The over memory test.
Beyond(n) == n + 2 >= MaxData

Finish(r) ==
    /\ result' = r
    /\ stage' = "closed"
    /\ UNCHANGED <<packet, cursor, call, gets>>

GetSkip ==
    /\ Passing /\ ~Beyond(NextOption)
    /\ cursor' = NextOption
    /\ UNCHANGED <<packet, stage, fault, call, out, result, gets>>

GetBeyond ==
    /\ Passing /\ Beyond(NextOption)
    /\ Finish("wrong packet")
    /\ UNCHANGED <<fault, out>>

GetNotFound ==
    /\ Seeking /\ data[cursor] # call.id /\ data[cursor] = END
    /\ Finish("not found")
    /\ UNCHANGED <<fault, out>>

\* The length of the option that was found, its bytes taken the other way
\* round than by the loop.
FoundLength == data[cursor+1] * BYTE + data[cursor+2]

GetWrongSize ==
    /\ Seeking /\ data[cursor] = call.id
    /\ call.size # 0 /\ FoundLength # call.size
    /\ Finish("wrong size")
    /\ UNCHANGED <<fault, out>>

\* Slip: the chars of an odd part one further.
PlaceAfter(padding, j) ==
    CASE padding = "NORMAL" -> j
      [] padding = "ODD"    -> 2 * j + 1
      [] padding = "EVEN"   -> 4 * j

\* Where the j-th char of an option goes: j, j<<1 and, as + binds tighter than
\* <<, j<<(1+1).
Place(padding, j) ==
    CASE padding = "NORMAL" -> j
      [] padding = "ODD"    -> 2 * j
      [] padding = "EVEN"   -> 4 * j

\* The caller's buffer after len chars from position from were copied into it.
Copied(from, len, padding) ==
    LET placed == {Place(padding, j) : j \in 0..len-1}
    IN  [p \in DOMAIN out \cup placed |->
            IF p \in placed
            THEN data[from + CHOOSE j \in 0..len-1 : Place(padding, j) = p]
            ELSE out[p]]

GetFound ==
    /\ Seeking /\ data[cursor] = call.id
    /\ call.size = 0 \/ FoundLength = call.size
    /\ fault' = \/ cursor + 3 + FoundLength > MaxData
                \/ call.padding = "NORMAL" /\ FoundLength < 0
    /\ out' = IF fault' THEN out ELSE Copied(cursor + 3, FoundLength, call.padding)
    /\ Finish("ok")

\* A negative length has led in front of packet->data.
GetOutside ==
    /\ stage = "seek" /\ ~fault /\ cursor < 0
    /\ fault' = TRUE
    /\ UNCHANGED <<packet, stage, seek>>

packet_get == GetSkip \/ GetBeyond \/ GetNotFound \/ GetWrongSize \/ GetFound \/ GetOutside

-----------------------------------------------------------------------------
\* The sizes callers ask for: any, or that of a value.
Size == {0} \cup {Len(v) : v \in Value}

Next ==
    \/ \E h \in Header : packet_init(h)
    \/ \E id \in OptId, v \in Value, padding \in Padding : packet_add(id, v, padding)
    \/ packet_close
    \/ \E id \in OptId, size \in Size, padding \in Padding : BeginGet(id, size, padding)
    \/ packet_get

Spec == Init /\ [][Next]_vars

\* packet_get runs to its end once it is called.
FairSpec == Spec /\ WF_vars(packet_get)

-----------------------------------------------------------------------------
(* Properties.                                                             *)

PacketTypeOK ==
    /\ data \in [0..MaxData-1 -> Char]
    /\ sz \in Nat
    /\ header \in [protocol : Nat, type : Nat, xid : Nat]
    /\ added \in Seq([id : OptId, value : Value, padding : Padding, at : Nat])

SeekTypeOK ==
    /\ cursor \in Int
    /\ call \in [id : OptId \cup {0}, size : Nat, padding : Padding]
    /\ DOMAIN out \subseteq Nat
    /\ \A p \in DOMAIN out : out[p] \in Char
    /\ result \in {"none", "ok", "not found", "wrong packet", "wrong size"}
    /\ gets \in Nat

TypeOK ==
    /\ PacketTypeOK
    /\ SeekTypeOK
    /\ stage \in {"blank", "open", "closed", "seek"}
    /\ fault \in BOOLEAN

\* Options and the end tag never run into the header: its fields read as
\* packet_init wrote them.  Of an xid only the low byte is left, as a char, since
\* the masks of packet.c:103-106 leave the others where a char has no room.
HeaderKept ==
    stage # "blank" =>
        /\ packet_protocol = ToChar(header.protocol)
        /\ packet_type = ToChar(header.type)
        /\ packet_xid = ToChar(header.xid)

\* The part of its value that an option carries.
PartOf(option) == Part(option.value, option.padding)

\* Where the next option belongs: behind the one added last.
OptionEnd(option) == option.at + 3 + Len(PartOf(option))

OptionsEnd(options) ==
    IF options = <<>> THEN PACKET_POS_OPT_START ELSE OptionEnd(options[Len(options)])

\* The options lie one behind the other in the order they were added, each
\* with its id, its whole part of the value, and in front of that the low byte
\* of its length, twice: the remainder of packet.c:162 does not reach the high
\* byte below 0xFF00.  The end tag is the last byte of the packet.
LayoutExact ==
    ~fault => /\ \A j \in 1..Len(added) :
                    LET part == PartOf(added[j])
                        at   == added[j].at
                    IN  /\ at = IF j = 1 THEN PACKET_POS_OPT_START ELSE OptionEnd(added[j-1])
                        /\ data[at] = added[j].id
                        /\ data[at+1] = ToChar(Len(part))
                        /\ Len(part) < (BYTE-1) * BYTE => data[at+2] = ToChar(Len(part))
                        /\ \A k \in 1..Len(part) : data[at+2+k] = part[k]
              /\ stage \in {"closed", "seek"} =>
                    /\ sz = OptionsEnd(added) + 1
                    /\ data[sz-1] = ToChar(END)

\* packet_get looks for its option, and reads the length of each it passes,
\* inside packet->data (packet.c:53, "over memory test").
SeekInside == stage = "seek" => cursor \in 0..MaxData-3

\* With each option the loop passes it moves forward past the three bytes in
\* front of a value at least: packet_get takes at most MaxData \div 3 turns, on
\* whatever bytes it is let loose.
SeekAdvances ==
    [][stage = "seek" /\ stage' = "seek" => cursor' >= cursor + 3]_vars

\* Every packet_get returns: the loop has come to the option, or one of its two
\* tests has ended it (packet.c:40, "end packet Test"; packet.c:53, "over memory
\* test").
SeekEnds == stage = "seek" ~> (stage = "closed" \/ fault)

\* A length that both ways of putting its two bytes together give back: that of
\* the loop, to go past the option, and that of packet_get when it has found it.
ReadAsWritten(n) ==
    LET len == LengthChars(n)
    IN  len[1] + len[2] * BYTE = n /\ len[1] * BYTE + len[2] = n

\* packet.c:40-42, "end packet Test", "option %d not found": behind options whose
\* lengths are read as they were written, none of them the one that is asked
\* for, the end tag is noticed, and the caller told that the option is not
\* there, unless the end tag is in the last two bytes, where the over memory
\* test ends the walk in front of it.
EndTagNoticed ==
    /\ stage = "closed" /\ gets = 1 /\ call.id # END
    /\ sz <= MaxData - 2
    /\ \A j \in 1..Len(added) : /\ added[j].id # call.id
                              /\ ReadAsWritten(Len(PartOf(added[j])))
    => result = "not found"

\* What a caller's buffer is to hold of a value: all of it, or every other char
\* in its place.
InBuffer(v, padding) ==
    [p \in {q \in 0..Len(v)-1 : padding = "ODD" => q % 2 = 0} |-> v[p+1]]

\* As long as lengths are read as they were written, the first option with an id
\* is found behind any others, the last bytes of packet->data included: a caller
\* who gives no size, or its size, gets its chars, each in its place, and one who
\* gives another is told so and gets nothing.  An option with the id of the end
\* tag hides those behind it, and what was added as EVEN does not come back to
\* its place (packet.c:86).
OptionReadBack ==
    stage = "closed" /\ gets = 1 =>
        \A j \in 1..Len(added) :
            /\ added[j].id = call.id
            /\ \A i \in 1..j-1 : added[i].id \notin {call.id, END}
            /\ \A i \in 1..j : ReadAsWritten(Len(PartOf(added[i])))
            => IF call.size \in {0, Len(PartOf(added[j]))}
               THEN /\ result = "ok" /\ ~fault
                    /\ call.padding = added[j].padding /\ call.padding # "EVEN" =>
                          out = InBuffer(added[j].value, call.padding)
               ELSE result = "wrong size" /\ DOMAIN out = {}

\* packet.c:29 and 114, "Packet parser" and "Add field into packet": the first
\* option with an id comes back when it is asked for, whole.
OptionComesBack ==
    stage = "closed" /\ gets = 1 /\ call.padding = "NORMAL" /\ ~fault =>
        \A j \in 1..Len(added) :
            /\ added[j].id = call.id /\ added[j].padding = "NORMAL"
            /\ \A i \in 1..j-1 : added[i].id # call.id
            /\ call.size \in {0, Len(added[j].value)}
            => /\ result = "ok"
               /\ out = [p \in 0..Len(added[j].value)-1 |-> added[j].value[p+1]]
=============================================================================
