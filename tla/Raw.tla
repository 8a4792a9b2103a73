-------------------------------- MODULE Raw --------------------------------
(***************************************************************************)
(* The raw socket (raw.c).  init_raw_socket fills the headers of one frame *)
(* once; every send_raw_socket writes its data, the lengths and a new IP   *)
(* checksum over what the last one left; chg_header_raw_socket changes the *)
(* destination in between.                                                 *)
(*                                                                         *)
(* The IP header is its ten 16-bit words, as the machine reads them from   *)
(* the buffer.  Ports, the Ethernet source and protocol and the UDP        *)
(* checksum are written once and left out.                                 *)
(***************************************************************************)
EXTENDS Integers, Sequences

CONSTANTS
    BYTE,               \* values of a byte (256)
    RAW_FRAME_LENGTH,   \* bytes in raw->buffer (1500)
    VersionWord,        \* version, header length and type of service
    TtlWord,            \* time to live and protocol
    Address,            \* addresses of the device, pairs of words
    Mac,                \* destinations
    BroadcastMac,
    NoMac,              \* six zero bytes
    Data,               \* what callers send, sequences of bytes
    None

WORD == BYTE * BYTE
Word == 0..WORD-1

ETHHDR == 14            \* sizeof(struct ethhdr), iphdr, udphdr
IPHDR  == 20
UDPHDR == 8

ASSUME RawAssumption ==
    /\ BYTE \in Nat
    /\ RAW_FRAME_LENGTH \in ETHHDR+IPHDR+UDPHDR..WORD-1
    /\ VersionWord \in Word /\ TtlWord \in Word
    /\ Address \subseteq Word \X Word
    /\ Data \subseteq Seq(0..BYTE-1)

VARIABLES
    open,           \* raw->sockfd >= 0
    sll_addr,       \* raw->saddr.sll_addr
    h_dest,         \* destination in the Ethernet header
    iphead,
    udp_len,        \* raw->udphead->len
    data,           \* raw->data, as far as it was written
    wire,           \* the last frame sent
    given,          \* history: data of that frame, as the caller gave it
    target          \* history: destination the caller chose last

rawvars == <<open, sll_addr, h_dest, iphead, udp_len, data, wire, given, target>>

\* htons on a little-endian machine.
htons(n) == BYTE * (n % BYTE) + ((n \div BYTE) % BYTE)

Limited == <<WORD - 1, WORD - 1>>       \* 255.255.255.255

ZeroHead ==
    [version |-> 0, tot_len |-> 0, id |-> 0, frag_off |-> 0, ttl |-> 0, check |-> 0,
     saddr |-> <<0, 0>>, daddr |-> <<0, 0>>]

RawInit ==
    /\ open = FALSE
    /\ sll_addr = NoMac /\ h_dest = NoMac
    /\ iphead = ZeroHead /\ udp_len = 0 /\ data = <<>>
    /\ wire = None /\ given = <<>> /\ target = NoMac

-----------------------------------------------------------------------------
(* cksum on the IP header.                                                 *)

Total(h) ==
    h.version + h.tot_len + h.id + h.frag_off + h.ttl + h.check
        + h.saddr[1] + h.saddr[2] + h.daddr[1] + h.daddr[2]

\* Slip: the sum not narrowed to a word.
FoldedWide(s) ==
    LET once == (s \div WORD) + (s % WORD) IN once + (once \div WORD)

\* The carry added twice, and what fits a word of it.
Folded(s) ==
    LET once == (s \div WORD) + (s % WORD) IN (once + (once \div WORD)) % WORD

cksum(h) == WORD - 1 - Folded(Total(h))

\* Slip: the checksum of the last frame left in while the new one is computed.
CheckedOver(h) == [h EXCEPT !.check = cksum(h)]

Checked(h) == [h EXCEPT !.check = cksum([h EXCEPT !.check = 0])]

-----------------------------------------------------------------------------
\* The device has an address or none can be found.  A socket that cannot be opened
\* leaves the buffer zero, as it is.
init_raw_socket ==
    /\ ~open
    /\ open' = TRUE
    /\ sll_addr' = BroadcastMac /\ h_dest' = BroadcastMac /\ target' = BroadcastMac
    /\ \E a \in Address \cup {Limited} :
          iphead' = [version |-> VersionWord, tot_len |-> IPHDR + UDPHDR, id |-> 1,
                     frag_off |-> 0, ttl |-> TtlWord, check |-> 0,
                     saddr |-> a, daddr |-> Limited]
    /\ udp_len' = UDPHDR /\ data' = <<>>
    /\ UNCHANGED <<wire, given>>

\* Slip: only the address of the socket changed.
HeaderTo(mac) == h_dest

\* The address copied into the Ethernet header.
Header(mac) == mac

chg_header_raw_socket(mac) ==
    /\ open
    /\ sll_addr' = mac
    /\ h_dest' = Header(mac)
    /\ target' = mac
    /\ UNCHANGED <<open, iphead, udp_len, data, wire, given>>

Fits(d) == Len(d) + ETHHDR + IPHDR + UDPHDR <= RAW_FRAME_LENGTH

\* memcpy over what earlier data left.
Over(d) == d \o SubSeq(data, Len(d) + 1, Len(data))

\* Slip: the lengths left as the first frame had them.
LengthOnce(n) == IF wire = None THEN htons(IPHDR + UDPHDR + n) ELSE iphead.tot_len

Length(n) == htons(IPHDR + UDPHDR + n)

\* The frame goes out, or sendto fails; data that does not fit changes nothing.
send_raw_socket(d) ==
    /\ open /\ Fits(d)
    /\ data' = Over(d)
    /\ iphead' = Checked([iphead EXCEPT !.tot_len = Length(Len(d))])
    /\ udp_len' = htons(UDPHDR + Len(d))
    /\ \/ /\ wire' = [dest |-> h_dest, to |-> sll_addr, ip |-> iphead', len |-> udp_len',
                      payload |-> SubSeq(data', 1, Len(d))]
          /\ given' = d
       \/ UNCHANGED <<wire, given>>
    /\ UNCHANGED <<open, sll_addr, h_dest, target>>

RawNext ==
    \/ init_raw_socket
    \/ \E mac \in Mac : chg_header_raw_socket(mac)
    \/ \E d \in Data : send_raw_socket(d)

RawSpec == RawInit /\ [][RawNext]_rawvars

-----------------------------------------------------------------------------
(* Properties.                                                             *)

IpHead ==
    [version : Word, tot_len : Word, id : Word, frag_off : Word, ttl : Word, check : Word,
     saddr : Word \X Word, daddr : Word \X Word]

RawTypeOK ==
    /\ open \in BOOLEAN
    /\ {sll_addr, h_dest, target} \subseteq Mac \cup {BroadcastMac, NoMac}
    /\ iphead \in IpHead
    /\ udp_len \in Word
    /\ data \in Seq(0..BYTE-1)

\* The receiver's test: the words of the header, the checksum among them, add
\* up to all ones, for every frame of a sequence that shares one buffer.
HeaderVerifies == wire # None => Folded(Total(wire.ip)) = WORD - 1

\* A frame carries the data it was sent for, nothing an earlier and longer one
\* left, and both length fields say how much that is.
FrameExact ==
    wire # None =>
        /\ wire.payload = given
        /\ htons(wire.ip.tot_len) = IPHDR + UDPHDR + Len(given)
        /\ htons(wire.len) = UDPHDR + Len(given)

\* Frames go, by socket address and by header, where the caller said last.
FrameAddressed ==
    [][wire' # wire => wire'.dest = target /\ wire'.to = target]_rawvars
=============================================================================
