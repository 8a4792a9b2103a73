----------------------------- MODULE WirePacket -----------------------------
(***************************************************************************)
(* What the two programs read from a packet: its type and its id           *)
(* (packet_type and packet_xid of packet.c), and the keys that new_client  *)
(* and new_server take out of its options with packet_get.  A packet is    *)
(* [sz, type, xid, keys]; xid is the byte on the wire, and keys what       *)
(* packet_get makes of the options: Packet has its loop.                   *)
(***************************************************************************)
EXTENDS Integers

CONSTANT XID_MOD    \* values of a byte (256), hence of a session id

\* packet_get returns; goes round for ever, as it does on the length bytes
\* 253 and 0, which a signed char reads as the length -3; or walks or copies
\* outside the packet and the buffers, where what it reads decides.
Keys == {"sound", "endless", "wild"}

PACKET_1 == 1
PACKET_2 == 2
PACKET_POS_OPT_START == 6
ERR_WRONG_PACKET == 3

\* char is signed: a byte in the upper half of the range reads as negative.
AsChar(byte) == IF 2 * byte >= XID_MOD THEN byte - XID_MOD ELSE byte

\* packet_type and packet_xid on a packet of sz bytes.  The second byte of
\* the xid is 0 in every packet packet_init builds.
PacketType(p) ==
    IF p.sz >= PACKET_POS_OPT_START THEN p.type ELSE -ERR_WRONG_PACKET
PacketXid(p) ==
    IF p.sz >= PACKET_POS_OPT_START THEN AsChar(p.xid) ELSE -ERR_WRONG_PACKET
=============================================================================
