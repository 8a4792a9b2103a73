----------------------------- MODULE MCPacket -----------------------------
(***************************************************************************)
(* The codec with bytes of eight values, and at its own widths.  With      *)
(* eight values the two bytes of a length are equal up to 55: 0, 9, 18,    *)
(* ... are read as they were written, 5 as a negative number where chars   *)
(* are signed, 8 as 0, and the others as something too long.               *)
(***************************************************************************)
EXTENDS Packet, TLC

MCOptId == {1, 2}

\* An option may have the id of the end tag.
MCTagOptId == {1, 2, 7}

\* The odd part of 17 chars has 9, the even one 8.
MCValue == {<<>>, <<2, 1, 2>>, [k \in 1..5 |-> k % 3], [k \in 1..9 |-> k % 4],
            [k \in 1..17 |-> k % 3]}

\* An xid of one byte, and one of two whose low byte has the sign bit.
MCHeader == [protocol : {0}, type : {1, 7}, xid : {3, 12}]
MCOneHeader == {[protocol |-> 0, type |-> 1, xid |-> 3]}

\* What broadcast_sDHCP sends, at its size: the modulus of a 1024-bit key in
\* 256 hexadecimal digits, and its exponent.
MCKeyOptId == {10, 11}
MCKeyValue == {[k \in 1..256 |-> 65], <<48, 49, 48, 48, 48, 49>>}
MCKeyHeader == {BroadcastHeader}

\* 256 chars whose length is stored as two zeros, so that the loop goes on among
\* them; there it reads 0xFD 0x00, the length -3.
MCLoopValue == {[k \in 1..256 |-> CASE k = 2 -> -3 [] k = 3 -> 0 [] OTHER -> 65]}
=============================================================================
