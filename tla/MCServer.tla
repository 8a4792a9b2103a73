----------------------------- MODULE MCServer -----------------------------
(***************************************************************************)
(* The server on a small heap, with packets of every kind reply_to_client  *)
(* tells apart: first packets with options of every kind, a later packet   *)
(* for each session id, one whose type byte is 255, and one too short to   *)
(* have a type.                                                            *)
(***************************************************************************)
EXTENDS Server, TLC

CONSTANTS c1, c2, c3

MCCell2 == {c1, c2}
MCCell3 == {c1, c2, c3}

MCDatagram ==
    {[sz |-> 6, type |-> -1, xid |-> 0, keys |-> "sound"],
     [sz |-> 3, type |-> 0, xid |-> 0, keys |-> "sound"]}
    \cup [sz : {6}, type : {PACKET_1}, xid : {0}, keys : Keys]
    \cup [sz : {6}, type : {3}, xid : 0..XID_MOD-1, keys : {"sound"}]

MCNoDatagram == {}

MCWireId == {AsChar(x) : x \in 0..XID_MOD-1} \cup {-ERR_WRONG_PACKET}

MCSymmetry == Permutations(MCCell3)
=============================================================================
