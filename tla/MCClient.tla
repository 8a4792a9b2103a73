------------------------------ MODULE MCClient ------------------------------
(***************************************************************************)
(* The client with two servers at most, SIGTERM and one other signal, and  *)
(* packets of every kind reply_to_server tells apart: a PACKET_2 for each  *)
(* id byte, one whose type byte is 255, and a later packet with the id     *)
(* byte that reads as negative.  What is read as too short to have a type  *)
(* comes from an interrupted select.  The PACKET_2s with the id byte 0 have *)
(* options of every kind, the other one sound options.                     *)
(***************************************************************************)
EXTENDS Client

MCRaised == {"SIGUSR1", "SIGTERM"}

MCDatagram ==
    {[sz |-> 6, type |-> -1, xid |-> 0, keys |-> "sound"],
     [sz |-> 6, type |-> 3, xid |-> XID_MOD-1, keys |-> "sound"]}
    \cup [sz : {6}, type : {PACKET_2}, xid : 0..XID_MOD-1, keys : {"sound"}]
    \cup [sz : {6}, type : {PACKET_2}, xid : {0}, keys : Keys]
=============================================================================
