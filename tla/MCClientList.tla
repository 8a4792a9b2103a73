--------------------------- MODULE MCClientList ---------------------------
(***************************************************************************)
(* ClientList on four cells and five sessions, so that a freed cell is    *)
(* handed out again, with three session ids, so that idclient wraps.         *)
(***************************************************************************)
EXTENDS ClientList, TLC

CONSTANTS c1, c2, c3, c4

MCCell == {c1, c2, c3, c4}

\* The ids a packet can carry: those of the sessions, one that no session
\* has and -ERR_WRONG_PACKET.
MCWireId == {-3, 0, 1, 2, 3}

MCSymmetry == Permutations(MCCell)
=============================================================================
