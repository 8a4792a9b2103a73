------------------------------- MODULE MCRaw -------------------------------
(***************************************************************************)
(* Frames in bytes of eight values, so words of 64: data that is empty,    *)
(* that fills the frame and that is too long, and addresses for which the  *)
(* sum of the header carries once and twice.                               *)
(***************************************************************************)
EXTENDS Raw, TLC

CONSTANTS m1, m2

MCMac == {m1, m2}
MCAddress == {<<0, 0>>, <<63, 62>>} \cup {<<n, 3>> : n \in 20..40}
MCData == {<<>>, <<1>>, <<2, 3, 4>>, [k \in 1..6 |-> k], [k \in 1..7 |-> 7]}
=============================================================================
