----------------------------- MODULE MCPidfile -----------------------------
(***************************************************************************)
(* Three instances, the second with the longest pid, so that a pid is      *)
(* written over a longer and over a shorter one, and two files: one whose   *)
(* name is gone while an instance has it open, and one that took the name. *)
(***************************************************************************)
EXTENDS Pidfile, TLC

CONSTANTS p1, p2, p3, f1, f2

MCInstance == {p1, p2, p3}
MCDigits   == p1 :> 4 @@ p2 :> 5 @@ p3 :> 3
MCFile     == {f1, f2}
=============================================================================
