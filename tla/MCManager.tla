------------------------------ MODULE MCManager -----------------------------
(* Instances of Manager for TLC. *)
EXTENDS Manager

CONSTANTS a, b, loop, s, x, y, fsm, k1, k2
=============================================================================
