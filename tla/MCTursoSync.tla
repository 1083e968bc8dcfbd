----------------------------- MODULE MCTursoSync ----------------------------
(* Instances of TursoSync for TLC. *)
EXTENDS TursoSync

CONSTANTS n1, n2, k1, k2, c1
=============================================================================
