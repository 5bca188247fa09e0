---------------------------- MODULE MCQueryFanOut ----------------------------
(* Small instances of QueryFanOut for TLC. *)
EXTENDS QueryFanOut
CONSTANTS rows, a1, a2, g1, g2
=============================================================================
